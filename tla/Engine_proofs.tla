---------------------------- MODULE Engine_proofs ----------------------------
(* Proofs about Engine: what every history of a session keeps.             *)
EXTENDS Engine, FiniteSetTheorems, WellFoundedInduction, TLAPS

(* Types.                                                                  *)

Outcomes == {"none", "success", "failed"}
Attempt  == [outcome : Outcomes, failure : {"none", "retryable", "auth", "fatal"},
             closed : BOOLEAN, reply : Reply \cup {None}]
Actors   == STRING \cup {"none", "facilitator", "reducer"}
TurnRec  == [actor : Actors, round : Nat, role : Roles \cup {"none"}, attempts : Seq(Attempt)]
Verdicts == {"none", "admitted", "rejected", "not_admitted", "children_exhausted",
             "turns_exhausted"}
Request  == [verdict : Verdicts, turns : Nat, status : {"none", "completed", "failed"},
             reply : Reply \cup {None}]
Ids      == (Items \X {0}) \cup (Actors \X (Nat \ {0}))
Prompted == [text : Prompts, applied : Nat, consumed : BOOLEAN]
Phases   == {"participant", "facilitator", "reducer", "done"}

\* The states of executionState whose requests are D.
State(D) ==
  [started : BOOLEAN, provisioned : SUBSET Provisions(plan),
   terminal : {"none", "completed", "failed"}, phase : Phases, turn : TurnRec,
   conv : Seq([actor : Actors, text : Text]), ledger : Ledger,
   result : [by : {"none", "participant", "reducer"}, text : Text], granted : Nat, atGrant : Nat,
   grant : [turns : Nat, prompt : Prompts \cup {None}],
   requests : [D -> Request], childrenUsed : Nat, childTurns : Nat,
   steering : Seq(Prompted), validation : {"none", "valid", "invalid"}]

Labels == {"idle", "loop", "backoff", "call", "running", "failing", "reply",
           "static", "children", "childError", "success"}

Typed ==
  /\ plan \in Plans /\ pc \in Labels /\ cancelled \in BOOLEAN /\ rejected = FALSE
  /\ DOMAIN st.requests \subseteq Ids /\ st \in State(DOMAIN st.requests)

(* What the log alone keeps.                                               *)

\* A turn that is there was started in order, within the budget.
TurnInv ==
  /\ st.turn.role = "none" => st.turn = NoTurn
  /\ Active(st) => /\ st.started /\ st.terminal # "completed" /\ st.validation = "none"
                   /\ st.turn.round > 0
  /\ st.turn.role = "participant" =>
       /\ Len(st.conv) < Budget(st)
       /\ st.turn.actor = ParticipantActorForTurn(Len(st.conv) + 1)
  /\ st.turn.role \in {"facilitator", "reducer"} => st.turn.actor = st.turn.role

\* The schedule has a turn to give whenever the phase or a grant wants one.
Schedule ==
  /\ st.terminal # "none" => st.started
  /\ st.atGrant <= Len(st.conv) /\ Len(st.conv) <= Budget(st)
  /\ st.phase = "participant" => Len(st.conv) < Budget(st)
  /\ st.phase = "facilitator" => Len(st.conv) > 0
  /\ hasUnstartedGrantedWork(st) =>
       Len(st.conv) < Budget(st) /\ st.phase \in {"participant", "done"}
  /\ st.granted > 0 /\ Len(st.conv) = st.atGrant /\ st.terminal = "none"
       => st.turn.role = "participant"

\* A failure from max_attempts on is the last; an answer ends the attempts.
Attempts ==
  /\ OneAnswer
  /\ \A i, j \in Occurs(st.turn, "failed") :
       i >= plan.maxAttempts /\ j >= plan.maxAttempts => i = j
  /\ \A i \in Occurs(st.turn, "success") : st.turn.attempts[i].reply \in Reply

InHand == {i \in DOMAIN st.steering : st.steering[i].applied # 0 /\ ~st.steering[i].consumed}

\* SteeringInOrder, with the number of prompts in hand as a quantifier.
Steering ==
  /\ \A i, j \in DOMAIN st.steering :
       i < j /\ st.steering[j].applied # 0 => st.steering[i].applied # 0
  /\ \A i \in DOMAIN st.steering : st.steering[i].consumed => st.steering[i].applied # 0
  /\ \A i, j \in InHand : i = j
  /\ \A i \in InHand : Active(st) /\ st.steering[i].applied = st.turn.round

\* A result is validated when nothing is left to do, and stays as it was.
Result ==
  /\ st.validation # "none" /\ st.terminal = "none" => ~Active(st) /\ childrenDone /\ StopsNow
  /\ st.validation = "valid" => validateSelectedResult(st)
  /\ st.terminal = "completed" => st.validation = "valid" /\ childrenDone

\* The account of the children that requests were admitted for.
Account ==
  /\ \A id \in Dynamic : st.requests[id].turns = ChildTurns
  /\ IsFiniteSet(Dynamic)
  /\ Cardinality(Dynamic) <= st.childrenUsed /\ Cardinality(Dynamic) <= plan.maxChildren
  /\ Cardinality(Dynamic) * ChildTurns <= st.childTurns
  /\ Dynamic # {} => Cardinality(Dynamic) * ChildTurns <= plan.maxTurns

ChildrenInv ==
  /\ DOMAIN kids \subseteq DOMAIN st.requests
  /\ ChildAgrees
  /\ \A id \in DOMAIN st.requests :
       st.requests[id].status = "completed" => st.requests[id].reply \in Reply

(* What a place of the runner knows.                                       *)

Retriable == \A i \in Occurs(st.turn, "failed") : i < plan.maxAttempts

Knows(l) ==
  /\ l # "idle" => st.started /\ ~Finished
  /\ l \in {"backoff", "call", "running", "failing", "reply", "static"} => Active(st)
  /\ l \in {"children", "success"} => ~Active(st)
  /\ l \in {"backoff", "call", "running", "failing"} => ~Answered
  /\ l \in {"backoff", "call", "running"} => Retriable
  /\ l = "running" => /\ st.turn.attempts # <<>>
                      /\ Last(st.turn.attempts).outcome = "none"
                      /\ Last(st.turn.attempts).failure = "none"
                      /\ ~Last(st.turn.attempts).closed
  /\ l = "failing" => /\ st.turn.attempts # <<>>
                      /\ Last(st.turn.attempts).outcome = "failed"
                      /\ ~Last(st.turn.attempts).closed
  /\ l = "reply" => Answered
  /\ l = "success" => childrenDone /\ StopsNow
  /\ l = "childError" => Failures # {}
  /\ l \in {"backoff", "call", "running", "failing", "reply"} => st.turn.actor \notin plan.static
  /\ l = "static" => st.turn.actor \in plan.static

Control == (cancelled => pc # "idle") /\ Knows(pc)

IInv == /\ Typed /\ TurnInv /\ Schedule /\ Attempts /\ Steering
        /\ Result /\ Account /\ ChildrenInv /\ Control

-----------------------------------------------------------------------------
(* What a step does to the state: it appends at most one event.            *)

SameLife     == st'.started = st.started /\ st'.provisioned = st.provisioned
SameTerminal == st'.terminal = st.terminal
SameResult   == st'.validation = st.validation
SameTalk     == /\ st'.conv = st.conv /\ st'.ledger = st.ledger
                /\ st'.result = st.result /\ st'.phase = st.phase
SameTurn     == st'.turn = st.turn
SameGrant    == st'.granted = st.granted /\ st'.atGrant = st.atGrant /\ st'.grant = st.grant
SameAccount  == /\ st'.requests = st.requests
                /\ st'.childrenUsed = st.childrenUsed /\ st'.childTurns = st.childTurns
SameSteering == st'.steering = st.steering

Unmoved == st' = st

\* input.ingested, workspace.prepared, session.started.
Readies ==
  /\ st.started => st'.started
  /\ SameTerminal /\ SameResult /\ SameTalk /\ SameTurn /\ SameGrant /\ SameAccount /\ SameSteering

\* session.finished.
Ends(how) ==
  /\ st.terminal = "none" /\ st.started
  /\ how = "completed" => st.validation = "valid" /\ childrenDone
  /\ how = "failed" => /\ ~cancelled \/ st.validation = "invalid"
                       /\ (st.validation = "invalid") <=> (pc = "success")
  /\ st'.terminal = how
  /\ SameLife /\ SameResult /\ SameTalk /\ SameTurn /\ SameGrant /\ SameAccount /\ SameSteering

\* turn.started.
TurnStarts(actor, round, role) ==
  /\ st.started /\ ~Active(st) /\ childrenDone /\ ~StopsNow
  /\ st.terminal = "none" \/ hasUnstartedGrantedWork(st)
  /\ round > 0
  /\ role = "participant" =>
       Len(st.conv) < Budget(st) /\ actor = ParticipantActorForTurn(Len(st.conv) + 1)
  /\ role # "participant" => actor = role
  /\ hasUnstartedGrantedWork(st) => role = "participant"
  /\ st'.turn = [actor |-> actor, round |-> round, role |-> role, attempts |-> <<>>]
  /\ st'.terminal = "none"
  /\ st'.validation = (IF st.terminal = "none" THEN st.validation ELSE "none")
  /\ SameLife /\ SameTalk /\ SameGrant /\ SameAccount /\ SameSteering

\* The turn keeps all but its attempts.
SameButAttempts ==
  /\ Active(st)
  /\ st'.turn.actor = st.turn.actor /\ st'.turn.round = st.turn.round
  /\ st'.turn.role = st.turn.role
  /\ SameLife /\ SameTerminal /\ SameResult /\ SameTalk /\ SameGrant /\ SameAccount /\ SameSteering

\* attempt.started.
Fresh == [outcome |-> "none", failure |-> "none", closed |-> FALSE, reply |-> None]
Tries == /\ ~Answered /\ st'.turn.attempts = Append(st.turn.attempts, Fresh)
         /\ SameButAttempts

\* provider.failed, attempt.finished: a is what the last attempt becomes.
Marks(a) ==
  LET q == st.turn.attempts
  IN /\ q # <<>> /\ ~Answered /\ a.outcome # "none"
     /\ a.outcome = "success" => a.reply \in Reply
     /\ a.outcome = "failed" => Retriable \/ Last(q).outcome = "failed"
     /\ a.closed <=> (a.outcome = "success" \/ Last(q).outcome = "failed")
     /\ st'.turn.attempts = [q EXCEPT ![Len(q)] = a]
     /\ SameButAttempts

\* The ledger after a facilitator's turn.
NewLedger(reply) ==
  LET l == IF reply.parses THEN reply.ledger ELSE st.ledger
  IN IF Len(st.conv) < 2 THEN [l EXCEPT !.contested = {}] ELSE l

\* The answer of the turn: of its child, or of its last attempt.
TurnReply(reply) ==
  IF st.turn.actor \in plan.static
  THEN /\ st.requests[StaticId(st.turn)].status = "completed"
       /\ reply = st.requests[StaticId(st.turn)].reply
  ELSE Answered /\ reply = Reply0

\* turn.finished.
TurnEnds(reply) ==
  /\ Active(st) /\ st.terminal = "none" /\ st'.turn = NoTurn /\ TurnReply(reply)
  /\ st'.ledger = IF st.turn.role = "facilitator" THEN NewLedger(reply) ELSE st.ledger
  /\ st'.result.by = "reducer" => st.turn.role = "reducer" \/ st.result.by = "reducer"
  /\ st.turn.role = "facilitator" => st'.result = st.result
  /\ st'.conv = IF st.turn.role = "participant"
                THEN Append(st.conv, [actor |-> st.turn.actor, text |-> reply.text]) ELSE st.conv
  /\ st'.phase = "participant" => Len(st'.conv) < Budget(st)
  /\ st'.phase = "facilitator" => Len(st'.conv) > 0
  /\ st'.steering = [i \in DOMAIN st.steering |->
                       IF st.steering[i].applied = st.turn.round
                       THEN [st.steering[i] EXCEPT !.consumed = TRUE] ELSE st.steering[i]]
  /\ SameLife /\ SameTerminal /\ SameResult /\ SameGrant /\ SameAccount

SameButAccount == /\ SameLife /\ SameTerminal /\ SameResult /\ SameTalk /\ SameTurn
                  /\ SameGrant /\ SameSteering

\* A facilitator asks for what it finds contested, a child step for its child.
MayAsk(id) == \/ st.turn.role = "facilitator"
              \/ st.turn.actor \in plan.static /\ id = StaticId(st.turn)

\* child.requested.
Asks(id) ==
  /\ Active(st) /\ id \notin DOMAIN st.requests /\ MayAsk(id)
  /\ st'.requests = [x \in DOMAIN st.requests \cup {id} |->
                       IF x = id THEN Asked ELSE st.requests[x]]
  /\ st'.childrenUsed = st.childrenUsed /\ st'.childTurns = st.childTurns
  /\ SameButAccount

\* child.decided.
Decides(id, verdict, turns) ==
  /\ id \in Undecided /\ verdict # "none"
  /\ verdict # "admitted" => turns = 0
  /\ verdict = "admitted" /\ ~IsStatic(id) =>
       /\ turns = ChildTurns /\ st.childrenUsed < plan.maxChildren
       /\ st.childTurns + turns <= plan.maxTurns
  /\ st'.requests = [st.requests EXCEPT ![id] = [@ EXCEPT !.verdict = verdict, !.turns = turns]]
  /\ st'.childrenUsed = st.childrenUsed + (IF verdict = "admitted" THEN 1 ELSE 0)
  /\ st'.childTurns = st.childTurns + turns
  /\ SameButAccount

\* child.completed.
Completes(id, status, reply) ==
  /\ id \in Unfinished
  /\ status = "completed" => id \in DOMAIN kids /\ kids[id] = "completed" /\ reply \in Reply
  /\ status = "failed" => ~cancelled
  /\ st'.requests = [st.requests EXCEPT ![id] = [@ EXCEPT !.status = status, !.reply = reply]]
  /\ st'.childrenUsed = st.childrenUsed /\ st'.childTurns = st.childTurns
  /\ SameButAccount

SameButSteering == /\ SameLife /\ SameTerminal /\ SameResult /\ SameTalk /\ SameTurn
                   /\ SameGrant /\ SameAccount

\* steering.queued.
Queues(p) == st'.steering = Append(st.steering, Prompt(p)) /\ SameButSteering

\* steering.applied: to the first prompt that waits, while none is in hand.
Applies(i) ==
  /\ Active(st) /\ InHand = {}
  /\ i \in DOMAIN st.steering /\ \A j \in DOMAIN st.steering : j < i => st.steering[j].applied # 0
  /\ st'.steering = [st.steering EXCEPT ![i].applied = st.turn.round]
  /\ SameButSteering

\* turn_budget.granted.
Grants(n, p) ==
  /\ turnBudgetGrantApplicable(st) /\ st.started /\ n > 0
  /\ st'.granted = st.granted + n /\ st'.atGrant = Len(st.conv)
  /\ st'.grant = [turns |-> n, prompt |-> p]
  /\ st'.steering = IF p = None THEN st.steering ELSE Append(st.steering, Prompt(p))
  /\ SameLife /\ SameTerminal /\ SameResult /\ SameTalk /\ SameTurn /\ SameAccount

\* result.produced.
Validates(v) ==
  /\ st.started /\ st.terminal = "none" /\ st.validation = "none"
  /\ ~Active(st) /\ childrenDone /\ StopsNow
  /\ v = "valid" => validateSelectedResult(st)
  /\ st'.validation = v
  /\ SameLife /\ SameTerminal /\ SameTalk /\ SameTurn /\ SameGrant /\ SameAccount /\ SameSteering

Effect ==
  \/ Unmoved \/ Readies \/ \E how \in {"completed", "failed"} : Ends(how)
  \/ \E actor \in Actors, round \in Nat, role \in Roles : TurnStarts(actor, round, role)
  \/ Tries \/ (\E a \in Attempt : Marks(a)) \/ \E reply \in Reply : TurnEnds(reply)
  \/ \E id \in Ids : Asks(id)
  \/ \E id \in Ids, verdict \in Verdicts, turns \in Nat : Decides(id, verdict, turns)
  \/ \E id \in Ids, status \in {"completed", "failed"}, reply \in Reply \cup {None} :
       Completes(id, status, reply)
  \/ (\E p \in Prompts : Queues(p)) \/ \E i \in Nat : Applies(i)
  \/ \E n \in Nat, p \in Prompts \cup {None} : Grants(n, p)
  \/ \E v \in {"valid", "invalid"} : Validates(v)

\* The child sessions: none goes away, and one that completed stays so.
KidsStep ==
  /\ DOMAIN kids \subseteq DOMAIN kids' /\ DOMAIN kids' \subseteq DOMAIN st.requests
  /\ \A id \in DOMAIN kids : kids[id] = "completed" => kids'[id] = "completed"

\* What every step of Next does, as far as the log is concerned.
Step == Effect /\ KidsStep /\ plan' = plan /\ Typed'
-----------------------------------------------------------------------------
(* Each event, when reduceEvent accepts it, has its effect and no other.   *)

\* The new state is well typed and nothing was refused.
Accepted == /\ rejected' = FALSE
            /\ DOMAIN st'.requests \subseteq Ids /\ st' \in State(DOMAIN st'.requests)

\* What Log does with an event that reduceEvent accepts.
LEMMA LogEvent ==
  ASSUME NEW ok, NEW s, Log(Event(ok, s)), ok, s.started, rejected = FALSE
  PROVE  st' = s /\ rejected' = FALSE
  BY Zenon DEF Log, Event

\* session.finished changes the terminal only.
LEMMA LogEnds ==
  ASSUME Typed, NEW how \in {"completed", "failed"}, Log(SessionFinished(st, how)),
         st.started, st.terminal = "none",
         how = "completed" => st.validation = "valid" /\ childrenDone,
         how = "failed" => /\ ~cancelled \/ st.validation = "invalid"
                           /\ (st.validation = "invalid") <=> (pc = "success")
  PROVE  Accepted /\ Ends(how)
<1> DEFINE D == DOMAIN st.requests
           s == [st EXCEPT !.terminal = how]
<1>1. st \in State(D) /\ D \subseteq Ids /\ rejected = FALSE
  BY DEF Typed
<1> HIDE DEF D
<1>2. s.started = st.started
  BY <1>1 DEF State
<1>3. st' = s /\ rejected' = FALSE
  BY <1>1, <1>2 DEF Log, SessionFinished, Event
<1>4. st' \in State(D)
  BY <1>1, <1>3 DEF State
<1>5. Ends(how)
  BY <1>1, <1>3 DEF Ends, State, SameLife, SameResult, SameTalk, SameTurn, SameGrant,
                    SameAccount, SameSteering
<1> QED
  BY <1>1, <1>3, <1>4, <1>5 DEF Accepted, State

\* result.produced changes the validation only.
LEMMA LogValidates ==
  ASSUME Typed, NEW v \in {"valid", "invalid"}, Log(ResultProduced(st, v)),
         st.started, st.terminal = "none", st.validation = "none",
         ~Active(st), childrenDone, StopsNow, v = "valid" => validateSelectedResult(st)
  PROVE  Accepted /\ Validates(v)
<1> DEFINE D == DOMAIN st.requests
           s == [st EXCEPT !.validation = v]
<1>1. st \in State(D) /\ D \subseteq Ids /\ rejected = FALSE
  BY DEF Typed
<1> HIDE DEF D
<1>2. s.started = st.started
  BY <1>1 DEF State
<1>3. st' = s /\ rejected' = FALSE
  BY <1>1, <1>2 DEF Log, ResultProduced, Event
<1>4. st' \in State(D)
  BY <1>1, <1>3 DEF State
<1>5. Validates(v)
  BY <1>1, <1>3 DEF Validates, State, SameLife, SameTerminal, SameTalk, SameTurn, SameGrant,
                    SameAccount, SameSteering
<1> QED
  BY <1>1, <1>3, <1>4, <1>5 DEF Accepted, State

\* input.ingested and workspace.prepared change what is provisioned only.
LEMMA LogProvision ==
  ASSUME Typed, NEW x \in Provisions(plan), Log(Provisioned(st, x)),
         ~st.started, x \notin st.provisioned
  PROVE  Accepted /\ Readies
<1> DEFINE D == DOMAIN st.requests
           all == st.provisioned \cup {x}
           s == [st EXCEPT !.provisioned = all]
<1>1. st \in State(D) /\ D \subseteq Ids /\ rejected = FALSE
  BY DEF Typed
<1>2. all \in SUBSET Provisions(plan)
  BY <1>1 DEF State
<1>3. st' = s /\ rejected' = FALSE
  BY <1>1 DEF Log, Provisioned
<1> HIDE DEF D, all
<1>4. st' \in State(D)
  BY <1>1, <1>2, <1>3 DEF State
<1>5. Readies
  BY <1>1, <1>3 DEF Readies, State, SameTerminal, SameResult, SameTalk, SameTurn, SameGrant,
                    SameAccount, SameSteering
<1> QED
  BY <1>1, <1>3, <1>4, <1>5 DEF Accepted, State

\* session.started starts the session and does nothing else.
LEMMA LogStart ==
  ASSUME Typed, Log(SessionStarted(st)), ~st.started
  PROVE  Accepted /\ Readies /\ st'.started
<1> DEFINE D == DOMAIN st.requests
           s == [st EXCEPT !.started = TRUE]
<1>1. st \in State(D) /\ D \subseteq Ids /\ rejected = FALSE
  BY DEF Typed
<1> HIDE DEF D
<1>2. s.started
  BY <1>1 DEF State
<1>3. st' = s /\ rejected' = FALSE
  BY <1>1, <1>2 DEF Log, SessionStarted, Event
<1>4. st' \in State(D)
  BY <1>1, <1>3 DEF State
<1>5. Readies /\ st'.started
  BY <1>1, <1>2, <1>3 DEF Readies, State, SameTerminal, SameResult, SameTalk, SameTurn, SameGrant,
                    SameAccount, SameSteering
<1> QED
  BY <1>1, <1>3, <1>4, <1>5 DEF Accepted, State

\* turn.started sets the turn and reopens a session that was granted turns.
LEMMA LogTurnStarts ==
  ASSUME Typed, NEW actor \in Actors, NEW round \in Nat, NEW role \in Roles,
         Log(TurnStarted(st, actor, round, role)),
         st.started, ~Active(st), childrenDone, ~StopsNow, round > 0,
         st.terminal = "none" \/ hasUnstartedGrantedWork(st),
         role = "participant" =>
           Len(st.conv) < Budget(st) /\ actor = ParticipantActorForTurn(Len(st.conv) + 1),
         role # "participant" => actor = role,
         hasUnstartedGrantedWork(st) => role = "participant"
  PROVE  Accepted /\ TurnStarts(actor, round, role)
<1> DEFINE D == DOMAIN st.requests
           t == [actor |-> actor, round |-> round, role |-> role, attempts |-> <<>>]
           v == IF st.terminal = "none" THEN st.validation ELSE "none"
           s == [st EXCEPT !.turn = t, !.terminal = "none", !.validation = v]
<1>1. st \in State(D) /\ D \subseteq Ids /\ rejected = FALSE
  BY DEF Typed
<1>2. t \in TurnRec
  BY DEF TurnRec
<1>3. v \in {"none", "valid", "invalid"}
  BY <1>1 DEF State
<1>4. Log(Event((st.terminal = "none" \/ hasUnstartedGrantedWork(st)) /\ ~Active(st), s))
  BY Zenon DEF TurnStarted
<1>5. TurnStarts(actor, round, role)
        <=> /\ st'.turn = t /\ st'.terminal = "none" /\ st'.validation = v
            /\ SameLife /\ SameTalk /\ SameGrant /\ SameAccount /\ SameSteering
  BY Zenon DEF TurnStarts
<1> HIDE DEF D, t, v
<1>6. s.started
  BY <1>1 DEF State
<1>7. st' = s /\ rejected' = FALSE
  <2> HIDE DEF s
  <2> QED BY <1>1, <1>4, <1>6, LogEvent, Zenon
<1>8. st' \in State(D)
  BY <1>1, <1>2, <1>3, <1>7 DEF State
<1>9. TurnStarts(actor, round, role)
  BY <1>1, <1>5, <1>7 DEF State, SameLife, SameTalk, SameGrant, SameAccount, SameSteering
<1> QED
  BY <1>1, <1>7, <1>8, <1>9 DEF Accepted, State

\* What the events of an attempt have in common: only the attempts change.
LEMMA NewAttempts ==
  ASSUME Typed, Active(st), NEW q \in Seq(Attempt),
         st' = [st EXCEPT !.turn = [st.turn EXCEPT !.attempts = q]], rejected' = FALSE
  PROVE  Accepted /\ SameButAttempts /\ st'.turn.attempts = q
<1> DEFINE D == DOMAIN st.requests
           t == [st.turn EXCEPT !.attempts = q]
<1>1. st \in State(D) /\ D \subseteq Ids /\ st.turn \in TurnRec
  BY DEF Typed, State
<1>2. /\ t \in TurnRec /\ t.actor = st.turn.actor /\ t.round = st.turn.round
      /\ t.role = st.turn.role /\ t.attempts = q
  BY <1>1 DEF TurnRec
<1> HIDE DEF D, t
<1>3. st' = [st EXCEPT !.turn = t]
  BY DEF t
<1>4. st' \in State(D)
  BY <1>1, <1>2, <1>3 DEF State
<1>5. SameButAttempts /\ st'.turn.attempts = q
  BY <1>1, <1>2, <1>3 DEF SameButAttempts, State, SameLife, SameTerminal, SameResult, SameTalk,
                          SameGrant, SameAccount, SameSteering
<1> QED
  BY <1>1, <1>4, <1>5 DEF Accepted, State

\* attempt.started adds an attempt without an outcome.
LEMMA LogTries ==
  ASSUME Typed, st.started, Active(st), ~Answered,
         Log(AttemptStarted(st, st.turn.actor, Len(st.turn.attempts) + 1))
  PROVE  Accepted /\ Tries
<1> DEFINE q == Append(st.turn.attempts, Fresh)
           s == [st EXCEPT !.turn = [st.turn EXCEPT !.attempts = q]]
<1>1. /\ st.turn \in TurnRec /\ st \in State(DOMAIN st.requests) /\ rejected = FALSE
      /\ st.turn.attempts \in Seq(Attempt)
  BY DEF Typed, State, TurnRec
<1>2. q \in Seq(Attempt)
  BY <1>1 DEF Attempt, Outcomes, Fresh
<1>3. Len(st.turn.attempts) + 1 \notin DOMAIN st.turn.attempts
  BY <1>1
<1>4. s.started
  BY <1>1 DEF State
<1>5. Log(Event(Active(st) /\ st.turn.actor = st.turn.actor
                  /\ Len(st.turn.attempts) + 1 \notin DOMAIN st.turn.attempts, s))
  BY Zenon DEF AttemptStarted, Fresh
<1>6. st' = s /\ rejected' = FALSE
  <2> HIDE DEF s
  <2> QED BY <1>1, <1>3, <1>4, <1>5, LogEvent, Zenon
<1>7. Accepted /\ SameButAttempts /\ st'.turn.attempts = q
  BY <1>2, <1>6, NewAttempts
<1> QED
  BY <1>7 DEF Tries

\* provider.failed and attempt.finished change the last attempt.
LEMMA MarkLast ==
  ASSUME Typed, Active(st), st.turn.attempts # <<>>, ~Answered, NEW a \in Attempt,
         a.outcome # "none", a.outcome = "success" => a.reply \in Reply,
         a.outcome = "failed" => Retriable \/ Last(st.turn.attempts).outcome = "failed",
         a.closed <=> (a.outcome = "success" \/ Last(st.turn.attempts).outcome = "failed"),
         st' = [st EXCEPT !.turn = [st.turn EXCEPT !.attempts =
                  [st.turn.attempts EXCEPT ![Len(st.turn.attempts)] = a]]],
         rejected' = FALSE
  PROVE  Accepted /\ Marks(a)
<1> DEFINE q == st.turn.attempts
           r == [q EXCEPT ![Len(q)] = a]
<1>1. q \in Seq(Attempt)
  BY DEF Typed, State, TurnRec
<1>2. r \in Seq(Attempt)
  BY <1>1
<1>3. Accepted /\ SameButAttempts /\ st'.turn.attempts = r
  <2> HIDE DEF r
  <2>1. st' = [st EXCEPT !.turn = [st.turn EXCEPT !.attempts = r]]
    BY DEF r
  <2> QED BY <1>2, <2>1, NewAttempts
<1> QED
  BY <1>3 DEF Marks

\* attempt.finished with an answer.
LEMMA LogAnswer ==
  ASSUME Typed, st.started, Active(st), st.turn.attempts # <<>>, ~Answered, NEW reply \in Reply,
         Last(st.turn.attempts).outcome = "none",
         Log(AttemptFinished(st, st.turn.actor, Len(st.turn.attempts), "success", reply))
  PROVE  Accepted /\ \E a \in Attempt : a.outcome = "success" /\ Marks(a)
<1> DEFINE q == st.turn.attempts
           n == Len(q)
           a == [q[n] EXCEPT !.outcome = "success", !.closed = TRUE, !.reply = reply]
           s == [st EXCEPT !.turn = [st.turn EXCEPT !.attempts = [q EXCEPT ![n] = a]]]
           ok == /\ Active(st) /\ st.turn.actor = st.turn.actor /\ n \in DOMAIN q
                 /\ q[n].outcome = "none"
                      \/ (q[n].outcome = "failed" /\ "success" = "failed" /\ ~q[n].closed)
<1>1. q \in Seq(Attempt) /\ st \in State(DOMAIN st.requests) /\ rejected = FALSE
  BY DEF Typed, State, TurnRec
<1>2. n \in DOMAIN q /\ q[n] \in Attempt /\ q[n].outcome = "none"
  BY <1>1 DEF Last
<1>3. a \in Attempt /\ a.outcome = "success" /\ a.reply = reply /\ a.closed = TRUE
  BY <1>2 DEF Attempt, Outcomes
<1>4. s.started
  BY <1>1 DEF State
<1>5. Log(Event(ok, s))
  BY Zenon DEF AttemptFinished
<1>6. ok
  BY <1>2
<1>7. st' = s /\ rejected' = FALSE
  <2> HIDE DEF s, ok
  <2> QED BY <1>1, <1>4, <1>5, <1>6, LogEvent, Zenon
<1> HIDE DEF a
<1>8. Accepted /\ Marks(a)
  BY <1>3, <1>7, MarkLast
<1> QED
  BY <1>3, <1>8

\* provider.failed: the last attempt has failed and may still be closed.
LEMMA LogFailure ==
  ASSUME Typed, st.started, Active(st), st.turn.attempts # <<>>, ~Answered, Retriable,
         NEW failure \in {"retryable", "auth", "fatal"},
         Last(st.turn.attempts).outcome = "none", Last(st.turn.attempts).failure = "none",
         ~Last(st.turn.attempts).closed,
         Log(ProviderFailed(st, st.turn.actor, Len(st.turn.attempts), failure))
  PROVE  Accepted /\ \E a \in Attempt : a.outcome = "failed" /\ ~a.closed /\ Marks(a)
<1> DEFINE q == st.turn.attempts
           n == Len(q)
           a == [q[n] EXCEPT !.outcome = "failed", !.failure = failure]
           s == [st EXCEPT !.turn = [st.turn EXCEPT !.attempts = [q EXCEPT ![n] = a]]]
           ok == /\ Active(st) /\ st.turn.actor = st.turn.actor /\ n \in DOMAIN q
                 /\ q[n].failure = "none"
<1>1. q \in Seq(Attempt) /\ st \in State(DOMAIN st.requests) /\ rejected = FALSE
  BY DEF Typed, State, TurnRec
<1>2. n \in DOMAIN q /\ q[n] \in Attempt /\ q[n].failure = "none" /\ q[n].closed = FALSE
  BY <1>1 DEF Last
<1>3. a \in Attempt /\ a.outcome = "failed" /\ a.closed = FALSE /\ Last(q).outcome = "none"
  BY <1>2 DEF Attempt, Outcomes
<1>4. s.started
  BY <1>1 DEF State
<1>5. Log(Event(ok, s))
  BY Zenon DEF ProviderFailed
<1>6. ok
  BY <1>2
<1>7. st' = s /\ rejected' = FALSE
  <2> HIDE DEF s, ok
  <2> QED BY <1>1, <1>4, <1>5, <1>6, LogEvent, Zenon
<1> HIDE DEF a
<1>8. Accepted /\ Marks(a)
  BY <1>3, <1>7, MarkLast
<1> QED
  BY <1>3, <1>8

\* attempt.finished after provider.failed.
LEMMA LogClose ==
  ASSUME Typed, st.started, Active(st), st.turn.attempts # <<>>, ~Answered,
         Last(st.turn.attempts).outcome = "failed", ~Last(st.turn.attempts).closed,
         Log(AttemptFinished(st, st.turn.actor, Len(st.turn.attempts), "failed", None))
  PROVE  Accepted /\ \E a \in Attempt : Marks(a)
<1> DEFINE q == st.turn.attempts
           n == Len(q)
           a == [q[n] EXCEPT !.outcome = "failed", !.closed = TRUE, !.reply = None]
           s == [st EXCEPT !.turn = [st.turn EXCEPT !.attempts = [q EXCEPT ![n] = a]]]
           ok == /\ Active(st) /\ st.turn.actor = st.turn.actor /\ n \in DOMAIN q
                 /\ q[n].outcome = "none"
                      \/ (q[n].outcome = "failed" /\ "failed" = "failed" /\ ~q[n].closed)
<1>1. q \in Seq(Attempt) /\ st \in State(DOMAIN st.requests) /\ rejected = FALSE
  BY DEF Typed, State, TurnRec
<1>2. n \in DOMAIN q /\ q[n] \in Attempt /\ q[n].outcome = "failed" /\ ~q[n].closed
  BY <1>1 DEF Last
<1>3. a \in Attempt /\ a.outcome = "failed" /\ a.closed = TRUE
  BY <1>2 DEF Attempt, Outcomes
<1>4. s.started
  BY <1>1 DEF State
<1>5. Log(Event(ok, s))
  BY Zenon DEF AttemptFinished
<1>6. ok
  BY <1>2
<1>7. st' = s /\ rejected' = FALSE
  <2> HIDE DEF s, ok
  <2> QED BY <1>1, <1>4, <1>5, <1>6, LogEvent, Zenon
<1>9. Last(q).outcome = "failed"
  OBVIOUS
<1> HIDE DEF a
<1>8. Accepted /\ Marks(a)
  BY <1>3, <1>7, <1>9, MarkLast
<1> QED
  BY <1>3, <1>8

\* What the events of children have in common: only the account changes.
LEMMA NewAccount ==
  ASSUME Typed, NEW D, D \subseteq Ids, NEW r \in [D -> Request], NEW used \in Nat, NEW turns \in Nat,
         st' = [st EXCEPT !.requests = r, !.childrenUsed = used, !.childTurns = turns],
         rejected' = FALSE
  PROVE  /\ Accepted /\ SameButAccount
         /\ st'.requests = r /\ st'.childrenUsed = used /\ st'.childTurns = turns
<1>1. st \in State(DOMAIN st.requests)
  BY DEF Typed
<1>2. st' \in State(D) /\ st'.requests = r /\ DOMAIN r = D
  BY <1>1 DEF State
<1>3. SameButAccount /\ st'.childrenUsed = used /\ st'.childTurns = turns
  BY <1>1 DEF State, SameButAccount, SameLife, SameTerminal, SameResult, SameTalk, SameTurn,
              SameGrant, SameSteering
<1> QED
  BY <1>2, <1>3 DEF Accepted

\* child.requested adds a request that nobody has decided.
LEMMA LogAsks ==
  ASSUME Typed, st.started, Active(st), NEW id \in Ids, id \notin DOMAIN st.requests,
         MayAsk(id), Log(ChildRequested(st, id))
  PROVE  Accepted /\ Asks(id)
<1> DEFINE D == DOMAIN st.requests
           r == [x \in D \cup {id} |-> IF x = id THEN Asked ELSE st.requests[x]]
           s == [st EXCEPT !.requests = r]
<1>1. /\ D \subseteq Ids /\ st \in State(D) /\ rejected = FALSE /\ st.requests \in [D -> Request]
      /\ st.childrenUsed \in Nat /\ st.childTurns \in Nat
  BY DEF Typed, State
<1>2. Asked \in Request
  BY DEF Asked, Request, Verdicts
<1>3. r \in [D \cup {id} -> Request]
  BY <1>1, <1>2
<1>4. Log(Event(id \notin D, s))
  BY Zenon DEF ChildRequested
<1>5. Asks(id) <=> /\ st'.requests = r /\ st'.childrenUsed = st.childrenUsed
                   /\ st'.childTurns = st.childTurns /\ SameButAccount
  BY Zenon DEF Asks
<1> HIDE DEF r, D
<1>6. /\ s.started
      /\ s = [st EXCEPT !.requests = r, !.childrenUsed = st.childrenUsed,
                        !.childTurns = st.childTurns]
  BY <1>1 DEF State
<1>7. st' = s /\ rejected' = FALSE
  <2> HIDE DEF s
  <2>1. id \notin D
    BY DEF D
  <2> QED BY <1>1, <1>4, <1>6, <2>1, LogEvent, Zenon
<1>8. D \cup {id} \subseteq Ids
  BY <1>1
<1> HIDE DEF s
<1>9. /\ Accepted /\ SameButAccount /\ st'.requests = r
      /\ st'.childrenUsed = st.childrenUsed /\ st'.childTurns = st.childTurns
  BY <1>1, <1>3, <1>6, <1>7, <1>8, NewAccount
<1> QED
  BY <1>5, <1>9

\* child.decided decides one request and counts what it admits.
LEMMA LogDecides ==
  ASSUME Typed, st.started, NEW id \in Undecided, NEW verdict \in Verdicts, NEW turns \in Nat,
         verdict # "none", verdict # "admitted" => turns = 0,
         verdict = "admitted" /\ ~IsStatic(id) =>
           /\ turns = ChildTurns /\ st.childrenUsed < plan.maxChildren
           /\ st.childTurns + turns <= plan.maxTurns,
         Log(ChildDecided(st, id, verdict, turns))
  PROVE  Accepted /\ id \in Ids /\ Decides(id, verdict, turns)
<1> DEFINE D == DOMAIN st.requests
           a == [st.requests[id] EXCEPT !.verdict = verdict, !.turns = turns]
           r == [st.requests EXCEPT ![id] = a]
           used == st.childrenUsed + (IF verdict = "admitted" THEN 1 ELSE 0)
           sum == st.childTurns + turns
           s == [st EXCEPT !.requests = r, !.childrenUsed = used, !.childTurns = sum]
<1>1. /\ D \subseteq Ids /\ st \in State(D) /\ rejected = FALSE /\ st.requests \in [D -> Request]
      /\ st.childrenUsed \in Nat /\ st.childTurns \in Nat
  BY DEF Typed, State
<1>2. id \in D /\ ~Decided(st, id)
  BY DEF Undecided
<1>3. a \in Request
  BY <1>1, <1>2 DEF Request
<1>4. r \in [D -> Request] /\ used \in Nat /\ sum \in Nat
  BY <1>1, <1>2, <1>3
<1>5. Log(Event(id \in D /\ ~Decided(st, id), s))
  BY Zenon DEF ChildDecided
<1>6. Decides(id, verdict, turns)
        <=> /\ st'.requests = r /\ st'.childrenUsed = used /\ st'.childTurns = sum
            /\ SameButAccount
  BY Zenon DEF Decides
<1> HIDE DEF a, r, used, sum, D
<1>7. s.started
  BY <1>1 DEF State
<1>8. st' = s /\ rejected' = FALSE
  <2> HIDE DEF s
  <2> QED BY <1>1, <1>2, <1>5, <1>7, LogEvent, Zenon
<1>9. /\ Accepted /\ SameButAccount
      /\ st'.requests = r /\ st'.childrenUsed = used /\ st'.childTurns = sum
  BY <1>1, <1>4, <1>8, NewAccount
<1> QED
  BY <1>1, <1>2, <1>6, <1>9

\* child.completed records how an admitted child ended.
LEMMA LogCompletes ==
  ASSUME Typed, st.started, NEW id \in Unfinished, NEW status \in {"completed", "failed"},
         NEW reply \in Reply \cup {None},
         status = "completed" => id \in DOMAIN kids /\ kids[id] = "completed" /\ reply \in Reply,
         status = "failed" => ~cancelled,
         Log(ChildCompleted(st, id, status, reply))
  PROVE  Accepted /\ id \in Ids /\ Completes(id, status, reply)
<1> DEFINE D == DOMAIN st.requests
           a == [st.requests[id] EXCEPT !.status = status, !.reply = reply]
           r == [st.requests EXCEPT ![id] = a]
           s == [st EXCEPT !.requests = r]
<1>1. /\ D \subseteq Ids /\ st \in State(D) /\ rejected = FALSE /\ st.requests \in [D -> Request]
      /\ st.childrenUsed \in Nat /\ st.childTurns \in Nat
  BY DEF Typed, State
<1>2. id \in D /\ Admitted(st, id) /\ ~Completed(st, id)
  BY DEF Unfinished
<1>3. a \in Request
  BY <1>1, <1>2 DEF Request
<1>4. r \in [D -> Request]
  BY <1>1, <1>2, <1>3
<1>5. Log(Event(id \in D /\ Admitted(st, id) /\ ~Completed(st, id), s))
  BY Zenon DEF ChildCompleted
<1>6. Completes(id, status, reply)
        <=> /\ st'.requests = r /\ st'.childrenUsed = st.childrenUsed
            /\ st'.childTurns = st.childTurns /\ SameButAccount
  BY Zenon DEF Completes
<1> HIDE DEF a, r, D
<1>7. /\ s.started
      /\ s = [st EXCEPT !.requests = r, !.childrenUsed = st.childrenUsed,
                        !.childTurns = st.childTurns]
  BY <1>1 DEF State
<1>8. st' = s /\ rejected' = FALSE
  <2> HIDE DEF s
  <2> QED BY <1>1, <1>2, <1>5, <1>7, LogEvent, Zenon
<1> HIDE DEF s
<1>9. /\ Accepted /\ SameButAccount /\ st'.requests = r
      /\ st'.childrenUsed = st.childrenUsed /\ st'.childTurns = st.childTurns
  BY <1>1, <1>4, <1>7, <1>8, NewAccount
<1> QED
  BY <1>1, <1>2, <1>6, <1>9

\* What the events of steering have in common: only the queue changes.
LEMMA NewSteering ==
  ASSUME Typed, NEW q \in Seq(Prompted), st' = [st EXCEPT !.steering = q], rejected' = FALSE
  PROVE  Accepted /\ SameButSteering /\ st'.steering = q
<1>1. st \in State(DOMAIN st.requests) /\ DOMAIN st.requests \subseteq Ids
  BY DEF Typed
<1>2. st' \in State(DOMAIN st.requests) /\ st'.steering = q /\ SameButSteering
  BY <1>1 DEF State, SameButSteering, SameLife, SameTerminal, SameResult, SameTalk, SameTurn,
              SameGrant, SameAccount
<1> QED
  BY <1>1, <1>2 DEF Accepted, SameButSteering, SameAccount

\* steering.queued adds a prompt that waits.
LEMMA LogQueues ==
  ASSUME Typed, st.started, NEW p \in Prompts, Log(SteeringQueued(st, p))
  PROVE  Accepted /\ Queues(p)
<1> DEFINE q == Append(st.steering, Prompt(p))
           s == [st EXCEPT !.steering = q]
<1>1. st \in State(DOMAIN st.requests) /\ rejected = FALSE /\ st.steering \in Seq(Prompted)
  BY DEF Typed, State
<1>2. q \in Seq(Prompted)
  BY <1>1 DEF Prompt, Prompted
<1>3. Log(Event(TRUE, s))
  BY Zenon DEF SteeringQueued
<1>4. s.started
  BY <1>1 DEF State
<1>5. st' = s /\ rejected' = FALSE
  <2> HIDE DEF s
  <2> QED BY <1>1, <1>3, <1>4, LogEvent, Zenon
<1>6. Accepted /\ SameButSteering /\ st'.steering = q
  <2> HIDE DEF q
  <2> QED BY <1>2, <1>5, NewSteering
<1> QED
  BY <1>6 DEF Queues

\* turn_budget.granted adds turns, and the prompt that came with them.
LEMMA LogGrants ==
  ASSUME Typed, st.started, NEW n \in Nat \ {0}, NEW p \in Prompts \cup {None},
         turnBudgetGrantApplicable(st), Log(TurnBudgetGranted(st, n, p))
  PROVE  Accepted /\ Grants(n, p)
<1> DEFINE D == DOMAIN st.requests
           q == IF p = None THEN st.steering ELSE Append(st.steering, Prompt(p))
           g == [turns |-> n, prompt |-> p]
           s == [st EXCEPT !.granted = st.granted + n, !.atGrant = Len(st.conv), !.grant = g,
                           !.steering = q]
<1>1. /\ st \in State(D) /\ rejected = FALSE /\ st.steering \in Seq(Prompted) /\ D \subseteq Ids
      /\ st.granted \in Nat /\ Len(st.conv) \in Nat
  BY DEF Typed, State
<1>2. q \in Seq(Prompted)
  <2>1. CASE p = None
    BY <1>1, <2>1
  <2>2. CASE p # None
    <3>1. Prompt(p) \in Prompted
      BY <2>2 DEF Prompt, Prompted
    <3> QED BY <1>1, <2>2, <3>1
  <2> QED BY <2>1, <2>2
<1>9. g \in [turns : Nat, prompt : Prompts \cup {None}] /\ st.granted + n \in Nat
  BY <1>1
<1>3. Log(Event(turnBudgetGrantApplicable(st), s))
  BY Zenon DEF TurnBudgetGranted
<1>4. Grants(n, p) <=> /\ st'.granted = st.granted + n /\ st'.atGrant = Len(st.conv)
                       /\ st'.grant = g /\ st'.steering = q
                       /\ SameLife /\ SameTerminal /\ SameResult /\ SameTalk /\ SameTurn
                       /\ SameAccount
  BY DEF Grants
<1> HIDE DEF q, g, D
<1>5. s.started
  BY <1>1 DEF State
<1>6. st' = s /\ rejected' = FALSE
  <2> HIDE DEF s
  <2> QED BY <1>1, <1>3, <1>5, LogEvent, Zenon
<1>7. st' \in State(D)
  <2> DEFINE m == st.granted + n
             l == Len(st.conv)
  <2>1. st' = [st EXCEPT !.granted = m, !.atGrant = l, !.grant = g, !.steering = q]
    BY <1>6
  <2>2. m \in Nat /\ l \in Nat
    BY <1>1, <1>9
  <2> HIDE DEF m, l
  <2> QED BY <1>1, <1>2, <1>9, <2>1, <2>2 DEF State
<1>8. Grants(n, p)
  BY <1>1, <1>4, <1>6 DEF State, SameLife, SameTerminal, SameResult, SameTalk, SameTurn, SameAccount
<1> QED
  BY <1>1, <1>6, <1>7, <1>8 DEF Accepted, State

\* recordCompletedTurn changes the conversation, the ledger and the result.
LEMMA Recorded ==
  ASSUME NEW D, st \in State(D), Active(st), st.turn.role # "none", NEW reply \in Reply,
         NEW r, r = recordCompletedTurn(st, reply)
  PROVE  /\ r \in State(D)
         /\ r.conv = IF st.turn.role = "participant"
                     THEN Append(st.conv, [actor |-> st.turn.actor, text |-> reply.text]) ELSE st.conv
         /\ r.started = st.started /\ r.provisioned = st.provisioned /\ r.terminal = st.terminal
         /\ r.validation = st.validation /\ r.granted = st.granted /\ r.atGrant = st.atGrant
         /\ r.grant = st.grant /\ r.requests = st.requests /\ r.childrenUsed = st.childrenUsed
         /\ r.childTurns = st.childTurns /\ r.steering = st.steering
         /\ r.ledger = IF st.turn.role = "facilitator" THEN NewLedger(reply) ELSE st.ledger
         /\ r.result.by = "reducer" => st.turn.role = "reducer" \/ st.result.by = "reducer"
         /\ st.turn.role = "facilitator" => r.result = st.result
<1>1. /\ st.turn.role \in Roles /\ st.turn.actor \in Actors /\ reply.text \in Text
      /\ reply.ledger \in Ledger /\ st.conv \in Seq([actor : Actors, text : Text])
      /\ st.ledger \in Ledger
  BY DEF State, TurnRec, Reply
<1>2. CASE st.turn.role = "participant"
  <2> DEFINE c == Append(st.conv, [actor |-> st.turn.actor, text |-> reply.text])
             w == [by |-> "participant", text |-> reply.text]
  <2>1. r = [st EXCEPT !.conv = c, !.result = w]
    BY <1>2, Zenon DEF recordCompletedTurn
  <2>2. c \in Seq([actor : Actors, text : Text])
        /\ w \in [by : {"none", "participant", "reducer"}, text : Text]
    BY <1>1
  <2>3. r.conv = c /\ r.result = w /\ r.ledger = st.ledger
    <3> HIDE DEF c, w
    <3> QED BY <2>1 DEF State
  <2>6. r.result.by # "reducer"
    BY <2>3
  <2> HIDE DEF w
  <2>4. r \in State(D)
    <3> HIDE DEF c
    <3> QED BY <2>1, <2>2 DEF State
  <2>5. /\ r.started = st.started /\ r.provisioned = st.provisioned /\ r.terminal = st.terminal
        /\ r.validation = st.validation /\ r.granted = st.granted /\ r.atGrant = st.atGrant
        /\ r.grant = st.grant /\ r.requests = st.requests /\ r.childrenUsed = st.childrenUsed
        /\ r.childTurns = st.childTurns /\ r.steering = st.steering
    <3> HIDE DEF c
    <3> QED BY <2>1 DEF State
  <2> QED
    BY <1>2, <2>3, <2>4, <2>5, <2>6
<1>3. CASE st.turn.role = "facilitator"
  <2> DEFINE l == IF reply.parses THEN reply.ledger ELSE st.ledger
             m == IF Len(st.conv) < 2 THEN [l EXCEPT !.contested = {}] ELSE l
  <2>1. r = [st EXCEPT !.ledger = m]
    BY <1>3, Zenon DEF recordCompletedTurn
  <2>2. m \in Ledger /\ m = NewLedger(reply)
    BY <1>1 DEF Ledger, NewLedger
  <2> HIDE DEF m
  <2>3. r \in State(D) /\ r.conv = st.conv /\ r.ledger = m /\ r.result = st.result
    BY <2>1, <2>2 DEF State
  <2>4. /\ r.started = st.started /\ r.provisioned = st.provisioned /\ r.terminal = st.terminal
        /\ r.validation = st.validation /\ r.granted = st.granted /\ r.atGrant = st.atGrant
        /\ r.grant = st.grant /\ r.requests = st.requests /\ r.childrenUsed = st.childrenUsed
        /\ r.childTurns = st.childTurns /\ r.steering = st.steering
    BY <2>1 DEF State
  <2> QED
    BY <1>3, <2>2, <2>3, <2>4
<1>4. CASE st.turn.role = "reducer"
  <2> DEFINE w == IF plan.fromReducer THEN [by |-> "reducer", text |-> reply.text] ELSE st.result
  <2>1. r = [st EXCEPT !.result = w]
    BY <1>4, Zenon DEF recordCompletedTurn
  <2>2. w \in [by : {"none", "participant", "reducer"}, text : Text]
    BY <1>1 DEF State
  <2> HIDE DEF w
  <2>3. r \in State(D) /\ r.conv = st.conv /\ r.ledger = st.ledger
    BY <2>1, <2>2 DEF State
  <2>4. /\ r.started = st.started /\ r.provisioned = st.provisioned /\ r.terminal = st.terminal
        /\ r.validation = st.validation /\ r.granted = st.granted /\ r.atGrant = st.atGrant
        /\ r.grant = st.grant /\ r.requests = st.requests /\ r.childrenUsed = st.childrenUsed
        /\ r.childTurns = st.childTurns /\ r.steering = st.steering
    BY <2>1 DEF State
  <2> QED
    BY <1>4, <2>3, <2>4
<1> QED
  BY <1>1, <1>2, <1>3, <1>4 DEF Roles

\* The phase after a turn: participants speak again only within the budget, and
\* a facilitator only once something was said.
LEMMA Advanced ==
  ASSUME NEW r, NEW role \in Roles, r.conv \in Seq([actor : Actors, text : Text]),
         role = "participant" => Len(r.conv) > 0
  PROVE  /\ advancePhase(r, role) \in Phases
         /\ advancePhase(r, role) = "participant" => Len(r.conv) < Budget(r)
         /\ advancePhase(r, role) = "facilitator" => Len(r.conv) > 0
<1>1. /\ phaseAfterParticipants(r) \in {"participant", "reducer", "done"}
      /\ phaseAfterParticipants(r) = "participant" => Len(r.conv) < Budget(r)
  BY DEF phaseAfterParticipants
<1>2. CASE role = "participant"
  <2>1. advancePhase(r, role) \in {"facilitator", phaseAfterParticipants(r)}
    BY <1>2, Zenon DEF advancePhase
  <2> QED BY <1>1, <1>2, <2>1 DEF Phases
<1>3. CASE role = "facilitator"
  <2>1. advancePhase(r, role) = phaseAfterParticipants(r)
    BY <1>3, Zenon DEF advancePhase
  <2> QED BY <1>1, <2>1 DEF Phases
<1>4. CASE role = "reducer"
  <2>1. advancePhase(r, role) = "done"
    BY <1>4, Zenon DEF advancePhase
  <2> QED BY <2>1 DEF Phases
<1> QED
  BY <1>2, <1>3, <1>4 DEF Roles

\* A function on 1..n is a sequence.
LEMMA FunctionIsSeq ==
  ASSUME NEW S, NEW n \in Nat, NEW f, f \in [1..n -> S]
  PROVE  f \in Seq(S)
  OBVIOUS

\* turn.finished records the answer, consumes the steering of the turn and
\* advances the phase.
LEMMA LogTurnEnds ==
  ASSUME Typed, st.started, Active(st), st.turn.role # "none", st.terminal = "none",
         NEW reply \in Reply, Log(TurnFinished(st, st.turn.actor, st.turn.round, reply)),
         TurnReply(reply)
  PROVE  Accepted /\ TurnEnds(reply)
<1> DEFINE D == DOMAIN st.requests
           round == st.turn.round
           role == st.turn.role
           r == recordCompletedTurn(st, reply)
           c == [i \in DOMAIN st.steering |->
                   IF st.steering[i].applied = round THEN [st.steering[i] EXCEPT !.consumed = TRUE]
                   ELSE st.steering[i]]
           ph == advancePhase(r, role)
           s == [r EXCEPT !.turn = NoTurn, !.steering = c, !.phase = ph]
<1>1. /\ D \subseteq Ids /\ st \in State(D) /\ rejected = FALSE
      /\ st.steering \in Seq(Prompted) /\ st.turn \in TurnRec
      /\ st.conv \in Seq([actor : Actors, text : Text]) /\ reply.text \in Text
  BY DEF Typed, State, Reply
<1>2. /\ r \in State(D)
      /\ r.conv = IF role = "participant"
                  THEN Append(st.conv, [actor |-> st.turn.actor, text |-> reply.text]) ELSE st.conv
      /\ r.started = st.started /\ r.provisioned = st.provisioned /\ r.terminal = st.terminal
      /\ r.validation = st.validation /\ r.granted = st.granted /\ r.atGrant = st.atGrant
      /\ r.grant = st.grant /\ r.requests = st.requests /\ r.childrenUsed = st.childrenUsed
      /\ r.childTurns = st.childTurns /\ r.steering = st.steering
      /\ r.ledger = IF role = "facilitator" THEN NewLedger(reply) ELSE st.ledger
      /\ r.result.by = "reducer" => role = "reducer" \/ st.result.by = "reducer"
      /\ role = "facilitator" => r.result = st.result
  <2> HIDE DEF D
  <2> QED BY <1>1, Recorded, Zenon
<1>3. r.conv \in Seq([actor : Actors, text : Text]) /\ (role = "participant" => Len(r.conv) > 0)
  <2>1. r.conv \in Seq([actor : Actors, text : Text])
    <3> HIDE DEF r
    <3> QED BY <1>2 DEF State
  <2>2. ASSUME role = "participant" PROVE Len(r.conv) > 0
    <3>1. r.conv = Append(st.conv, [actor |-> st.turn.actor, text |-> reply.text])
      BY <1>2, <2>2
    <3> HIDE DEF r
    <3> QED BY <1>1, <3>1
  <2> QED BY <2>1, <2>2
<1>4. role \in Roles
  BY <1>1 DEF TurnRec
<1>5. ph \in Phases /\ (ph = "participant" => Len(r.conv) < Budget(r))
                    /\ (ph = "facilitator" => Len(r.conv) > 0)
  <2> HIDE DEF r, role
  <2> QED BY <1>3, <1>4, Advanced
<1>6. c \in Seq(Prompted) /\ NoTurn \in TurnRec
  <2>1. ASSUME NEW i \in DOMAIN st.steering PROVE c[i] \in Prompted
    <3>1. st.steering[i] \in Prompted
      BY <1>1
    <3>2. [st.steering[i] EXCEPT !.consumed = TRUE] \in Prompted
      BY <3>1 DEF Prompted
    <3> QED BY <3>1, <3>2
  <2>2. c \in Seq(Prompted)
    <3>1. c = [i \in DOMAIN st.steering |-> c[i]]
      OBVIOUS
    <3>2. DOMAIN st.steering = 1..Len(st.steering) /\ Len(st.steering) \in Nat
      BY <1>1
    <3> HIDE DEF c
    <3>3. c \in [1..Len(st.steering) -> Prompted]
      BY <2>1, <3>1, <3>2
    <3> QED BY <3>2, <3>3, FunctionIsSeq
  <2>3. NoTurn \in TurnRec
    BY DEF NoTurn, TurnRec, Actors
  <2> QED BY <2>2, <2>3
<1>7. Log(Event(Active(st) /\ st.turn.actor = st.turn.actor /\ round = round, s))
  BY Zenon DEF TurnFinished
<1>8. TurnEnds(reply)
        <=> /\ st'.turn = NoTurn
            /\ st'.ledger = IF role = "facilitator" THEN NewLedger(reply) ELSE st.ledger
            /\ st'.result.by = "reducer" => role = "reducer" \/ st.result.by = "reducer"
            /\ role = "facilitator" => st'.result = st.result
            /\ st'.conv = IF role = "participant"
                  THEN Append(st.conv, [actor |-> st.turn.actor, text |-> reply.text]) ELSE st.conv
            /\ st'.phase = "participant" => Len(st'.conv) < Budget(st)
            /\ st'.phase = "facilitator" => Len(st'.conv) > 0
            /\ st'.steering = c
            /\ SameLife /\ SameTerminal /\ SameResult /\ SameGrant /\ SameAccount
  BY Zenon DEF TurnEnds
<1>9. Budget(r) = Budget(st)
  BY <1>2 DEF Budget
<1> HIDE DEF r, ph, c, round, role, D
<1>10. s.started
  BY <1>2 DEF State
<1>11. st' = s /\ rejected' = FALSE
  <2> HIDE DEF s
  <2> QED BY <1>1, <1>7, <1>10, LogEvent, Zenon
<1>12. st' \in State(D)
  BY <1>2, <1>5, <1>6, <1>11 DEF State
<1>13. /\ st'.turn = NoTurn /\ st'.conv = r.conv /\ st'.phase = ph /\ st'.steering = c
       /\ st'.ledger = r.ledger /\ st'.result = r.result
  BY <1>2, <1>11 DEF State
<1>14. SameLife /\ SameTerminal /\ SameResult /\ SameGrant /\ SameAccount
  BY <1>2, <1>11 DEF State, SameLife, SameTerminal, SameResult, SameGrant, SameAccount
<1>15. TurnEnds(reply)
  BY <1>2, <1>5, <1>8, <1>9, <1>13, <1>14
<1>16. DOMAIN st'.requests = D
  BY <1>12 DEF State
<1> QED
  BY <1>1, <1>11, <1>12, <1>15, <1>16 DEF Accepted

\* A nonempty set of numbers has a least one.
LEMMA LeastOf ==
  ASSUME NEW S \in SUBSET Nat, S # {}
  PROVE  First(S) \in S /\ \A i \in S : First(S) <= i
<1> DEFINE Less == {ss \in Nat \X Nat : ss[1] < ss[2]}
<1>1. IsWellFoundedOn(Less, Nat)
  BY NatLessThanWellFounded, Zenon DEF OpToRel
<1>2. PICK m \in S : \A i \in S : ~(<<i, m>> \in Less)
  <2> HIDE DEF Less
  <2> QED BY <1>1, WFMin, Zenon
<1>3. \A i \in S : ~(i < m)
  BY <1>2
<1>4. \A i \in S : m <= i
  BY <1>3
<1> QED
  BY <1>4 DEF First

\* The prompt to apply is the first that waits, no other is in hand, and the
\* event names it.
LEMMA LogApplies ==
  ASSUME Typed, Steering, st.started, Active(st), ToApply, Apply
  PROVE  Accepted /\ \E i \in Nat : Applies(i)
<1> DEFINE q == st.steering
           round == st.turn.round
           fit == {i \in DOMAIN q : ~q[i].consumed /\ q[i].applied \in {0, round}}
           i == First(fit)
           same == {j \in Waiting(st) : q[j].text = q[i].text}
           k == First(same)
           c == [q EXCEPT ![k].applied = round]
           s == [st EXCEPT !.steering = c]
<1>1. /\ q \in Seq(Prompted) /\ round \in Nat /\ st \in State(DOMAIN st.requests)
      /\ rejected = FALSE /\ DOMAIN q \in SUBSET Nat
  BY DEF Typed, State, TurnRec
<1>2. applicableSteering(st, round) = IF fit = {} THEN 0 ELSE i
  BY Zenon DEF applicableSteering
<1>3. fit # {} /\ applicableSteering(st, round) = i /\ q[i].applied = 0
  BY <1>2, Zenon DEF ToApply
<1>4. i \in fit /\ \A j \in fit : i <= j
  <2> HIDE DEF fit
  <2>1. fit \in SUBSET Nat
    BY <1>1 DEF fit
  <2> QED BY <1>3, <2>1, LeastOf
<1>5. i \in same /\ same \subseteq fit
  BY <1>3, <1>4 DEF Waiting
<1>6. k = i
  <2>1. k \in same /\ \A j \in same : k <= j
    <3> HIDE DEF same, fit
    <3>1. same \in SUBSET Nat
      BY <1>1, <1>5 DEF fit
    <3> QED BY <1>5, <3>1, LeastOf
  <2>2. k <= i /\ i <= k /\ k \in Nat /\ i \in Nat
    <3> HIDE DEF k, same, i
    <3> QED BY <1>1, <1>4, <1>5, <2>1
  <2> HIDE DEF i, k
  <2> QED BY <2>2
<1>7. Log(Event(Active(st) /\ round = st.turn.round /\ same # {}, s))
  BY <1>3, Zenon DEF Apply, SteeringApplied
<1>8. s.started
  BY <1>1 DEF State
<1>9. st' = s /\ rejected' = FALSE
  <2>1. same # {}
    BY <1>5
  <2> HIDE DEF s, same
  <2> QED BY <1>1, <1>7, <1>8, <2>1, LogEvent, Zenon
<1>10. c \in Seq(Prompted)
  <2>1. k \in DOMAIN q
    BY <1>4, <1>6
  <2> HIDE DEF k
  <2>2. q[k] \in Prompted
    BY <1>1, <2>1
  <2>3. [q[k] EXCEPT !.applied = round] \in Prompted
    BY <1>1, <2>2 DEF Prompted
  <2> QED BY <1>1, <2>1, <2>3
<1>11. Accepted /\ SameButSteering /\ st'.steering = c
  <2> HIDE DEF c
  <2> QED BY <1>9, <1>10, NewSteering
<1>12. i \in DOMAIN q /\ \A j \in DOMAIN q : j < i => q[j].applied # 0
  <2>1. ASSUME NEW j \in DOMAIN q, j < i, q[j].applied = 0 PROVE FALSE
    <3>1. ~q[j].consumed
      BY <2>1 DEF Steering
    <3>2. j \in fit
      BY <2>1, <3>1
    <3>3. i <= j /\ i \in Nat /\ j \in Nat
      BY <1>1, <1>4, <3>2
    <3> HIDE DEF i
    <3> QED BY <2>1, <3>3
  <2> QED BY <1>4, <2>1
<1>13. InHand = {}
  <2>1. ASSUME NEW j \in InHand PROVE FALSE
    <3>1. j \in fit /\ q[j].applied # 0
      BY <2>1 DEF InHand, Steering
    <3>2. i <= j /\ i # j /\ i \in Nat /\ j \in Nat
      BY <1>1, <1>3, <1>4, <3>1
    <3>3. i < j
      <4> HIDE DEF i
      <4> QED BY <3>2
    <3> QED BY <1>3, <1>12, <3>1, <3>3 DEF Steering
  <2> QED BY <2>1
<1>14. Applies(i)
  <2>1. st'.steering = [q EXCEPT ![i].applied = round]
    BY <1>6, <1>11
  <2> HIDE DEF i
  <2> QED BY <1>11, <1>12, <1>13, <2>1 DEF Applies
<1>15. i \in Nat
  BY <1>1, <1>4
<1> QED
  BY <1>11, <1>14, <1>15

-----------------------------------------------------------------------------
(* Each part of the invariant is kept by every effect.                     *)

\* The parts of the state that the proofs below do arithmetic on.
LEMMA Numbers ==
  ASSUME Typed
  PROVE  /\ plan.turns \in Nat \ {0} /\ st.granted \in Nat /\ st.atGrant \in Nat
         /\ Budget(st) \in Nat /\ Len(st.conv) \in Nat
         /\ st.conv \in Seq([actor : Actors, text : Text])
         /\ st.turn \in TurnRec /\ st.turn.attempts \in Seq(Attempt) /\ st.turn.round \in Nat
         /\ plan.maxAttempts \in Nat \ {0} /\ plan.slots \in Seq(STRING) /\ Len(plan.slots) > 0
<1>1. plan \in Plan /\ plan.slots # <<>>
  BY PlanAssumption DEF Typed, ValidPlan
<1>2. plan.turns \in Nat \ {0} /\ plan.maxAttempts \in Nat \ {0} /\ plan.slots \in Seq(STRING)
  BY <1>1 DEF Plan
<1>3. st \in State(DOMAIN st.requests)
  BY DEF Typed
<1>4. /\ st.granted \in Nat /\ st.atGrant \in Nat /\ st.turn \in TurnRec
      /\ st.conv \in Seq([actor : Actors, text : Text])
  BY <1>3 DEF State
<1>5. st.turn.attempts \in Seq(Attempt) /\ st.turn.round \in Nat
  BY <1>4 DEF TurnRec
<1> QED
  BY <1>1, <1>2, <1>4, <1>5 DEF Budget

\* The same, after a step.
LEMMA NumbersAfter ==
  ASSUME Typed', plan' = plan
  PROVE  /\ st'.granted \in Nat /\ st'.atGrant \in Nat /\ Len(st'.conv) \in Nat
         /\ st'.phase \in Phases
<1>1. /\ st'.granted \in Nat /\ st'.atGrant \in Nat /\ st'.phase \in Phases
      /\ st'.conv \in Seq([actor : Actors, text : Text])
  BY DEF Typed, State
<1> QED
  BY <1>1

\* A turn has a role, and only a turn has one.
LEMMA RoleOfTurn ==
  ASSUME Typed, TurnInv
  PROVE  Active(st) <=> st.turn.role \in Roles
<1>1. st.turn.role \in Roles \cup {"none"}
  BY DEF Typed, State, TurnRec
<1>2. NoTurn.role = "none"
  BY DEF NoTurn
<1> QED
  BY <1>1, <1>2 DEF TurnInv, Active, Roles

\* TurnInv is kept.
LEMMA TurnStep ==
  ASSUME Typed, TurnInv, Schedule, Result, Effect, plan' = plan, Typed'
  PROVE  TurnInv'
<1>1. /\ Len(st.conv) \in Nat /\ Len(st'.conv) \in Nat /\ plan.turns \in Nat
      /\ st.granted \in Nat /\ st'.granted \in Nat
  BY Numbers, NumbersAfter
<1> USE DEF TurnInv, Active, Budget, ParticipantActorForTurn
<1>2. CASE SameTurn /\ SameLife /\ SameTerminal /\ SameResult /\ SameTalk /\ SameGrant
  BY <1>2 DEF SameTurn, SameLife, SameTerminal, SameResult, SameTalk, SameGrant
<1>3. CASE Unmoved
  BY <1>3 DEF Unmoved
<1>4. CASE Readies
  BY <1>4 DEF Readies, SameTurn, SameTerminal, SameResult, SameTalk, SameGrant
<1>5. ASSUME NEW how \in {"completed", "failed"}, Ends(how) PROVE TurnInv'
  BY <1>5 DEF Ends, SameTurn, SameLife, SameResult, SameTalk, SameGrant
<1>6. ASSUME NEW actor \in Actors, NEW round \in Nat, NEW role \in Roles,
             TurnStarts(actor, round, role)
      PROVE  TurnInv'
  <2>1. /\ st'.turn.role = role /\ st'.turn.round = round /\ st'.turn.actor = actor
        /\ role # "none" /\ st'.started
    BY <1>6 DEF TurnStarts, Roles, SameLife
  <2>2. st'.validation = "none"
    BY <1>6 DEF TurnStarts, Result
  <2> QED
    BY <1>6, <2>1, <2>2 DEF TurnStarts, SameTalk, SameGrant
<1>7. CASE SameButAttempts
  <2>1. Active(st') /\ st'.turn.role # "none"
    BY <1>7, RoleOfTurn DEF SameButAttempts, Roles, NoTurn
  <2> QED
    BY <1>7, <2>1 DEF SameButAttempts, SameLife, SameTerminal, SameResult, SameTalk, SameGrant
<1>8. ASSUME NEW reply \in Reply, TurnEnds(reply) PROVE TurnInv'
  BY <1>8 DEF TurnEnds, NoTurn
<1>9. ASSUME NEW n \in Nat, NEW p \in Prompts \cup {None}, Grants(n, p) PROVE TurnInv'
  <2>1. st'.turn = NoTurn
    BY <1>9 DEF Grants, SameTurn, turnBudgetGrantApplicable, hasScheduledWorkOutstanding
  <2> QED
    BY <2>1 DEF NoTurn
<1>10. ASSUME NEW v \in {"valid", "invalid"}, Validates(v) PROVE TurnInv'
  BY <1>10 DEF Validates, SameLife, SameTerminal, SameTalk, SameTurn, SameGrant
<1> QED
  BY <1>2, <1>3, <1>4, <1>5, <1>6, <1>7, <1>8, <1>9, <1>10
     DEF Effect, Tries, Marks, Asks, Decides, Completes, SameButAccount, Queues, Applies, SameButSteering

\* Schedule is kept.
LEMMA ScheduleStep ==
  ASSUME Typed, TurnInv, Schedule, Effect, plan' = plan, Typed'
  PROVE  Schedule'
<1>1. /\ Len(st.conv) \in Nat /\ Len(st'.conv) \in Nat /\ plan.turns \in Nat
      /\ st.granted \in Nat /\ st'.granted \in Nat /\ st.atGrant \in Nat /\ st'.atGrant \in Nat
  BY Numbers, NumbersAfter
<1> USE DEF Schedule, Budget, hasUnstartedGrantedWork
<1>2. CASE SameTurn /\ SameLife /\ SameTerminal /\ SameTalk /\ SameGrant
  BY <1>2 DEF SameTurn, SameLife, SameTerminal, SameTalk, SameGrant
<1>3. CASE Unmoved
  BY <1>3 DEF Unmoved
<1>4. CASE Readies
  BY <1>4 DEF Readies, SameTurn, SameTerminal, SameTalk, SameGrant
<1>5. ASSUME NEW how \in {"completed", "failed"}, Ends(how) PROVE Schedule'
  <2>1. how = "completed" => st.turn.role # "participant"
    BY <1>5, RoleOfTurn DEF Ends, TurnInv, Roles
  <2> QED
    BY <1>5, <2>1 DEF Ends, SameTurn, SameLife, SameTalk, SameGrant
<1>6. ASSUME NEW actor \in Actors, NEW round \in Nat, NEW role \in Roles,
             TurnStarts(actor, round, role)
      PROVE  Schedule'
  <2>1. st.turn.role # "participant" /\ st'.turn.role = role
    BY <1>6, RoleOfTurn DEF TurnStarts, Roles
  <2> QED
    BY <1>6, <2>1 DEF TurnStarts, SameLife, SameTalk, SameGrant
<1>7. CASE SameButAttempts
  BY <1>7 DEF SameButAttempts, SameLife, SameTerminal, SameTalk, SameGrant
<1>8. ASSUME NEW reply \in Reply, TurnEnds(reply) PROVE Schedule'
  <2>1. st.started /\ st.terminal # "completed"
    BY <1>8 DEF TurnEnds, TurnInv
  <2>2. /\ Len(st.conv) <= Len(st'.conv)
        /\ st.turn.role = "participant" => Len(st'.conv) = Len(st.conv) + 1
        /\ st.turn.role # "participant" => st'.conv = st.conv
    BY <1>8, Numbers DEF TurnEnds
  <2>3. st.turn.role = "participant" => Len(st.conv) < Budget(st)
    BY DEF TurnInv
  <2> QED
    BY <1>1, <1>8, <2>1, <2>2, <2>3 DEF TurnEnds, SameLife, SameTerminal, SameGrant
<1>9. ASSUME NEW n \in Nat, NEW p \in Prompts \cup {None}, Grants(n, p) PROVE Schedule'
  <2>1. st.terminal = "completed" /\ st.phase \notin {"facilitator", "reducer"}
    BY <1>9 DEF Grants, turnBudgetGrantApplicable, hasScheduledWorkOutstanding
  <2>2. st.phase \in Phases
    BY DEF Typed, State
  <2> QED
    BY <1>1, <1>9, <2>1, <2>2 DEF Grants, SameLife, SameTerminal, SameTalk, SameTurn, Phases
<1>10. ASSUME NEW v \in {"valid", "invalid"}, Validates(v) PROVE Schedule'
  BY <1>10 DEF Validates, SameLife, SameTerminal, SameTalk, SameTurn, SameGrant
<1> QED
  BY <1>2, <1>3, <1>4, <1>5, <1>6, <1>7, <1>8, <1>9, <1>10
     DEF Effect, Tries, Marks, Asks, Decides, Completes, SameButAccount, Queues, Applies, SameButSteering

\* A new attempt has no outcome yet.
LEMMA TriesOccurs ==
  ASSUME Typed, Tries
  PROVE  /\ Occurs(st'.turn, "success") = {}
         /\ Occurs(st'.turn, "failed") = Occurs(st.turn, "failed")
         /\ st'.turn.attempts # <<>> /\ Last(st'.turn.attempts) = Fresh
<1> DEFINE q == st.turn.attempts
<1>1. q \in Seq(Attempt)
  BY Numbers
<1>2. st'.turn.attempts = Append(q, Fresh) /\ Occurs(st.turn, "success") = {}
  BY DEF Tries, Answered
<1>3. \A i \in 1..(Len(q) + 1) : Append(q, Fresh)[i] = IF i <= Len(q) THEN q[i] ELSE Fresh
  BY <1>1
<1>4. /\ DOMAIN Append(q, Fresh) = 1..(Len(q) + 1) /\ DOMAIN q = 1..Len(q) /\ Len(q) \in Nat
      /\ Len(Append(q, Fresh)) = Len(q) + 1
  BY <1>1
<1>5. Fresh.outcome = "none"
  BY DEF Fresh
<1>6. /\ Occurs(st'.turn, "success") = {}
      /\ Occurs(st'.turn, "failed") = Occurs(st.turn, "failed")
  BY <1>2, <1>3, <1>4, <1>5 DEF Occurs
<1>7. st'.turn.attempts # <<>> /\ Last(st'.turn.attempts) = Fresh
  BY <1>2, <1>3, <1>4 DEF Last
<1> QED
  BY <1>6, <1>7

\* What becomes of the last attempt is all that changes.
LEMMA MarksOccurs ==
  ASSUME Typed, NEW a \in Attempt, Marks(a)
  PROVE  LET n == Len(st.turn.attempts)
         IN /\ n \in DOMAIN st.turn.attempts /\ Len(st'.turn.attempts) = n
            /\ st'.turn.attempts # <<>> /\ Last(st'.turn.attempts) = a
            /\ \A i \in Occurs(st'.turn, "success") :
                  i = n /\ a.outcome = "success" /\ st'.turn.attempts[i] = a
            /\ a.outcome = "success" => n \in Occurs(st'.turn, "success")
            /\ \A i \in Occurs(st'.turn, "failed") :
                  i \in Occurs(st.turn, "failed") \/ (i = n /\ a.outcome = "failed")
            /\ a.outcome = "failed" => Retriable \/ n \in Occurs(st.turn, "failed")
<1> DEFINE q == st.turn.attempts
           n == Len(q)
           r == [q EXCEPT ![n] = a]
<1>1. q \in Seq(Attempt)
  BY Numbers
<1>2. /\ st'.turn.attempts = r /\ Occurs(st.turn, "success") = {} /\ n \in DOMAIN q
      /\ a.outcome = "failed" => Retriable \/ n \in Occurs(st.turn, "failed")
  BY <1>1 DEF Marks, Answered, Last, Occurs
<1>3. /\ DOMAIN r = DOMAIN q /\ Len(r) = n /\ r # <<>> /\ r[n] = a
      /\ \A i \in DOMAIN q : r[i] = IF i = n THEN a ELSE q[i]
  BY <1>1, <1>2
<1>4. \A i \in Occurs(st'.turn, "success") : i = n /\ a.outcome = "success" /\ st'.turn.attempts[i] = a
  BY <1>2, <1>3 DEF Occurs
<1>5. /\ a.outcome = "success" => n \in Occurs(st'.turn, "success")
      /\ \A i \in Occurs(st'.turn, "failed") :
            i \in Occurs(st.turn, "failed") \/ (i = n /\ a.outcome = "failed")
  BY <1>2, <1>3 DEF Occurs
<1>6. Last(st'.turn.attempts) = a
  <2> HIDE DEF r
  <2> QED BY <1>2, <1>3 DEF Last
<1> HIDE DEF r
<1> QED
  BY <1>2, <1>3, <1>4, <1>5, <1>6

\* Attempts is kept.
LEMMA AttemptsStep ==
  ASSUME Typed, Attempts, Effect, plan' = plan
  PROVE  Attempts'
<1> DEFINE q == st.turn.attempts
<1>1. q \in Seq(Attempt) /\ plan.maxAttempts \in Nat
  BY Numbers
<1>2. CASE st'.turn.attempts = q
  BY <1>2 DEF Attempts, OneAnswer, Occurs
<1>3. CASE st'.turn.attempts = <<>>
  BY <1>3 DEF Attempts, OneAnswer, Occurs
<1>4. CASE Tries
  BY <1>4, TriesOccurs DEF Attempts, OneAnswer
<1>5. ASSUME NEW a \in Attempt, Marks(a) PROVE Attempts'
  <2> DEFINE n == Len(q)
  <2>1. /\ n \in DOMAIN q /\ Len(st'.turn.attempts) = n
        /\ \A i \in Occurs(st'.turn, "success") :
              i = n /\ a.outcome = "success" /\ st'.turn.attempts[i] = a
        /\ \A i \in Occurs(st'.turn, "failed") :
              i \in Occurs(st.turn, "failed") \/ (i = n /\ a.outcome = "failed")
        /\ a.outcome = "failed" => Retriable \/ n \in Occurs(st.turn, "failed")
    BY <1>5, MarksOccurs
  <2>2. a.outcome = "success" => a.reply \in Reply
    BY <1>5 DEF Marks
  <2>3. ASSUME NEW i \in Occurs(st'.turn, "failed"), NEW j \in Occurs(st'.turn, "failed"),
               i >= plan.maxAttempts, j >= plan.maxAttempts
        PROVE  i = j
    <3>1. DOMAIN q = 1..Len(q) /\ Len(q) \in Nat /\ Occurs(st.turn, "failed") \subseteq DOMAIN q
      BY <1>1 DEF Occurs
    <3>2. CASE Retriable
      <4>1. i = n /\ j = n
        BY <1>1, <2>1, <2>3, <3>1, <3>2 DEF Retriable
      <4> QED BY <4>1
    <3>3. CASE ~Retriable
      <4>1. i \in Occurs(st.turn, "failed") /\ j \in Occurs(st.turn, "failed")
        BY <2>1, <3>3
      <4> QED BY <2>3, <4>1 DEF Attempts
    <3> QED BY <3>2, <3>3
  <2> HIDE DEF n
  <2> QED
    BY <2>1, <2>2, <2>3 DEF Attempts, OneAnswer
<1> QED
  <2>1. ASSUME NEW actor, NEW round, NEW role, TurnStarts(actor, round, role) PROVE Attempts'
    BY <1>3, <2>1 DEF TurnStarts
  <2>2. ASSUME NEW reply, TurnEnds(reply) PROVE Attempts'
    BY <1>3, <2>2 DEF TurnEnds, NoTurn
  <2>3. CASE SameTurn
    BY <1>2, <2>3 DEF SameTurn
  <2> QED
    BY <1>2, <1>4, <1>5, <2>1, <2>2, <2>3
       DEF Effect, Unmoved, Readies, Ends, Asks, Decides, Completes, SameButAccount, Queues, Applies,
           SameButSteering, Grants, Validates

\* Steering is kept.
LEMMA SteeringStep ==
  ASSUME Typed, TurnInv, Steering, Effect, plan' = plan
  PROVE  Steering'
<1> DEFINE q == st.steering
           round == st.turn.round
<1>1. q \in Seq(Prompted) /\ DOMAIN q = 1..Len(q) /\ Len(q) \in Nat /\ round \in Nat
      /\ st.turn.role \in Roles \cup {"none"}
  BY DEF Typed, State, TurnRec
<1>2. CASE st'.steering = q /\ (Active(st) => Active(st)' /\ st'.turn.round = round)
  BY <1>2 DEF Steering, InHand
<1>3. CASE /\ Active(st) => Active(st)' /\ st'.turn.round = round
           /\ \E p \in Prompts : st'.steering = Append(q, Prompt(p))
  <2>1. PICK p \in Prompts : st'.steering = Append(q, Prompt(p))
    BY <1>3
  <2>2. /\ DOMAIN st'.steering = 1..(Len(q) + 1)
        /\ \A i \in DOMAIN st'.steering : st'.steering[i] = IF i <= Len(q) THEN q[i] ELSE Prompt(p)
    BY <1>1, <2>1
  <2>3. Prompt(p).applied = 0 /\ Prompt(p).consumed = FALSE
    BY DEF Prompt
  <2>4. ASSUME NEW i \in DOMAIN st'.steering, st'.steering[i].applied # 0
        PROVE  i \in DOMAIN q /\ st'.steering[i] = q[i]
    BY <1>1, <2>2, <2>3, <2>4
  <2>5. ASSUME NEW i \in DOMAIN st'.steering, NEW j \in DOMAIN st'.steering, i < j,
               st'.steering[j].applied # 0
        PROVE  st'.steering[i].applied # 0
    <3>1. j \in DOMAIN q /\ st'.steering[j] = q[j]
      BY <2>4, <2>5
    <3>2. i \in DOMAIN q /\ st'.steering[i] = q[i]
      BY <1>1, <2>2, <2>5, <3>1
    <3> QED BY <2>5, <3>1, <3>2 DEF Steering
  <2>6. ASSUME NEW i \in DOMAIN st'.steering, st'.steering[i].consumed
        PROVE  st'.steering[i].applied # 0
    <3>1. i \in DOMAIN q /\ st'.steering[i] = q[i]
      BY <1>1, <2>2, <2>3, <2>6
    <3> QED BY <2>6, <3>1 DEF Steering
  <2>7. InHand' \subseteq InHand /\ \A i \in InHand' : st'.steering[i] = q[i]
    BY <2>4 DEF InHand
  <2> QED
    BY <1>3, <2>5, <2>6, <2>7 DEF Steering
<1>4. ASSUME NEW i \in Nat, Applies(i) PROVE Steering'
  <2>1. /\ st'.steering = [q EXCEPT ![i].applied = round] /\ i \in DOMAIN q /\ InHand = {}
        /\ \A j \in DOMAIN q : j < i => q[j].applied # 0
        /\ Active(st) /\ st'.turn = st.turn /\ round > 0
    BY <1>4 DEF Applies, SameButSteering, SameTurn, TurnInv
  <2>2. /\ DOMAIN st'.steering = DOMAIN q
        /\ \A j \in DOMAIN q : j # i => st'.steering[j] = q[j]
        /\ st'.steering[i].applied = round /\ st'.steering[i].consumed = q[i].consumed
    BY <1>1, <2>1 DEF Prompted
  <2>3. InHand' \subseteq {i}
    BY <2>1, <2>2 DEF InHand
  <2>4. \A j, k \in DOMAIN q : j < k /\ st'.steering[k].applied # 0 => st'.steering[j].applied # 0
    BY <1>1, <2>1, <2>2 DEF Steering
  <2>5. \A j \in DOMAIN q : st'.steering[j].consumed => st'.steering[j].applied # 0
    BY <1>1, <2>1, <2>2 DEF Steering
  <2> QED
    BY <2>1, <2>2, <2>3, <2>4, <2>5 DEF Steering, Active
<1>5. ASSUME NEW reply \in Reply, TurnEnds(reply) PROVE Steering'
  <2>1. st'.steering = [i \in DOMAIN q |-> IF q[i].applied = round
                                           THEN [q[i] EXCEPT !.consumed = TRUE] ELSE q[i]]
    BY <1>5 DEF TurnEnds
  <2>2. /\ DOMAIN st'.steering = DOMAIN q
        /\ \A i \in DOMAIN q : /\ st'.steering[i].applied = q[i].applied
                               /\ q[i].applied = round => st'.steering[i].consumed = TRUE
                               /\ q[i].applied # round => st'.steering[i] = q[i]
    BY <1>1, <2>1 DEF Prompted
  <2>3. round > 0
    BY <1>5 DEF TurnEnds, TurnInv
  <2>4. InHand' = {}
    <3>1. ASSUME NEW i \in InHand' PROVE FALSE
      <4>1. i \in DOMAIN q /\ st'.steering[i].applied # 0 /\ ~st'.steering[i].consumed
        BY <2>2, <3>1 DEF InHand
      <4>2. q[i].applied # round /\ st'.steering[i] = q[i]
        BY <2>2, <4>1
      <4>3. i \in InHand
        BY <4>1, <4>2 DEF InHand
      <4> QED BY <4>2, <4>3 DEF Steering
    <3> QED BY <3>1
  <2>5. \A i \in DOMAIN q : st'.steering[i].consumed => st'.steering[i].applied # 0
    BY <1>1, <2>2, <2>3 DEF Steering
  <2> QED
    BY <2>2, <2>4, <2>5 DEF Steering
<1>6. CASE SameTurn /\ (SameSteering \/ \E p \in Prompts : st'.steering = Append(q, Prompt(p)))
  BY <1>2, <1>3, <1>6 DEF SameTurn, SameSteering, Active
<1>7. CASE SameButAttempts
  <2>1. Active(st)'
    BY <1>7, RoleOfTurn DEF SameButAttempts, NoTurn, Active, Roles
  <2> QED BY <1>2, <1>7, <2>1 DEF SameButAttempts, SameSteering
<1>8. ASSUME NEW actor, NEW turn, NEW role, TurnStarts(actor, turn, role) PROVE Steering'
  BY <1>2, <1>8 DEF TurnStarts, SameSteering
<1>9. ASSUME NEW n, NEW p \in Prompts \cup {None}, Grants(n, p) PROVE Steering'
  BY <1>6, <1>9 DEF Grants, SameSteering
<1> QED
  BY <1>2, <1>4, <1>5, <1>6, <1>7, <1>8, <1>9
     DEF Effect, Unmoved, Readies, Ends, Tries, Marks, Asks, Decides, Completes, SameButAccount,
         Queues, SameButSteering, SameTurn, SameSteering, Validates

\* What the policy gives a child is a number of turns.
LEMMA ChildTurnsType ==
  ASSUME Typed
  PROVE  ChildTurns \in Nat /\ plan.maxChildren \in Nat /\ plan.maxTurns \in Nat
<1>1. /\ plan.recipeTurns \in Nat /\ plan.turns \in Nat /\ plan.maxTurns \in Nat
      /\ plan.maxChildren \in Nat
  BY PlanAssumption DEF Typed, ValidPlan, Plan
<1> DEFINE S == {plan.recipeTurns, plan.turns, plan.maxTurns}
<1>2. \E x \in S : \A y \in S : x <= y
  BY <1>1
<1>3. MinOf(S) \in S
  <2> HIDE DEF S
  <2> QED BY <1>2 DEF MinOf
<1> QED
  BY <1>1, <1>3 DEF ChildTurns

\* The account stays when nobody new is admitted for a request.
LEMMA AccountStays ==
  ASSUME Typed, Account, plan' = plan, Dynamic' = Dynamic,
         \A id \in Dynamic : st'.requests[id].turns = st.requests[id].turns,
         st.childrenUsed \in Nat, st'.childrenUsed \in Nat, st'.childrenUsed >= st.childrenUsed,
         st.childTurns \in Nat, st'.childTurns \in Nat, st'.childTurns >= st.childTurns
  PROVE  Account'
<1> DEFINE n == Cardinality(Dynamic)
           m == n * ChildTurns
<1>1. n \in Nat /\ ChildTurns \in Nat /\ ChildTurns' = ChildTurns
  BY ChildTurnsType, FS_CardinalityType DEF Account, ChildTurns
<1>2. m \in Nat
  BY <1>1
<1>3. /\ Cardinality(Dynamic') = n /\ Cardinality(Dynamic') * ChildTurns' = m
      /\ IsFiniteSet(Dynamic')
  BY <1>1 DEF Account
<1>4. n <= st.childrenUsed /\ n <= plan.maxChildren /\ m <= st.childTurns
      /\ (Dynamic # {} => m <= plan.maxTurns)
  BY DEF Account
<1>5. n <= st'.childrenUsed /\ m <= st'.childTurns
  <2> HIDE DEF n, m
  <2> QED BY <1>1, <1>2, <1>4
<1>6. \A id \in Dynamic' : st'.requests[id].turns = ChildTurns'
  BY <1>1 DEF Account
<1> HIDE DEF n, m
<1> QED
  BY <1>3, <1>4, <1>5, <1>6 DEF Account

\* Account is kept.
LEMMA AccountStep ==
  ASSUME Typed, Account, Effect, plan' = plan
  PROVE  Account'
<1> DEFINE D == DOMAIN st.requests
<1>1. /\ st.childrenUsed \in Nat /\ st.childTurns \in Nat /\ st.requests \in [D -> Request]
  BY DEF Typed, State
<1>2. CASE SameAccount
  <2>1. Dynamic' = Dynamic
    BY <1>2 DEF SameAccount, Dynamic, Admitted
  <2> QED BY <1>1, <1>2, <2>1, AccountStays DEF SameAccount
<1>3. ASSUME NEW id \in Ids, Asks(id) PROVE Account'
  <2>1. /\ DOMAIN st'.requests = D \cup {id} /\ st'.requests[id].verdict = "none" /\ id \notin D
        /\ \A x \in D : st'.requests[x] = st.requests[x]
        /\ st'.childrenUsed = st.childrenUsed /\ st'.childTurns = st.childTurns
    BY <1>3 DEF Asks, Asked
  <2>2. Dynamic' = Dynamic
    BY <2>1 DEF Dynamic, Admitted
  <2> QED BY <1>1, <2>1, <2>2, AccountStays DEF Dynamic
<1>4. ASSUME NEW id \in Ids, NEW status, NEW reply, Completes(id, status, reply) PROVE Account'
  <2>1. /\ DOMAIN st'.requests = D
        /\ \A x \in D : /\ st'.requests[x].verdict = st.requests[x].verdict
                        /\ st'.requests[x].turns = st.requests[x].turns
        /\ st'.childrenUsed = st.childrenUsed /\ st'.childTurns = st.childTurns
    BY <1>1, <1>4 DEF Completes, Request
  <2>2. Dynamic' = Dynamic
    BY <2>1 DEF Dynamic, Admitted
  <2> QED BY <1>1, <2>1, <2>2, AccountStays DEF Dynamic
<1>5. ASSUME NEW id \in Ids, NEW verdict \in Verdicts, NEW turns \in Nat, Decides(id, verdict, turns)
      PROVE  Account'
  <2>1. /\ id \in D /\ st.requests[id].verdict = "none"
        /\ DOMAIN st'.requests = D
        /\ st'.requests[id].verdict = verdict /\ st'.requests[id].turns = turns
        /\ \A x \in D : x # id => st'.requests[x] = st.requests[x]
        /\ st'.childrenUsed = st.childrenUsed + (IF verdict = "admitted" THEN 1 ELSE 0)
        /\ st'.childTurns = st.childTurns + turns
    BY <1>1, <1>5 DEF Decides, Request, Undecided, Decided
  <2>2. id \notin Dynamic
    BY <2>1 DEF Dynamic, Admitted
  <2>3. CASE verdict = "admitted" /\ ~IsStatic(id)
    <3> DEFINE n == Cardinality(Dynamic)
               c == ChildTurns
    <3>1. Dynamic' = Dynamic \cup {id}
      BY <2>1, <2>3 DEF Dynamic, Admitted
    <3>2. IsFiniteSet(Dynamic') /\ Cardinality(Dynamic') = n + 1
      BY <2>2, <3>1, FS_AddElement DEF Account
    <3>3. n \in Nat /\ c \in Nat /\ plan.maxChildren \in Nat /\ plan.maxTurns \in Nat
      BY ChildTurnsType, FS_CardinalityType DEF Account
    <3>4. /\ turns = c /\ st.childrenUsed < plan.maxChildren
          /\ st.childTurns + c <= plan.maxTurns
      BY <1>5, <2>3 DEF Decides
    <3>5. n <= st.childrenUsed /\ n * c <= st.childTurns
      BY DEF Account
    <3>6. ChildTurns' = c
      BY DEF ChildTurns
    <3>7. \A x \in Dynamic' : st'.requests[x].turns = c
      BY <2>1, <2>2, <3>1, <3>4 DEF Account, Dynamic
    <3> HIDE DEF n, c
    <3>8. (n + 1) * c = n * c + c /\ n * c \in Nat
      BY <3>3
    <3>9. /\ n + 1 <= st'.childrenUsed /\ n + 1 <= plan.maxChildren
          /\ (n + 1) * c <= st'.childTurns /\ (n + 1) * c <= plan.maxTurns
      <4> DEFINE m == n * c
      <4>1. m \in Nat /\ (n + 1) * c = m + c /\ m <= st.childTurns
        BY <3>5, <3>8
      <4> HIDE DEF m
      <4> QED BY <1>1, <2>1, <2>3, <3>3, <3>4, <3>5, <4>1
    <3> QED
      BY <3>2, <3>6, <3>7, <3>9 DEF Account
  <2>4. CASE ~(verdict = "admitted" /\ ~IsStatic(id))
    <3>1. Dynamic' = Dynamic
      BY <2>1, <2>2, <2>4 DEF Dynamic, Admitted
    <3>2. \A x \in Dynamic : st'.requests[x].turns = st.requests[x].turns
      BY <2>1, <2>2 DEF Dynamic
    <3>3. /\ st'.childrenUsed \in Nat /\ st'.childrenUsed >= st.childrenUsed
          /\ st'.childTurns \in Nat /\ st'.childTurns >= st.childTurns
      BY <1>1, <2>1
    <3> QED BY <1>1, <3>1, <3>2, <3>3, AccountStays
  <2> QED BY <2>3, <2>4
<1>6. ASSUME NEW reply, TurnEnds(reply) PROVE Account'
  BY <1>2, <1>6 DEF TurnEnds
<1>7. CASE Unmoved
  BY <1>2, <1>7 DEF Unmoved, SameAccount
<1> QED
  BY <1>2, <1>3, <1>4, <1>5, <1>6, <1>7
     DEF Effect, Readies, Ends, TurnStarts, Tries, Marks, SameButAttempts, Queues, Applies,
         SameButSteering, Grants, Validates

\* ChildrenInv is kept.
LEMMA ChildrenStep ==
  ASSUME Typed, ChildrenInv, Effect, KidsStep
  PROVE  ChildrenInv'
<1> DEFINE D == DOMAIN st.requests
<1>1. st.requests \in [D -> Request]
  BY DEF Typed, State
<1>2. ASSUME D \subseteq DOMAIN st'.requests,
             \A id \in DOMAIN st'.requests : st'.requests[id].status = "completed" =>
                \/ id \in D /\ st.requests[id].status = "completed"
                            /\ st'.requests[id].reply = st.requests[id].reply
                \/ id \in DOMAIN kids /\ kids[id] = "completed" /\ st'.requests[id].reply \in Reply
      PROVE  ChildrenInv'
  BY <1>2 DEF ChildrenInv, ChildAgrees, KidsStep
<1>3. CASE SameAccount
  BY <1>2, <1>3 DEF SameAccount
<1>4. ASSUME NEW id \in Ids, Asks(id) PROVE ChildrenInv'
  <2>1. /\ DOMAIN st'.requests = D \cup {id} /\ st'.requests[id].status = "none"
        /\ \A x \in D : x # id => st'.requests[x] = st.requests[x]
    BY <1>4 DEF Asks, Asked
  <2> QED BY <1>2, <2>1
<1>5. ASSUME NEW id \in Ids, NEW status, NEW reply, Completes(id, status, reply) PROVE ChildrenInv'
  <2>1. /\ DOMAIN st'.requests = D /\ id \in D
        /\ \A x \in D : x # id => st'.requests[x] = st.requests[x]
        /\ st'.requests[id].status = status /\ st'.requests[id].reply = reply
    BY <1>1, <1>5 DEF Completes, Request, Unfinished
  <2>2. status = "completed" => id \in DOMAIN kids /\ kids[id] = "completed" /\ reply \in Reply
    BY <1>5 DEF Completes
  <2> QED BY <1>2, <2>1, <2>2
<1>6. ASSUME NEW id \in Ids, NEW verdict, NEW turns, Decides(id, verdict, turns) PROVE ChildrenInv'
  <2>1. /\ DOMAIN st'.requests = D
        /\ \A x \in D : /\ st'.requests[x].status = st.requests[x].status
                        /\ st'.requests[x].reply = st.requests[x].reply
    BY <1>1, <1>6 DEF Decides, Request
  <2> QED BY <1>2, <2>1
<1>7. ASSUME NEW reply, TurnEnds(reply) PROVE ChildrenInv'
  BY <1>3, <1>7 DEF TurnEnds
<1>8. CASE Unmoved
  BY <1>3, <1>8 DEF Unmoved, SameAccount
<1> QED
  BY <1>3, <1>4, <1>5, <1>6, <1>7, <1>8
     DEF Effect, Readies, Ends, TurnStarts, Tries, Marks, SameButAttempts, Queues, Applies,
         SameButSteering, Grants, Validates

\* What an actor said last depends on the conversation alone.
SaidIn(conv, actor) ==
  LET by == {i \in DOMAIN conv : conv[i].actor = actor}
  IN IF by = {} THEN "blank" ELSE conv[CHOOSE i \in by : \A j \in by : j <= i].text

\* Whether the loop stops depends on the turn, the talk, the grant and the terminal.
LEMMA StopSame ==
  ASSUME plan' = plan, SameTurn, SameTalk, SameGrant, SameTerminal
  PROVE  StopsNow' <=> StopsNow
<1>1. \A actor : Said(st, actor) = SaidIn(st.conv, actor)
  BY Zenon DEF Said, SaidIn
<1>2. \A actor : Said(st', actor) = SaidIn(st'.conv, actor)
  BY Zenon DEF Said, SaidIn
<1>3. \A actor : Said(st', actor) = Said(st, actor)
  BY <1>1, <1>2, Zenon DEF SameTalk
<1>4. hasCompletionMarkers(st)' <=> hasCompletionMarkers(st)
  BY <1>3 DEF hasCompletionMarkers
<1>5. hasConverged(st)' <=> hasConverged(st)
  BY DEF hasConverged, SameTalk
<1>6. hasNoLedgerSignal(st)' <=> hasNoLedgerSignal(st)
  BY DEF hasNoLedgerSignal, SameTalk
<1>7. dialogueStopReason(st)' <=> dialogueStopReason(st)
  BY <1>4, <1>5, <1>6 DEF dialogueStopReason, SameTurn, SameTalk, SameGrant, Active
<1>8. hasUnstartedGrantedWork(st)' <=> hasUnstartedGrantedWork(st)
  BY DEF hasUnstartedGrantedWork, SameTalk, SameGrant, SameTerminal
<1> QED
  BY <1>7, <1>8 DEF StopsNow, SameTalk

\* What is left to do for children depends on the requests.
LEMMA DoneSame ==
  ASSUME st'.requests = st.requests
  PROVE  childrenDone' <=> childrenDone
  BY DEF childrenDone, Failures, Undecided, Unfinished, Decided, Admitted, Completed

\* Result is kept.
LEMMA ResultStep ==
  ASSUME Typed, TurnInv, Result, Effect, plan' = plan
  PROVE  Result'
<1>1. CASE /\ SameTerminal /\ SameResult /\ SameTalk /\ SameTurn /\ SameGrant
           /\ st'.requests = st.requests
  <2>1. (StopsNow' <=> StopsNow) /\ (childrenDone' <=> childrenDone)
    BY <1>1, StopSame, DoneSame
  <2>2. (Active(st)' <=> Active(st)) /\ (validateSelectedResult(st)' <=> validateSelectedResult(st))
    BY <1>1 DEF SameTurn, SameTalk, Active, validateSelectedResult
  <2> QED
    BY <1>1, <2>1, <2>2 DEF Result, SameTerminal, SameResult
<1>2. CASE st'.validation = "none" /\ st'.terminal # "completed"
  BY <1>2 DEF Result
<1>3. CASE Active(st) /\ SameResult /\ SameTerminal
  BY <1>2, <1>3 DEF TurnInv, SameResult, SameTerminal
<1>4. ASSUME NEW how \in {"completed", "failed"}, Ends(how) PROVE Result'
  <2>1. childrenDone' <=> childrenDone
    BY <1>4, DoneSame DEF Ends, SameAccount
  <2>2. validateSelectedResult(st)' <=> validateSelectedResult(st)
    BY <1>4 DEF Ends, SameTalk, validateSelectedResult
  <2> QED
    BY <1>4, <2>1, <2>2 DEF Ends, Result, SameResult
<1>5. ASSUME NEW actor, NEW round, NEW role, TurnStarts(actor, round, role) PROVE Result'
  <2>1. st'.validation = "none"
    BY <1>5 DEF TurnStarts, Result
  <2> QED BY <1>2, <1>5, <2>1 DEF TurnStarts
<1>6. ASSUME NEW n \in Nat, NEW p \in Prompts \cup {None}, Grants(n, p) PROVE Result'
  <2>1. st'.terminal = "completed" /\ st.terminal = "completed"
    BY <1>6 DEF Grants, turnBudgetGrantApplicable, SameTerminal
  <2>2. childrenDone' <=> childrenDone
    BY <1>6, DoneSame DEF Grants, SameAccount
  <2>3. validateSelectedResult(st)' <=> validateSelectedResult(st)
    BY <1>6 DEF Grants, SameTalk, validateSelectedResult
  <2> QED
    BY <1>6, <2>1, <2>2, <2>3 DEF Grants, Result, SameResult
<1>7. ASSUME NEW v \in {"valid", "invalid"}, Validates(v) PROVE Result'
  <2>1. (StopsNow' <=> StopsNow) /\ (childrenDone' <=> childrenDone)
    BY <1>7, StopSame, DoneSame DEF Validates, SameAccount
  <2>2. (Active(st)' <=> Active(st)) /\ (validateSelectedResult(st)' <=> validateSelectedResult(st))
    BY <1>7 DEF Validates, SameTurn, SameTalk, Active, validateSelectedResult
  <2> QED
    BY <1>7, <2>1, <2>2 DEF Validates, Result, SameTerminal
<1>8. ASSUME ~childrenDone, SameButAccount PROVE Result'
  <2>1. /\ st.terminal # "completed"
        /\ st.validation # "none" => st.terminal = "failed"
        /\ st.terminal \in {"none", "completed", "failed"}
    BY <1>8 DEF Result, Typed, State
  <2>2. validateSelectedResult(st)' <=> validateSelectedResult(st)
    BY <1>8 DEF SameButAccount, SameTalk, validateSelectedResult
  <2> QED
    BY <1>8, <2>1, <2>2 DEF Result, SameButAccount, SameTerminal, SameResult
<1>9. ASSUME NEW id, NEW verdict, NEW turns, Decides(id, verdict, turns) PROVE Result'
  BY <1>8, <1>9 DEF Decides, childrenDone
<1>10. ASSUME NEW id, NEW status, NEW reply, Completes(id, status, reply) PROVE Result'
  BY <1>8, <1>10 DEF Completes, childrenDone
<1>11. CASE Unmoved
  BY <1>1, <1>11 DEF Unmoved, SameTerminal, SameResult, SameTalk, SameTurn, SameGrant
<1> QED
  BY <1>1, <1>3, <1>4, <1>5, <1>6, <1>7, <1>9, <1>10, <1>11
     DEF Effect, Readies, TurnEnds, Tries, Marks, SameButAttempts, Asks, SameButAccount, Queues,
         Applies, SameButSteering, SameAccount

-----------------------------------------------------------------------------
(* Every action has an effect, and leaves the runner where it knows enough. *)

\* What an action has to show.
LEMMA Assemble ==
  ASSUME Typed, plan' = plan, Accepted, Effect, KidsStep, NEW l \in Labels, pc' = l, Knows(l)',
         cancelled' \in BOOLEAN, cancelled' => l # "idle"
  PROVE  Step /\ Control'
<1>1. Typed'
  BY DEF Typed, Accepted, State
<1>2. Control'
  BY DEF Control, Knows
<1> QED
  BY <1>1, <1>2 DEF Step

\* The state does not change.
LEMMA SilentStep ==
  ASSUME Typed, Silent
  PROVE  Accepted /\ Effect /\ Unmoved
  BY DEF Typed, Silent, Accepted, Effect, Unmoved

\* The child sessions do not change.
LEMMA KidsSame ==
  ASSUME IInv, kids' = kids
  PROVE  KidsStep
  BY DEF IInv, ChildrenInv, KidsStep

\* The runner returns.
LEMMA ReturnStep ==
  ASSUME IInv, plan' = plan, Accepted, Effect, Return
  PROVE  Step /\ Control'
<1>1. KidsStep /\ Typed
  BY KidsSame DEF Return, IInv
<1>2. Knows("idle")'
  BY DEF Knows
<1> QED
  BY <1>1, <1>2, Assemble DEF Return, Labels

\* The runner goes on.
LEMMA GotoStep ==
  ASSUME IInv, pc # "idle", plan' = plan, Accepted, Effect, NEW l \in Labels \ {"idle"}, Goto(l),
         Knows(l)'
  PROVE  Step /\ Control'
<1>1. KidsStep /\ Typed
  BY KidsSame DEF Goto, IInv
<1>2. cancelled' \in BOOLEAN
  BY DEF Goto, IInv, Typed
<1> QED
  BY <1>1, <1>2, Assemble DEF Goto

\* The run ends by session.finished(failed), when nothing has ended it yet.
LEMMA FailureStep ==
  ASSUME IInv, pc # "idle", plan' = plan, finishFailure,
         ~cancelled \/ st.validation = "invalid",
         st.terminal = "none" => ((st.validation = "invalid") <=> (pc = "success"))
  PROVE  Step /\ Control'
<1>1. Typed /\ st.started
  BY DEF IInv, Control, Knows
<1>2. Accepted /\ Effect
  <2>1. CASE st.terminal = "none"
    BY <1>1, <2>1, LogEnds DEF finishFailure, Effect
  <2>2. CASE st.terminal # "none"
    BY <1>1, <2>2, SilentStep DEF finishFailure
  <2> QED BY <2>1, <2>2
<1> QED
  BY <1>2, ReturnStep DEF finishFailure

\* An interrupted run records nothing.
LEMMA InterruptStep ==
  ASSUME IInv, plan' = plan, finishInterrupted
  PROVE  Step /\ Control'
  BY SilentStep, ReturnStep DEF finishInterrupted, IInv

\* An error ends the run, of a turn or of a child, before any result.
LEMMA FailStep ==
  ASSUME IInv, pc \notin {"idle", "success"}, plan' = plan, Fail, Active(st) \/ ~childrenDone
  PROVE  Step /\ Control'
<1>1. st.terminal = "none" => st.validation # "invalid"
  BY DEF IInv, Result
<1> QED
  BY <1>1, FailureStep, InterruptStep DEF Fail

\* What is known of the turn and of the end stays when they do.
LEMMA KnownSame ==
  ASSUME plan' = plan, SameLife, SameTerminal, SameTalk, SameGrant
  PROVE  /\ (st.started <=> st'.started) /\ (Finished' <=> Finished)
         /\ SameTurn => /\ (Active(st)' <=> Active(st)) /\ (Answered' <=> Answered)
                        /\ (Retriable' <=> Retriable) /\ st'.turn.actor = st.turn.actor
<1>1. (st.started <=> st'.started) /\ (Finished' <=> Finished)
  BY DEF SameLife, SameTerminal, SameTalk, SameGrant, Finished, hasUnstartedGrantedWork
<1>2. ASSUME SameTurn
      PROVE  /\ (Active(st)' <=> Active(st)) /\ (Answered' <=> Answered)
             /\ (Retriable' <=> Retriable) /\ st'.turn.actor = st.turn.actor
  BY <1>2 DEF SameTurn, Active, Answered, Retriable, Occurs
<1> QED
  BY <1>1, <1>2

\* All is known that was known.
LEMMA QuietKnows ==
  ASSUME plan' = plan, Unmoved, NEW l
  PROVE  Knows(l)' <=> Knows(l)
<1>1. SameLife /\ SameTerminal /\ SameTalk /\ SameGrant /\ SameTurn
  BY DEF Unmoved, SameLife, SameTerminal, SameTalk, SameGrant, SameTurn
<1>2. (childrenDone' <=> childrenDone) /\ (StopsNow' <=> StopsNow)
  BY <1>1, StopSame, DoneSame DEF Unmoved
<1>3. /\ (st.started <=> st'.started) /\ (Finished' <=> Finished)
      /\ (Active(st)' <=> Active(st)) /\ (Answered' <=> Answered) /\ (Retriable' <=> Retriable)
  BY <1>1, KnownSame
<1>4. Failures' = Failures
  BY DEF Unmoved, Failures
<1> QED
  BY <1>2, <1>3, <1>4 DEF Knows, Unmoved

\* A set of positions that is not empty has a greatest.
LEMMA GreatestOf ==
  ASSUME NEW n \in Nat, NEW S \in SUBSET (1..n), S # {}
  PROVE  \E m \in S : \A i \in S : i <= m
<1> DEFINE T == {n - i : i \in S}
<1>1. T \in SUBSET Nat
  OBVIOUS
<1>2. T # {}
  <2>1. PICK i \in S : TRUE
    OBVIOUS
  <2>2. n - i \in T
    OBVIOUS
  <2> QED BY <2>2
<1>3. PICK k \in T : \A j \in T : k <= j
  <2> HIDE DEF T
  <2> QED BY <1>1, <1>2, LeastOf
<1>4. PICK m \in S : k = n - m
  OBVIOUS
<1>5. ASSUME NEW i \in S PROVE i <= m
  <2>1. n - i \in T
    OBVIOUS
  <2> QED BY <1>3, <1>4, <2>1
<1> QED
  BY <1>5

\* The latest attempt with an outcome is the last one.
LEMMA LatestIs ==
  ASSUME Typed, NEW o, Occurs(st.turn, o) # {}
  PROVE  /\ Latest(st.turn, o) \in Occurs(st.turn, o)
         /\ \A i \in Occurs(st.turn, o) : i <= Latest(st.turn, o)
<1>1. Occurs(st.turn, o) \in SUBSET (1..Len(st.turn.attempts)) /\ Len(st.turn.attempts) \in Nat
  BY Numbers DEF Occurs
<1>2. \E m \in Occurs(st.turn, o) : \A i \in Occurs(st.turn, o) : i <= m
  BY <1>1, GreatestOf
<1> QED
  BY <1>2 DEF Latest

\* The loop decides what to do with the turn.
LEMMA ServiceTurn ==
  ASSUME IInv, serviceActiveTurn
  PROVE  Step /\ Control'
<1>1. Typed /\ pc = "loop" /\ plan' = plan /\ Active(st) /\ Silent
  BY DEF IInv, serviceActiveTurn, Proceed, At
<1>2. Accepted /\ Effect /\ Unmoved
  BY <1>1, SilentStep
<1>3. st.started /\ ~Finished
  BY <1>1 DEF IInv, Control, Knows
<1>4. ASSUME NEW l \in Labels \ {"idle"}, Proceed(l), Knows(l) PROVE Step /\ Control'
  BY <1>1, <1>2, <1>4, QuietKnows, GotoStep DEF Proceed
<1>5. CASE st.turn.actor \in plan.static /\ Proceed("static")
  BY <1>1, <1>3, <1>4, <1>5 DEF Knows, Labels
<1>6. CASE st.turn.actor \notin plan.static /\ Answered /\ Proceed("reply")
  BY <1>1, <1>3, <1>4, <1>6 DEF Knows, Labels
<1>7. CASE /\ st.turn.actor \notin plan.static
           /\ FailedNow /\ shouldRetry(st.turn) /\ Proceed("backoff")
  <2> DEFINE m == Latest(st.turn, "failed")
             F == Occurs(st.turn, "failed")
  <2>1. m < plan.maxAttempts
    BY <1>7 DEF shouldRetry
  <2>2. m \in F /\ \A i \in F : i <= m
    BY <1>1, <1>7, LatestIs DEF FailedNow
  <2>3. F \subseteq Nat /\ plan.maxAttempts \in Nat
    BY <1>1, Numbers DEF Occurs
  <2>4. Retriable
    <3> HIDE DEF m
    <3> QED BY <2>1, <2>2, <2>3 DEF Retriable
  <2> QED
    BY <1>1, <1>3, <1>4, <1>7, <2>4 DEF Knows, Labels, FailedNow
<1>8. CASE st.turn.actor \notin plan.static /\ ~Answered /\ ~FailedNow /\ Proceed("call")
  BY <1>1, <1>3, <1>4, <1>8 DEF Knows, Labels, FailedNow, Retriable
<1> QED
  BY <1>5, <1>6, <1>7, <1>8 DEF serviceActiveTurn

\* The wait before a retry.
LEMMA RetryStep ==
  ASSUME IInv, waitForRetry
  PROVE  Step /\ Control'
<1>1. Typed /\ pc = "backoff" /\ plan' = plan /\ Knows("backoff")
  BY DEF IInv, waitForRetry, At, Control
<1>2. CASE Silent /\ Goto("call")
  <2>1. Accepted /\ Effect /\ Unmoved
    BY <1>1, <1>2, SilentStep
  <2>2. Knows("call")
    BY <1>1 DEF Knows
  <2> QED
    BY <1>1, <1>2, <2>1, <2>2, QuietKnows, GotoStep DEF Labels
<1>3. CASE finishInterrupted
  BY <1>1, <1>3, InterruptStep
<1> QED
  BY <1>2, <1>3 DEF waitForRetry

\* A prompt is applied to the turn, before a call or before a child step.
LEMMA ApplyStep ==
  ASSUME IInv, plan' = plan, NEW l \in {"call", "static"}, pc = l, ToApply, Apply, Goto(l)
  PROVE  Step /\ Control'
<1>1. Typed /\ Steering /\ st.started /\ Active(st) /\ Knows(l)
  BY DEF IInv, Control, Knows
<1>2. Accepted /\ \E i \in Nat : Applies(i)
  BY <1>1, LogApplies
<1>3. Effect /\ SameButSteering
  BY <1>2 DEF Effect, Applies
<1>4. Knows(l)'
  <2>1. /\ (st.started <=> st'.started) /\ (Finished' <=> Finished)
        /\ (Active(st)' <=> Active(st)) /\ (Answered' <=> Answered) /\ (Retriable' <=> Retriable)
        /\ st'.turn.actor = st.turn.actor
    BY <1>3, KnownSame DEF SameButSteering
  <2> QED
    BY <1>1, <2>1 DEF Knows
<1> QED
  BY <1>2, <1>3, <1>4, GotoStep DEF Labels

\* The call of a provider.
LEMMA CallStep ==
  ASSUME IInv, callActiveAttempt
  PROVE  Step /\ Control'
<1>1. Typed /\ pc = "call" /\ plan' = plan /\ Knows("call")
  BY DEF IInv, callActiveAttempt, At, Control
<1>2. Accepted /\ Tries
  BY <1>1, LogTries DEF callActiveAttempt, Knows
<1>3. Effect
  BY <1>2 DEF Effect
<1>4. /\ SameLife /\ SameTerminal /\ SameTalk /\ SameGrant /\ st'.turn.role = st.turn.role
      /\ Active(st) /\ st'.turn.actor = st.turn.actor
  BY <1>2 DEF Tries, SameButAttempts
<1>5. Active(st)'
  BY <1>1, <1>4, RoleOfTurn DEF IInv, NoTurn, Active, Roles
<1>6. /\ ~Answered' /\ Retriable' /\ st'.turn.attempts # <<>> /\ Last(st'.turn.attempts) = Fresh
  BY <1>1, <1>2, TriesOccurs DEF Answered, Retriable, Knows
<1>7. (st.started <=> st'.started) /\ (Finished' <=> Finished)
  BY <1>1, <1>4, KnownSame
<1>8. Knows("running")'
  BY <1>1, <1>4, <1>5, <1>6, <1>7 DEF Knows, Fresh
<1> QED
  BY <1>1, <1>2, <1>3, <1>8, GotoStep DEF callActiveAttempt, Labels

\* What the end of an attempt leaves.
LEMMA MarkedStep ==
  ASSUME IInv, plan' = plan, pc \in {"running", "failing"}, Accepted, NEW a \in Attempt, Marks(a)
  PROVE  /\ Effect /\ st'.started /\ ~Finished' /\ Active(st)' /\ st'.turn.attempts # <<>>
         /\ Last(st'.turn.attempts) = a /\ st'.turn.actor \notin plan'.static
         /\ a.outcome = "success" => Answered'
         /\ a.outcome # "success" => ~Answered'
<1>1. Typed /\ st.started /\ ~Finished /\ Active(st)
  BY DEF IInv, Control, Knows
<1>2. Effect
  BY DEF Effect
<1>3. /\ SameLife /\ SameTerminal /\ SameTalk /\ SameGrant /\ st'.turn.role = st.turn.role
      /\ st'.turn.actor = st.turn.actor
  BY DEF Marks, SameButAttempts
<1>7. st'.turn.actor \notin plan'.static
  BY <1>3 DEF IInv, Control, Knows
<1>4. Active(st)'
  BY <1>1, <1>3, RoleOfTurn DEF IInv, NoTurn, Active, Roles
<1>5. st'.started /\ ~Finished'
  BY <1>1, <1>3, KnownSame
<1>6. /\ st'.turn.attempts # <<>> /\ Last(st'.turn.attempts) = a
      /\ a.outcome = "success" => Answered'
      /\ a.outcome # "success" => ~Answered'
  BY <1>1, MarksOccurs DEF Answered
<1> QED
  BY <1>2, <1>4, <1>5, <1>6, <1>7

\* The provider answers, or fails; a failure is then closed.
LEMMA AttemptStep ==
  ASSUME IInv,
         \/ \E reply \in Replies(plan, st.turn.role) : attemptSucceeds(reply)
         \/ \E failure \in {"retryable", "auth", "fatal"} : attemptFails(failure)
         \/ attemptFailed
  PROVE  Step /\ Control'
<1>1. Typed /\ plan' = plan /\ Knows(pc)
  BY DEF IInv, attemptSucceeds, attemptFails, attemptFailed, At, Control
<1>2. ASSUME NEW reply \in Replies(plan, st.turn.role), attemptSucceeds(reply)
      PROVE  Step /\ Control'
  <2>1. pc = "running" /\ Knows("running")
    BY <1>1, <1>2 DEF attemptSucceeds, At
  <2>2. reply \in Reply
    BY <1>1, <2>1, RoleOfTurn, PlanAssumption DEF IInv, Typed, Knows
  <2>3. PICK a \in Attempt : Accepted /\ a.outcome = "success" /\ Marks(a)
    BY <1>1, <1>2, <2>1, <2>2, LogAnswer DEF attemptSucceeds, Knows
  <2>4. Effect /\ Knows("reply")'
    BY <1>1, <2>1, <2>3, MarkedStep DEF Knows
  <2> QED
    BY <1>1, <1>2, <2>1, <2>3, <2>4, GotoStep DEF attemptSucceeds, Labels
<1>3. ASSUME NEW failure \in {"retryable", "auth", "fatal"}, attemptFails(failure)
      PROVE  Step /\ Control'
  <2>1. pc = "running" /\ Knows("running")
    BY <1>1, <1>3 DEF attemptFails, At
  <2>2. PICK a \in Attempt : Accepted /\ a.outcome = "failed" /\ ~a.closed /\ Marks(a)
    BY <1>1, <1>3, <2>1, LogFailure DEF attemptFails, Knows
  <2>3. Effect /\ Knows("failing")'
    BY <1>1, <2>1, <2>2, MarkedStep DEF Knows
  <2> QED
    BY <1>1, <1>3, <2>1, <2>2, <2>3, GotoStep DEF attemptFails, Labels
<1>4. CASE attemptFailed
  <2>1. pc = "failing" /\ Knows("failing")
    BY <1>1, <1>4 DEF attemptFailed, At
  <2>2. PICK a \in Attempt : Accepted /\ Marks(a)
    BY <1>1, <1>4, <2>1, LogClose DEF attemptFailed, Knows
  <2>3. Effect /\ Knows("loop")'
    BY <1>1, <2>1, <2>2, MarkedStep DEF Knows
  <2> QED
    BY <1>1, <1>4, <2>1, <2>2, <2>3, GotoStep DEF attemptFailed, Labels
<1> QED
  BY <1>2, <1>3, <1>4

\* The answer of a turn is a reply.
LEMMA AnswerType ==
  ASSUME Typed, Attempts, Answered
  PROVE  Reply0 \in Reply
<1>1. Latest(st.turn, "success") \in Occurs(st.turn, "success")
  BY LatestIs DEF Answered
<1> QED
  BY <1>1 DEF Attempts, Reply0

\* A request is recorded, for a contested item or for a child step.
LEMMA AskStep ==
  ASSUME IInv, plan' = plan, NEW l \in {"reply", "static"}, pc = l,
         NEW id \in Ids, id \notin DOMAIN st.requests, MayAsk(id),
         Log(ChildRequested(st, id)), Goto(l)
  PROVE  Step /\ Control'
<1>1. Typed /\ st.started /\ Active(st) /\ Knows(l)
  BY DEF IInv, Control, Knows
<1>2. Accepted /\ Asks(id)
  BY <1>1, LogAsks
<1>3. Effect /\ SameButAccount
  BY <1>2 DEF Effect, Asks
<1>4. Knows(l)'
  <2>1. /\ (st.started <=> st'.started) /\ (Finished' <=> Finished)
        /\ (Active(st)' <=> Active(st)) /\ (Answered' <=> Answered)
        /\ st'.turn.actor = st.turn.actor
    BY <1>3, KnownSame DEF SameButAccount
  <2> QED
    BY <1>1, <2>1 DEF Knows
<1> QED
  BY <1>2, <1>3, <1>4, GotoStep DEF Labels

\* The end of a turn.
LEMMA TurnEndStep ==
  ASSUME IInv, plan' = plan, pc \in {"reply", "static"}, NEW reply \in Reply,
         Log(TurnFinished(st, st.turn.actor, st.turn.round, reply)), TurnReply(reply), Goto("loop")
  PROVE  Step /\ Control'
<1>1. Typed /\ st.started /\ Active(st) /\ ~Finished
  BY DEF IInv, Control, Knows
<1>2. st.turn.role # "none"
  BY <1>1, RoleOfTurn DEF IInv, Roles
<1>3. st.terminal # "completed"
  BY <1>1 DEF IInv, TurnInv
<1>4. st.terminal = "none"
  BY <1>1, <1>3 DEF Finished, hasUnstartedGrantedWork
<1>5. Accepted /\ TurnEnds(reply)
  BY <1>1, <1>2, <1>4, LogTurnEnds
<1>6. Effect
  BY <1>5 DEF Effect
<1>7. Knows("loop")'
  BY <1>1, <1>5, <1>4 DEF Knows, Finished, TurnEnds, SameLife, SameTerminal
<1> QED
  BY <1>5, <1>6, <1>7, GotoStep DEF Labels

\* From the answer to the end of the turn.
LEMMA ReplyStep ==
  ASSUME IInv, persistChildRequests \/ finishActiveTurn
  PROVE  Step /\ Control'
<1>1. Typed /\ plan' = plan /\ pc = "reply"
  BY DEF IInv, persistChildRequests, finishActiveTurn, At
<1>2. Reply0 \in Reply
  BY <1>1, AnswerType DEF IInv, Control, Knows
<1>3. CASE persistChildRequests
  <2>1. PICK id \in ChildRequests(st, Reply0) : Log(ChildRequested(st, id))
    BY <1>3 DEF persistChildRequests
  <2>2. /\ id \in {<<item, 0>> : item \in Reply0.ledger.contested}
        /\ id \notin DOMAIN st.requests /\ MayAsk(id)
    BY <2>1 DEF ChildRequests, MayAsk
  <2>3. Reply0.ledger.contested \subseteq Items
    BY <1>2 DEF Reply, Ledger
  <2>4. id \in Ids
    BY <2>2, <2>3 DEF Ids
  <2> QED
    BY <1>1, <1>3, <2>1, <2>2, <2>4, AskStep DEF persistChildRequests
<1>4. CASE finishActiveTurn
  <2>1. TurnReply(Reply0)
    BY <1>1 DEF IInv, Control, Knows, TurnReply
  <2> QED
    BY <1>1, <1>2, <1>4, <2>1, TurnEndStep DEF finishActiveTurn
<1> QED
  BY <1>3, <1>4

\* The actions on a turn.
LEMMA TurnActions ==
  ASSUME IInv, Turn
  PROVE  Step /\ Control'
<1>1. CASE reportFailure
  BY <1>1, FailStep DEF reportFailure, At
<1>2. CASE applySteering
  BY <1>2, ApplyStep DEF applySteering, At
<1>3. CASE attemptAbandoned
  BY <1>3, InterruptStep DEF attemptAbandoned, At
<1> QED
  BY <1>1, <1>2, <1>3, ServiceTurn, RetryStep, CallStep, AttemptStep, ReplyStep DEF Turn

\* A decision on a request, which nobody took before.
LEMMA DecideStep ==
  ASSUME Typed, st.started, NEW id \in Undecided,
         \/ admitChild(id)
         \/ \E why \in {"rejected", "not_admitted"} : rejectChild(id, why)
  PROVE  /\ Accepted /\ Effect
         /\ \E i \in Ids, verdict \in Verdicts, turns \in Nat : Decides(i, verdict, turns)
<1>1. ASSUME NEW why \in Verdicts \ {"none", "admitted"}, rejectChild(id, why)
      PROVE  Accepted /\ \E i \in Ids, verdict \in Verdicts, turns \in Nat : Decides(i, verdict, turns)
  <2>1. Log(ChildDecided(st, id, why, 0))
    BY <1>1 DEF rejectChild
  <2>2. Accepted /\ id \in Ids /\ Decides(id, why, 0)
    BY <1>1, <2>1, LogDecides
  <2> QED BY <2>2
<1>2. ASSUME admitChild(id)
      PROVE  Accepted /\ \E i \in Ids, verdict \in Verdicts, turns \in Nat : Decides(i, verdict, turns)
  <2>1. CASE rejectChild(id, "children_exhausted") \/ rejectChild(id, "rejected")
             \/ rejectChild(id, "turns_exhausted")
    BY <1>1, <2>1 DEF Verdicts
  <2>2. CASE /\ st.childrenUsed < plan.maxChildren
             /\ ~(st.childTurns + ChildTurns > plan.maxTurns)
             /\ Log(ChildDecided(st, id, "admitted", ChildTurns))
    <3>1. ChildTurns \in Nat /\ st.childTurns \in Nat /\ plan.maxTurns \in Nat
      BY ChildTurnsType DEF Typed, State
    <3>2. st.childTurns + ChildTurns <= plan.maxTurns
      <4> DEFINE c == ChildTurns
      <4> HIDE DEF c
      <4>1. st.childTurns + c <= plan.maxTurns
        BY <2>2, <3>1 DEF c
      <4> QED BY <4>1 DEF c
    <3>3. Accepted /\ id \in Ids /\ Decides(id, "admitted", ChildTurns)
      BY <2>2, <3>1, <3>2, LogDecides DEF Verdicts
    <3> QED BY <3>1, <3>3 DEF Verdicts
  <2> QED
    BY <1>2, <2>1, <2>2 DEF admitChild
<1>3. Accepted /\ \E i \in Ids, verdict \in Verdicts, turns \in Nat : Decides(i, verdict, turns)
  BY <1>1, <1>2 DEF Verdicts
<1> QED
  BY <1>3 DEF Effect

\* What the events of children leave of what is known, while they are served.
LEMMA ServingKnows ==
  ASSUME IInv, plan' = plan, SameButAccount, NEW l \in {"children", "static"}, pc = l
  PROVE  Knows(l)' /\ (Failures' # {} => Knows("childError")')
<1>1. Knows(l)
  BY DEF IInv, Control
<1>2. /\ (st.started <=> st'.started) /\ (Finished' <=> Finished) /\ (Active(st)' <=> Active(st))
      /\ st'.turn.actor = st.turn.actor
  BY KnownSame DEF SameButAccount
<1> QED
  BY <1>1, <1>2 DEF Knows

\* The requests in the conversation are decided.
LEMMA DecideAction ==
  ASSUME IInv, decideChild
  PROVE  Step /\ Control'
<1>1. Typed /\ st.started /\ pc = "children" /\ plan' = plan /\ Goto("children")
  BY DEF IInv, Control, Knows, decideChild, At
<1>2. PICK id \in Undecided : admitChild(id) \/ rejectChild(id, "not_admitted")
  BY DEF decideChild, ToDecide
<1>3. /\ Accepted /\ Effect
      /\ \E i \in Ids, verdict \in Verdicts, turns \in Nat : Decides(i, verdict, turns)
  BY <1>1, <1>2, DecideStep
<1>4. Knows("children")'
  BY <1>1, <1>3, ServingKnows DEF Decides
<1> QED
  BY <1>1, <1>3, <1>4, GotoStep DEF Labels

\* A child is served in the loop or in a child step.
LEMMA InChildKnows ==
  ASSUME IInv, NEW id, InChild(id)
  PROVE  /\ Typed /\ plan' = plan /\ pc \in {"children", "static"} /\ pc # "idle"
         /\ id \in Unfinished /\ st.started
  BY DEF IInv, InChild, At, Control, Knows

\* A child session is created.
LEMMA CreateAction ==
  ASSUME IInv, NEW id, createChild(id)
  PROVE  Step /\ Control'
<1>1. Typed /\ plan' = plan /\ pc # "idle" /\ id \in DOMAIN st.requests
  BY InChildKnows DEF createChild, Unfinished
<1>2. Accepted /\ Effect /\ Unmoved
  BY <1>1, SilentStep DEF createChild
<1>3. /\ DOMAIN kids' = DOMAIN kids \cup {id}
      /\ \A x \in DOMAIN kids : kids'[x] = kids[x]
  BY DEF createChild
<1>4. KidsStep
  BY <1>1, <1>3 DEF IInv, ChildrenInv, KidsStep
<1>5. Knows(pc)' <=> Knows(pc)
  <2>1. \A l \in Labels : Knows(l)' <=> Knows(l)
    BY <1>1, <1>2, QuietKnows
  <2> QED
    BY <1>1, <2>1 DEF createChild, Typed, Knows
<1>6. Knows(pc)'
  BY <1>5 DEF IInv, Control
<1>7. pc' = pc /\ cancelled' = cancelled /\ pc \in Labels /\ cancelled \in BOOLEAN
  BY DEF createChild, IInv, Typed
<1>8. Typed'
  BY <1>1, <1>2, <1>7 DEF Typed, Accepted, State
<1>9. Control'
  BY <1>1, <1>6, <1>7 DEF Control, Knows
<1> QED
  BY <1>1, <1>2, <1>4, <1>8, <1>9 DEF Step

\* A child completes, or its failure is recorded.
LEMMA CompleteActions ==
  ASSUME IInv, NEW id \in DOMAIN st.requests,
         \/ \E reply \in Replies(plan, "participant") : childCompletes(id, reply)
         \/ recordFailed(id)
  PROVE  Step /\ Control'
<1>1. /\ Typed /\ plan' = plan /\ pc \in {"children", "static"} /\ id \in Unfinished /\ st.started
      /\ InChild(id)
  BY InChildKnows DEF childCompletes, recordFailed
<1>2. ASSUME NEW reply \in Replies(plan, "participant"), childCompletes(id, reply)
      PROVE  Step /\ Control'
  <2>1. reply \in Reply
    BY <1>1, PlanAssumption DEF Typed, Roles
  <2>2. Accepted /\ id \in Ids /\ Completes(id, "completed", reply)
    BY <1>1, <1>2, <2>1, LogCompletes DEF childCompletes
  <2>3. Effect
    BY <2>1, <2>2 DEF Effect
  <2>4. PICK l \in {"children", "static"} : pc = l
    BY <1>1
  <2>5. Knows(l)'
    BY <1>1, <2>2, <2>4, ServingKnows DEF Completes
  <2>6. kids' = kids /\ pc' = l /\ cancelled' = cancelled /\ l \in Labels /\ cancelled' \in BOOLEAN
    BY <1>1, <1>2, <2>4 DEF childCompletes, Labels, Typed
  <2> QED
    BY <1>1, <2>2, <2>3, <2>4, <2>5, <2>6, KidsSame, Assemble
<1>3. CASE recordFailed(id)
  <2>1. Accepted /\ id \in Ids /\ Completes(id, "failed", None)
    BY <1>1, <1>3, LogCompletes DEF recordFailed
  <2>2. Effect
    BY <2>1 DEF Effect
  <2>3. Failures' # {}
    <3>1. id \in DOMAIN st.requests /\ st.requests \in [DOMAIN st.requests -> Request]
      BY <1>1 DEF Typed, State
    <3>2. id \in DOMAIN st'.requests /\ st'.requests[id].status = "failed"
      BY <2>1, <3>1 DEF Completes, Request
    <3> QED BY <3>2 DEF Failures
  <2>4. Knows("childError")'
    BY <1>1, <2>1, <2>3, ServingKnows DEF Completes
  <2> QED
    BY <1>1, <1>3, <2>1, <2>2, <2>4, GotoStep DEF recordFailed, Labels
<1> QED
  BY <1>2, <1>3

\* The parent leaves a child that waits for its operator.
LEMMA AwaitStep ==
  ASSUME IInv, plan' = plan, Silent, Return
  PROVE  Step /\ Control'
  BY SilentStep, ReturnStep DEF IInv

\* The id of a child step is one of those that no request in the conversation has.
LEMMA StaticIdType ==
  ASSUME IInv, Active(st)
  PROVE  staticId \in Ids /\ IsStatic(staticId)
<1>1. st.turn \in TurnRec /\ st.turn.round > 0
  BY DEF IInv, Typed, State, TurnInv
<1>2. st.turn.actor \in Actors /\ st.turn.round \in Nat \ {0}
  BY <1>1 DEF TurnRec
<1> QED
  BY <1>1, <1>2 DEF staticId, StaticId, Ids, IsStatic

\* The actions of a child step.
LEMMA StaticActions ==
  ASSUME IInv, staticChildForTurn \/ admitStaticChild \/ staticChildFinishes
  PROVE  Step /\ Control'
<1>1. Typed /\ plan' = plan /\ pc = "static" /\ st.started /\ Active(st)
  BY DEF IInv, Control, Knows, staticChildForTurn, admitStaticChild, staticChildFinishes, At
<1>2. staticId \in Ids /\ IsStatic(staticId)
  BY <1>1, StaticIdType
<1>3. CASE staticChildForTurn
  <2>1. CASE ToApply
    BY <1>1, <1>3, <2>1, ApplyStep DEF staticChildForTurn
  <2>2. CASE ~ToApply
    <3>1. MayAsk(staticId)
      BY <1>1 DEF IInv, Control, Knows, MayAsk, staticId
    <3> QED BY <1>1, <1>2, <1>3, <2>2, <3>1, AskStep DEF staticChildForTurn
  <2> QED BY <2>1, <2>2
<1>4. CASE admitStaticChild
  <2>1. plan.recipeTurns \in Nat
    BY <1>1, PlanAssumption DEF Typed, ValidPlan, Plan
  <2>2. Accepted /\ Decides(staticId, "admitted", plan.recipeTurns)
    BY <1>1, <1>2, <1>4, <2>1, LogDecides DEF admitStaticChild, Verdicts
  <2>3. Effect
    BY <1>2, <2>1, <2>2 DEF Effect, Verdicts
  <2>4. Knows("static")'
    BY <1>1, <2>2, ServingKnows DEF Decides
  <2> QED
    BY <1>1, <1>4, <2>2, <2>3, <2>4, GotoStep DEF admitStaticChild, Labels
<1>5. CASE staticChildFinishes
  <2>1. st.requests[staticId].reply \in Reply
    BY <1>5 DEF staticChildFinishes, IInv, ChildrenInv
  <2>2. TurnReply(st.requests[staticId].reply)
    BY <1>1, <1>5 DEF IInv, Control, Knows, TurnReply, staticId, staticChildFinishes
  <2> QED
    BY <1>1, <1>5, <2>1, <2>2, TurnEndStep DEF staticChildFinishes
<1> QED
  BY <1>3, <1>4, <1>5

\* The actions on children.
LEMMA ChildActions ==
  ASSUME IInv, Children \/ \E id \in DOMAIN st.requests : childUnrunnable(id)
  PROVE  Step /\ Control'
<1>1. CASE serviceChildren
  <2>1. Typed /\ Silent /\ plan' = plan /\ pc = "loop" /\ Goto("children")
    BY <1>1 DEF serviceChildren, Proceed, At, IInv
  <2>2. Knows("children")
    BY <1>1, <2>1 DEF serviceChildren, IInv, Control, Knows
  <2>3. Accepted /\ Effect /\ Knows("children")'
    BY <2>1, <2>2, SilentStep, QuietKnows
  <2> QED
    BY <2>1, <2>3, GotoStep DEF Labels
<1>2. CASE childFailed \/ childError \/ staticChildFails
  <2>1. Knows(pc) /\ plan' = plan /\ pc \in {"children", "childError", "static"} /\ Fail
    BY <1>2 DEF IInv, Control, childFailed, childError, staticChildFails, At
  <2>2. Active(st) \/ ~childrenDone
    BY <1>2, <2>1 DEF Knows, childFailed, childError, staticChildFails, At, childrenDone
  <2> QED
    BY <2>1, <2>2, FailStep
<1>3. CASE awaitDecision
  BY <1>3, AwaitStep DEF awaitDecision, At
<1>4. ASSUME NEW id \in DOMAIN st.requests, childInterrupted(id) PROVE Step /\ Control'
  BY <1>4, InChildKnows, InterruptStep DEF childInterrupted
<1>5. ASSUME NEW id \in DOMAIN st.requests, childAwaits(id) PROVE Step /\ Control'
  BY <1>5, InChildKnows, AwaitStep DEF childAwaits
<1>6. ASSUME NEW id \in DOMAIN st.requests, childFails(id) \/ childUnrunnable(id)
      PROVE  Step /\ Control'
  BY <1>6, CompleteActions DEF childFails, childUnrunnable
<1> QED
  BY <1>1, <1>2, <1>3, <1>4, <1>5, <1>6, DecideAction, CreateAction, CompleteActions, StaticActions
     DEF Children

\* A place in a cycle.
LEMMA InCycle ==
  ASSUME NEW n \in Nat, NEW k \in Nat \ {0}
  PROVE  (n % k) + 1 \in 1..k
<1>1. n % k \in 0..(k - 1)
  OBVIOUS
<1> DEFINE m == n % k
<1> HIDE DEF m
<1>2. m \in 0..(k - 1)
  BY <1>1 DEF m
<1>3. m + 1 \in 1..k
  BY <1>2
<1> QED
  BY <1>3 DEF m

\* The participants of a plan take turns.
LEMMA ParticipantType ==
  ASSUME Typed, NEW n \in Nat
  PROVE  ParticipantActorForTurn(n + 1) \in Actors
<1>1. plan.slots \in Seq(STRING) /\ Len(plan.slots) \in Nat \ {0}
  BY Numbers
<1>2. (n + 1) - 1 = n
  OBVIOUS
<1>3. (((n + 1) - 1) % Len(plan.slots)) + 1 \in 1..Len(plan.slots)
  BY <1>1, <1>2, InCycle, Zenon
<1> QED
  BY <1>1, <1>3 DEF ParticipantActorForTurn, Actors

\* The next turn is there to start: LoopHasWork, seen from the step.
LEMMA StartStep ==
  ASSUME IInv, startTurn
  PROVE  Step /\ Control'
<1>1. /\ Typed /\ Schedule /\ pc = "children" /\ plan' = plan /\ childrenDone /\ ~StopsNow
      /\ st.started /\ ~Finished /\ ~Active(st)
  BY DEF IInv, Control, Knows, startTurn, childrenServed, At
<1>2. CASE finishInterrupted
  BY <1>1, <1>2, InterruptStep
<1>3. ASSUME ~cancelled, Log(nextTurn), Goto("loop") PROVE Step /\ Control'
  <2>1. Len(st.conv) \in Nat /\ Budget(st) \in Nat /\ st.phase \in Phases
    BY <1>1, Numbers DEF Typed, State
  <2>2. st.terminal = "none" \/ hasUnstartedGrantedWork(st)
    BY <1>1 DEF Finished
  <2>3. \E actor \in Actors, round \in Nat, role \in Roles :
           Accepted /\ TurnStarts(actor, round, role)
    <3>1. CASE st.phase = "facilitator"
      <4>1. Log(TurnStarted(st, "facilitator", Len(st.conv), "facilitator"))
        BY <1>3, <3>1, Zenon DEF nextTurn
      <4>2. Len(st.conv) > 0 /\ ~hasUnstartedGrantedWork(st)
        BY <1>1, <3>1 DEF Schedule
      <4>3. "facilitator" \in Actors /\ "facilitator" \in Roles
        BY DEF Actors, Roles
      <4>4. Accepted /\ TurnStarts("facilitator", Len(st.conv), "facilitator")
        BY <1>1, <2>1, <2>2, <4>1, <4>2, <4>3, LogTurnStarts
      <4> QED BY <2>1, <4>3, <4>4
    <3>2. CASE st.phase = "reducer"
      <4> DEFINE n == Budget(st) + 1
      <4>1. Log(TurnStarted(st, "reducer", n, "reducer"))
        BY <1>3, <3>2, Zenon DEF nextTurn
      <4>2. n \in Nat /\ n > 0 /\ ~hasUnstartedGrantedWork(st)
        BY <1>1, <2>1, <3>2 DEF Schedule
      <4> HIDE DEF n
      <4>3. "reducer" \in Roles /\ "reducer" \in Actors
        BY <3>2 DEF Roles, Actors
      <4>4. Accepted /\ TurnStarts("reducer", n, "reducer")
        BY <1>1, <2>2, <4>1, <4>2, <4>3, LogTurnStarts
      <4> QED BY <4>2, <4>3, <4>4
    <3>3. CASE st.phase \notin {"facilitator", "reducer"}
      <4> DEFINE n == Len(st.conv) + 1
                 actor == ParticipantActorForTurn(n)
      <4>1. Log(TurnStarted(st, actor, n, "participant"))
        BY <1>3, <3>3, Zenon DEF nextTurn
      <4>2. Len(st.conv) < Budget(st)
        BY <1>1, <2>1, <3>3 DEF Schedule, StopsNow, Phases
      <4>3. n \in Nat /\ n > 0 /\ actor \in Actors /\ "participant" \in Roles
        BY <1>1, <2>1, ParticipantType DEF Roles
      <4>4. actor = ParticipantActorForTurn(Len(st.conv) + 1)
        OBVIOUS
      <4> HIDE DEF actor, n
      <4>5. Accepted /\ TurnStarts(actor, n, "participant")
        BY <1>1, <2>2, <4>1, <4>2, <4>3, <4>4, LogTurnStarts
      <4> QED BY <4>3, <4>5
    <3> QED BY <3>1, <3>2, <3>3
  <2>4. Effect /\ Accepted
    BY <2>3 DEF Effect
  <2>5. st'.started /\ st'.terminal = "none"
    BY <2>3 DEF TurnStarts, SameLife
  <2>6. Knows("loop")'
    BY <2>5 DEF Knows, Finished, hasUnstartedGrantedWork
  <2> QED
    BY <1>1, <1>3, <2>4, <2>6, GotoStep DEF Labels
<1> QED
  BY <1>2, <1>3 DEF startTurn

\* The end of the loop: the result is validated, then the session finishes.
LEMMA SuccessActions ==
  ASSUME IInv, stopExecution \/ produceResult \/ finishSuccess
  PROVE  Step /\ Control'
<1>1. Typed /\ plan' = plan /\ st.started /\ ~Finished /\ ~Active(st)
  BY DEF IInv, Control, Knows, stopExecution, childrenServed, produceResult, finishSuccess, At
<1>2. CASE stopExecution
  <2>1. pc = "children" /\ childrenDone /\ StopsNow /\ Silent /\ Goto("success")
    BY <1>2 DEF stopExecution, childrenServed, At
  <2>2. Knows("success")
    BY <1>1, <2>1 DEF Knows
  <2>3. Accepted /\ Effect /\ Unmoved
    BY <1>1, <2>1, SilentStep
  <2> QED
    BY <1>1, <2>1, <2>2, <2>3, QuietKnows, GotoStep DEF Labels
<1>3. ASSUME pc = "success"
      PROVE  st.terminal = "none" /\ childrenDone /\ StopsNow
  <2>1. childrenDone /\ StopsNow
    BY <1>3 DEF IInv, Control, Knows
  <2>2. ~hasUnstartedGrantedWork(st)
    BY <2>1 DEF StopsNow, dialogueStopReason, hasUnstartedGrantedWork
  <2> QED
    BY <1>1, <2>1, <2>2 DEF Finished
<1>4. CASE produceResult
  <2> DEFINE v == IF validateSelectedResult(st) THEN "valid" ELSE "invalid"
  <2>1. /\ pc = "success" /\ st.validation = "none" /\ Goto("success")
        /\ Log(ResultProduced(st, v))
    BY <1>4 DEF produceResult, At
  <2>2. v \in {"valid", "invalid"} /\ (v = "valid" => validateSelectedResult(st))
    OBVIOUS
  <2> HIDE DEF v
  <2>3. Accepted /\ Validates(v)
    BY <1>1, <1>3, <2>1, <2>2, LogValidates
  <2>4. Effect
    BY <2>2, <2>3 DEF Effect
  <2>5. SameLife /\ SameTerminal /\ SameTalk /\ SameTurn /\ SameGrant /\ SameAccount
    BY <2>3 DEF Validates
  <2>6. /\ (st.started <=> st'.started) /\ (Finished' <=> Finished) /\ (Active(st)' <=> Active(st))
        /\ (StopsNow' <=> StopsNow) /\ (childrenDone' <=> childrenDone)
    BY <1>1, <2>5, KnownSame, StopSame, DoneSame DEF SameAccount
  <2>7. Knows("success")'
    BY <1>1, <1>3, <2>1, <2>6 DEF Knows
  <2> QED
    BY <1>1, <2>1, <2>3, <2>4, <2>7, GotoStep DEF Labels
<1>5. CASE finishSuccess
  <2>1. pc = "success" /\ pc # "idle"
    BY <1>5 DEF finishSuccess, At
  <2>2. CASE st.validation = "valid" /\ Log(SessionFinished(st, "completed")) /\ Return
    <3>1. Accepted /\ Ends("completed")
      BY <1>1, <1>3, <2>1, <2>2, LogEnds
    <3> QED
      BY <1>1, <2>2, <3>1, ReturnStep DEF Effect
  <2>3. CASE st.validation = "invalid" /\ finishFailure
    BY <1>1, <2>1, <2>3, FailureStep
  <2> QED
    BY <1>5, <2>2, <2>3 DEF finishSuccess
<1> QED
  BY <1>2, <1>4, <1>5

\* The end of an operator's command that starts no run, or of one that does.
LEMMA CommandStep ==
  ASSUME IInv, Idle, Accepted, Effect, NEW l \in {"idle", "loop"}, pc' = l,
         l = "loop" => st'.started /\ ~Finished'
  PROVE  Step /\ Control'
<1>1. Typed /\ plan' = plan /\ KidsStep /\ ~cancelled /\ cancelled' = cancelled
  BY KidsSame DEF Idle, At, IInv, Control
<1>3. cancelled' \in BOOLEAN /\ (cancelled' => l # "idle")
  BY <1>1 DEF Typed
<1>2. Knows(l)'
  BY DEF Knows
<1> QED
  BY <1>1, <1>2, <1>3, Assemble DEF Labels

\* A session that is not started has nothing granted and is not finished.
LEMMA NotFinished ==
  ASSUME IInv, ~st.started
  PROVE  st.terminal = "none"
  BY DEF IInv, Schedule

\* The operator's commands.
LEMMA OperatorActions ==
  ASSUME IInv, Operator
  PROVE  Step /\ Control'
<1>1. Typed /\ plan \in Plans
  BY DEF IInv, Typed
<1>2. ASSUME NEW x \in Provisions(plan), Provision(x) PROVE Step /\ Control'
  <2>1. Accepted /\ Readies /\ Idle /\ pc' = "idle"
    BY <1>1, <1>2, LogProvision DEF Provision, Idle, At
  <2>2. Effect
    BY <2>1 DEF Effect
  <2> QED
    BY <2>1, <2>2, CommandStep
<1>3. CASE Run
  <2>1. Accepted /\ Readies /\ st'.started /\ Idle /\ pc' = "loop" /\ st.terminal = "none"
    BY <1>1, <1>3, LogStart, NotFinished DEF Run
  <2>2. Effect /\ ~Finished'
    BY <2>1 DEF Effect, Readies, SameTerminal, Finished
  <2> QED
    BY <2>1, <2>2, CommandStep
<1>4. ASSUME NEW p \in Prompts, st.started, Log(SteeringQueued(st, p))
      PROVE  Accepted /\ Effect /\ st'.started /\ (Finished' <=> Finished)
  <2>1. Accepted /\ Queues(p)
    BY <1>1, <1>4, LogQueues
  <2>2. Effect /\ SameButSteering
    BY <2>1 DEF Effect, Queues
  <2> QED
    BY <1>4, <2>1, <2>2, KnownSame DEF SameButSteering, Finished, hasUnstartedGrantedWork, SameLife,
       SameTerminal, SameTalk, SameGrant
<1>5. ASSUME NEW p \in Prompts \cup {None}, resume(p) PROVE Step /\ Control'
  <2>1. Idle /\ st.started /\ ~Finished /\ pc' = "loop"
    BY <1>5 DEF resume
  <2>2. CASE p = None
    <3>1. Accepted /\ Effect /\ Unmoved
      BY <1>1, <1>5, <2>2, SilentStep DEF resume
    <3>2. plan' = plan
      BY <2>1 DEF Idle, At
    <3>3. st'.started /\ ~Finished'
      BY <2>1, <3>1, <3>2 DEF Unmoved, Finished, hasUnstartedGrantedWork
    <3> QED
      BY <2>1, <3>1, <3>3, CommandStep
  <2>3. CASE p # None
    <3>1. Accepted /\ Effect /\ st'.started /\ ~Finished'
      BY <1>4, <1>5, <2>1, <2>3 DEF resume
    <3> QED
      BY <2>1, <3>1, CommandStep
  <2> QED BY <2>2, <2>3
<1>6. ASSUME NEW p \in Prompts \cup {None}, NEW n \in 1..Bounds(plan).granted, grantTurns(p, n)
      PROVE  Step /\ Control'
  <2>1. Idle /\ st.started /\ pc' = "loop" /\ plan' = plan
    BY <1>6 DEF grantTurns, Idle, At
  <2>2. CASE isExactPromptedTurnBudgetRetry(st, n, p)
    <3>1. Accepted /\ Effect /\ Unmoved
      BY <1>1, <1>6, <2>2, SilentStep DEF grantTurns
    <3>2. ~Finished
      BY <2>2 DEF isExactPromptedTurnBudgetRetry, Finished
    <3>3. st'.started /\ ~Finished'
      BY <2>1, <3>1, <3>2 DEF Unmoved, Finished, hasUnstartedGrantedWork
    <3> QED
      BY <2>1, <3>1, <3>3, CommandStep
  <2>3. CASE ~isExactPromptedTurnBudgetRetry(st, n, p)
    <3>1. turnBudgetGrantApplicable(st) /\ Log(TurnBudgetGranted(st, n, p))
      BY <1>6, <2>3 DEF grantTurns
    <3>2. n \in Nat \ {0}
      BY <1>1, BoundsAssumption
    <3>3. Accepted /\ Grants(n, p)
      BY <1>1, <2>1, <3>1, <3>2, LogGrants
    <3>4. Effect
      BY <3>2, <3>3 DEF Effect
    <3>5. st'.started /\ ~Finished'
      <4>1. st.granted \in Nat
        BY <1>1, Numbers
      <4>2. /\ st'.granted > 0 /\ st'.atGrant = Len(st.conv) /\ st'.conv = st.conv
            /\ st'.terminal = "completed" /\ st'.started
        BY <2>1, <3>2, <3>3, <4>1 DEF Grants, SameLife, SameTerminal, SameTalk,
                                      turnBudgetGrantApplicable
      <4> QED
        BY <4>2 DEF Finished, hasUnstartedGrantedWork
    <3> QED
      BY <2>1, <3>3, <3>4, <3>5, CommandStep
  <2> QED BY <2>2, <2>3
<1>7. ASSUME NEW p \in Prompts, QueueSteering(p) PROVE Step /\ Control'
  <2>1. Idle /\ st.started /\ pc' = "idle" /\ Log(SteeringQueued(st, p))
    BY <1>7 DEF QueueSteering, Idle, At
  <2> QED
    BY <1>4, <2>1, CommandStep
<1>8. ASSUME NEW id \in DOMAIN st.requests, ApproveChild(id) \/ RejectChild(id)
      PROVE  Step /\ Control'
  <2>1. /\ Idle /\ st.started /\ pc' = "idle" /\ id \in Undecided
        /\ admitChild(id) \/ rejectChild(id, "rejected")
    BY <1>8 DEF ApproveChild, RejectChild, mayDecide, Idle, At
  <2> QED
    BY <1>1, <2>1, DecideStep, CommandStep
<1> QED
  BY <1>2, <1>3, <1>5, <1>6, <1>7, <1>8 DEF Operator

\* The child sessions, the signals and the crashes leave the log as it is.
LEMMA OutsideActions ==
  ASSUME IInv,
         \/ Cancel \/ Crash \/ ChildSession \/ (\E id \in DOMAIN kids : childAnswered(id))
         \/ UNCHANGED vars
  PROVE  Step /\ Control'
<1>1. /\ Typed /\ plan' = plan /\ Silent /\ Accepted /\ Effect /\ Unmoved
  <2>1. Typed /\ plan' = plan /\ Silent
    BY DEF IInv, Cancel, Crash, Stop, ChildSession, childRuns, childAnswered, vars, Silent
  <2> QED BY <2>1, SilentStep
<1>2. \A l \in Labels : Knows(l)' <=> Knows(l)
  BY <1>1, QuietKnows
<1>3. CASE Cancel
  <2>1. pc' = pc /\ pc # "idle" /\ pc \in Labels /\ cancelled' \in BOOLEAN /\ kids' = kids
    BY <1>1, <1>3 DEF Cancel, Stop, Typed
  <2> QED
    BY <1>1, <1>2, <2>1, KidsSame, Assemble DEF IInv, Control
<1>4. CASE Crash
  <2>1. Return
    BY <1>4 DEF Crash, Stop, Return
  <2> QED
    BY <1>1, <2>1, ReturnStep
<1>5. ASSUME pc' = pc, cancelled' = cancelled, KidsStep
      PROVE  Step /\ Control'
  BY <1>1, <1>2, <1>5, Assemble DEF IInv, Typed, Control
<1>6. CASE ChildSession
  <2>1. PICK id \in DOMAIN kids, how \in {"completed", "failed", "asking"} : childRuns(id, how)
    BY <1>6 DEF ChildSession
  <2> QED
    BY <1>5, <2>1 DEF childRuns, KidsStep, IInv, ChildrenInv
<1>7. ASSUME NEW id \in DOMAIN kids, childAnswered(id) PROVE Step /\ Control'
  BY <1>5, <1>7 DEF childAnswered, KidsStep, IInv, ChildrenInv
<1>8. CASE UNCHANGED vars
  BY <1>5, <1>8, KidsSame DEF vars
<1> QED
  BY <1>3, <1>4, <1>6, <1>7, <1>8

\* Every step has one of the effects, and leaves the runner where it may be.
LEMMA NextStep ==
  ASSUME IInv, [Next]_vars
  PROVE  Step /\ Control'
<1>1. CASE loopInterrupted
  BY <1>1, InterruptStep DEF loopInterrupted, At
<1>2. CASE backendFails \/ localFailure
  <2>1. /\ Knows(pc) /\ plan' = plan /\ Fail
        /\ pc \in {"call", "running", "reply", "static", "children"}
    BY <1>2 DEF IInv, Control, backendFails, localFailure, At
  <2>2. pc = "children" => ToDecide \cup Unfinished # {}
    BY <1>2 DEF backendFails, localFailure, At
  <2>3. Active(st) \/ ~childrenDone
    BY <2>1, <2>2 DEF Knows, childrenDone, ToDecide
  <2> QED
    BY <2>1, <2>3, FailStep
<1>3. CASE \E id \in DOMAIN st.requests : childUnrunnable(id)
  BY <1>3, ChildActions
<1> QED
  BY <1>1, <1>2, <1>3, TurnActions, ChildActions, StartStep, SuccessActions, OperatorActions,
     OutsideActions
     DEF Next, Runner, Fault

-----------------------------------------------------------------------------
(* The invariant.                                                          *)

\* A new session has it.
LEMMA EngineInit == Init => IInv
<1> SUFFICES ASSUME Init PROVE IInv
  OBVIOUS
<1>1. /\ plan \in Plans /\ st = newExecutionState /\ pc = "idle" /\ cancelled = FALSE
      /\ kids = <<>> /\ rejected = FALSE
  BY DEF Init
<1>2. st.requests = <<>> /\ DOMAIN st.requests = {} /\ DOMAIN kids = {}
  BY <1>1 DEF newExecutionState
<1>3. Typed
  <2>1. NoTurn \in TurnRec
    BY DEF NoTurn, TurnRec, Actors
  <2>2. /\ <<>> \in [{} -> Request] /\ NoLedger \in Ledger
        /\ NoGrant \in [turns : Nat, prompt : Prompts \cup {None}]
    BY DEF NoLedger, Ledger, NoGrant
  <2>3. newExecutionState \in State({})
    BY <2>1, <2>2 DEF newExecutionState, State, Phases, Text
  <2> QED
    BY <1>1, <1>2, <2>3 DEF Typed, Labels
<1>4. plan.turns \in Nat \ {0}
  BY <1>3, Numbers
<1>5. /\ st.turn = NoTurn /\ st.conv = <<>> /\ st.granted = 0 /\ st.atGrant = 0
      /\ st.terminal = "none" /\ st.phase = "participant" /\ st.validation = "none"
      /\ st.steering = <<>> /\ st.turn.role = "none" /\ st.turn.attempts = <<>>
      /\ st.childrenUsed = 0 /\ st.childTurns = 0
  BY <1>1 DEF newExecutionState, NoTurn
<1>6. TurnInv /\ Schedule
  BY <1>4, <1>5 DEF TurnInv, Schedule, Active, Budget, hasUnstartedGrantedWork
<1>7. Attempts /\ Steering
  BY <1>5 DEF Attempts, OneAnswer, Occurs, Steering, InHand
<1>8. Result
  BY <1>5 DEF Result
<1>9. Account
  <2>1. Dynamic = {}
    BY <1>2 DEF Dynamic
  <2>2. /\ IsFiniteSet(Dynamic) /\ Cardinality(Dynamic) = 0
    BY <2>1, FS_EmptySet
  <2>3. 0 * ChildTurns = 0 /\ plan.maxChildren \in Nat
    BY <1>3, ChildTurnsType
  <2> QED
    BY <1>5, <2>1, <2>2, <2>3 DEF Account
<1>10. ChildrenInv /\ Control
  BY <1>1, <1>2 DEF ChildrenInv, ChildAgrees, Control, Knows
<1> QED
  BY <1>3, <1>6, <1>7, <1>8, <1>9, <1>10 DEF IInv

\* A step keeps it.
LEMMA EngineStep == IInv /\ [Next]_vars => IInv'
<1> SUFFICES ASSUME IInv, [Next]_vars PROVE IInv'
  OBVIOUS
<1>1. Effect /\ KidsStep /\ plan' = plan /\ Typed' /\ Control'
  BY NextStep DEF Step
<1> QED
  BY <1>1, TurnStep, ScheduleStep, AttemptsStep, SteeringStep, ResultStep, AccountStep, ChildrenStep
     DEF IInv

\* Every history of a session keeps the invariant.
THEOREM EngineInvariant == Spec => []IInv
  BY EngineInit, EngineStep, PTL DEF Spec

\* What the runs check of types follows.
LEMMA TypesHold == IInv => TypeOK
<1> SUFFICES ASSUME IInv PROVE TypeOK
  OBVIOUS
<1>1. Typed /\ st.turn \in TurnRec /\ st.turn.attempts \in Seq(Attempt)
  BY Numbers DEF IInv
<1>2. Turn0(st.turn)
  <2>1. ASSUME NEW i \in DOMAIN st.turn.attempts
        PROVE  st.turn.attempts[i].outcome \in Outcomes
    <3>1. st.turn.attempts[i] \in Attempt
      BY <1>1
    <3> QED BY <3>1 DEF Attempt
  <2>2. st.turn.role \in Roles \/ st.turn = NoTurn
    BY <1>1, RoleOfTurn DEF IInv, Active
  <2> QED BY <1>1, <2>1, <2>2 DEF Turn0, TurnRec, Outcomes
<1>3. st.terminal \in {"none", "completed", "failed"} /\ st.phase \in Phases
  BY <1>1 DEF Typed, State
<1> QED
  BY <1>1, <1>2, <1>3 DEF TypeOK, IInv, Typed, Labels, Phases, Schedule, ChildrenInv, Control, Knows

\* The schedule keeps its bounds, and the runner is at a place of the code where
\* there is a turn when it needs one.
THEOREM EngineTypes == Spec => []TypeOK
  BY TypesHold, EngineInvariant, PTL

\* No history leads to a log that cannot be replayed, or to a runner whose loop
\* has nothing to do: NoNextTurn, an error in the code, is out of reach.
THEOREM NoSessionIsStuck == Spec => []NoDeadEnd
<1>1. IInv => NoDeadEnd
  <2> SUFFICES ASSUME IInv PROVE NoDeadEnd
    OBVIOUS
  <2>1. Len(st.conv) \in Nat /\ Budget(st) \in Nat
    BY Numbers DEF IInv
  <2>2. ~NoNextTurn
    BY <2>1 DEF IInv, NoNextTurn, Schedule
  <2> QED
    BY <2>2 DEF IInv, NoDeadEnd, NeverRejected, LoopHasWork, Typed, Control, Knows
<1> QED
  BY <1>1, EngineInvariant, PTL

\* At most one element of a set of positions is k or more: it has k at most.
LEMMA FewPositions ==
  ASSUME NEW S \in SUBSET (Nat \ {0}), NEW k \in Nat \ {0},
         \A i, j \in S : i >= k /\ j >= k => i = j
  PROVE  Cardinality(S) <= k
<1>1. IsFiniteSet(1..(k - 1)) /\ Cardinality(1..(k - 1)) = k - 1
  BY FS_Interval
<1>2. PICK x : \A i \in S : i >= k => i = x
  OBVIOUS
<1> DEFINE T == (1..(k - 1)) \cup {x}
<1>3. IsFiniteSet(T) /\ Cardinality(T) <= k /\ Cardinality(T) \in Nat
  <2>1. IsFiniteSet(T) /\ Cardinality(T) \in {k - 1, (k - 1) + 1}
    BY <1>1, FS_AddElement
  <2> QED BY <2>1
<1>4. S \in SUBSET T
  BY <1>2
<1>5. Cardinality(S) <= Cardinality(T) /\ IsFiniteSet(S)
  <2> HIDE DEF T
  <2> QED BY <1>3, <1>4, FS_Subset
<1>6. Cardinality(S) \in Nat
  BY <1>5, FS_CardinalityType
<1> HIDE DEF T
<1> QED
  BY <1>3, <1>5, <1>6

\* What a turn costs is accounted for, whatever crashes, cancellations and
\* resumes come between: max_attempts bounds its failures, and nothing is asked
\* again once it has an answer.
THEOREM TurnsCostWhatTheyMay == Spec => []AttemptsJustified
<1>1. IInv => AttemptsJustified
  <2> SUFFICES ASSUME IInv PROVE AttemptsJustified
    OBVIOUS
  <2>1. /\ st.turn.attempts \in Seq(Attempt) /\ plan.maxAttempts \in Nat \ {0}
    BY Numbers DEF IInv
  <2>2. Occurs(st.turn, "failed") \in SUBSET (Nat \ {0})
    BY <2>1 DEF Occurs
  <2>3. AttemptsBounded
    BY <2>1, <2>2, FewPositions DEF IInv, Attempts, AttemptsBounded
  <2> QED
    BY <2>3 DEF IInv, Attempts, AttemptsJustified
<1> QED
  BY <1>1, EngineInvariant, PTL

\* Prompts are taken in the order they were queued, one at a time, each by the
\* turn it was applied to.
THEOREM SteeringIsOrdered == Spec => []SteeringInOrder
<1>1. IInv => SteeringInOrder
  <2> SUFFICES ASSUME IInv PROVE SteeringInOrder
    OBVIOUS
  <2>1. Cardinality(InHand) <= 1
    <3>1. CASE InHand = {}
      BY <3>1, FS_EmptySet
    <3>2. CASE InHand # {}
      <4>1. PICK i \in InHand : TRUE
        BY <3>2
      <4>2. InHand = {i}
        BY <4>1 DEF IInv, Steering
      <4>3. Cardinality({i}) = 1
        BY FS_Singleton
      <4> QED BY <4>2, <4>3
    <3> QED BY <3>1, <3>2
  <2> QED
    BY <2>1 DEF IInv, Steering, SteeringInOrder, InHand
<1> QED
  BY <1>1, EngineInvariant, PTL

\* A session that completed has a result its format accepts and nothing left to
\* do, however often it was interrupted on the way.
THEOREM CompletionIsEarned == Spec => []CompletedMeansValid
<1>1. IInv => CompletedMeansValid
  BY DEF IInv, TurnInv, Result, CompletedMeansValid, childrenDone
<1> QED
  BY <1>1, EngineInvariant, PTL

\* A factor that grows.
LEMMA TimesGrows ==
  ASSUME NEW a \in Nat, NEW b \in Nat, NEW c \in Nat, a <= b
  PROVE  a * c <= b * c /\ a * c \in Nat /\ b * c \in Nat
  OBVIOUS

\* The policy bounds the children that requests get and what they cost, and a
\* request is recorded as completed only when its child session is.
THEOREM ChildrenAreAccounted == Spec => []ChildrenAccounted
<1>1. IInv => ChildrenAccounted
  <2> SUFFICES ASSUME IInv PROVE ChildrenAccounted
    OBVIOUS
  <2>1. /\ IsFiniteSet(Dynamic) /\ Cardinality(Dynamic) \in Nat /\ ChildTurns \in Nat
        /\ plan.maxTurns \in Nat
    BY ChildTurnsType, FS_CardinalityType DEF IInv, Account
  <2>2. ASSUME NEW S \in SUBSET Dynamic, NEW t \in {st.requests[id].turns : id \in S}
        PROVE  Cardinality(S) * t <= plan.maxTurns
    <3>1. t = ChildTurns /\ Dynamic # {}
      BY <2>2 DEF IInv, Account
    <3>2. Cardinality(S) <= Cardinality(Dynamic) /\ Cardinality(S) \in Nat
      BY <2>1, FS_Subset, FS_CardinalityType
    <3>3. Cardinality(Dynamic) * ChildTurns <= plan.maxTurns
      BY <3>1 DEF IInv, Account
    <3> DEFINE a == Cardinality(S)
               b == Cardinality(Dynamic)
               c == ChildTurns
    <3>4. a \in Nat /\ b \in Nat /\ c \in Nat /\ a <= b /\ b * c <= plan.maxTurns
      BY <2>1, <3>2, <3>3
    <3>5. a * t = a * c
      BY <3>1
    <3> HIDE DEF a, b, c
    <3>6. a * c <= b * c /\ a * c \in Nat /\ b * c \in Nat
      BY <3>4, TimesGrows
    <3>7. a * t <= plan.maxTurns
      BY <2>1, <3>4, <3>5, <3>6
    <3> QED BY <3>7 DEF a
  <2>3. ChildBudget
    BY <2>2 DEF ChildBudget, IInv, Account
  <2> QED
    BY <2>3 DEF ChildrenAccounted, IInv, ChildrenInv
<1> QED
  BY <1>1, EngineInvariant, PTL

-----------------------------------------------------------------------------
(* What a step may never do.                                               *)

\* A cancelled run records no failure that the cancellation could have caused.
THEOREM CancellationIsNoFailure == Spec => CancelRecordsNoFailure
<1> DEFINE Fails(s) == {id \in DOMAIN s.requests : s.requests[id].status = "failed"}
           A == cancelled => /\ st.terminal = "none" /\ st'.terminal = "failed"
                                  => st.validation = "invalid"
                             /\ Fails(st') = Failures
<1>1. IInv /\ [Next]_vars => [A]_vars
  <2> SUFFICES ASSUME IInv, [Next]_vars, cancelled PROVE A
    OBVIOUS
  <2>1. Effect /\ Typed
    BY NextStep DEF Step, IInv
  <2>2. st.requests \in [DOMAIN st.requests -> Request]
    BY <2>1 DEF Typed, State
  <2>3. st.terminal = "none" /\ st'.terminal = "failed" => st.validation = "invalid"
    BY <2>1 DEF Effect, Unmoved, Readies, Ends, TurnStarts, Tries, Marks, SameButAttempts, TurnEnds,
         Asks, Decides, Completes, SameButAccount, Queues, Applies, SameButSteering, Grants,
         Validates, SameTerminal
  <2>4. Fails(st') = Failures
    <3>1. CASE SameAccount
      BY <3>1 DEF SameAccount, Failures
    <3>2. ASSUME NEW id \in Ids, Asks(id) PROVE Fails(st') = Failures
      BY <2>2, <3>2 DEF Asks, Asked, Failures
    <3>3. ASSUME NEW id \in Ids, NEW verdict \in Verdicts, NEW turns \in Nat,
                 Decides(id, verdict, turns)
          PROVE  Fails(st') = Failures
      <4> DEFINE r == [st.requests[id] EXCEPT !.verdict = verdict, !.turns = turns]
      <4>1. id \in DOMAIN st.requests /\ st'.requests = [st.requests EXCEPT ![id] = r]
        BY <3>3 DEF Decides, Undecided
      <4>2. r.status = st.requests[id].status
        BY <2>2, <4>1 DEF Request
      <4> HIDE DEF r
      <4> QED
        BY <2>2, <4>1, <4>2 DEF Failures
    <3>4. ASSUME NEW id \in Ids, NEW status \in {"completed", "failed"},
                 NEW reply \in Reply \cup {None}, Completes(id, status, reply)
          PROVE  Fails(st') = Failures
      <4> DEFINE r == [st.requests[id] EXCEPT !.status = status, !.reply = reply]
      <4>1. /\ id \in DOMAIN st.requests /\ st'.requests = [st.requests EXCEPT ![id] = r]
            /\ st.requests[id].status # "failed" /\ status = "completed"
        BY <3>4 DEF Completes, Unfinished, Completed
      <4>2. r.status # "failed"
        BY <2>2, <4>1 DEF Request
      <4> HIDE DEF r
      <4> QED
        BY <2>2, <4>1, <4>2 DEF Failures
    <3>5. CASE Unmoved
      BY <3>5 DEF Unmoved, Failures
    <3> QED
      BY <2>1, <3>1, <3>2, <3>3, <3>4, <3>5
         DEF Effect, Readies, Ends, TurnStarts, Tries, Marks, SameButAttempts, TurnEnds, Queues,
             Applies, SameButSteering, Grants, Validates
  <2> QED
    BY <2>3, <2>4
<1> QED
  BY <1>1, EngineInvariant, PTL DEF Spec, CancelRecordsNoFailure

(* The conversation waits for its children.                                *)

\* What is owed in the middle of a turn was asked for by that turn: of a child
\* step, the request of its own child.  A child that ended was admitted.
Debts ==
  /\ \A id \in DOMAIN st.requests : Completed(st, id) => Admitted(st, id)
  /\ Owed # {} /\ Active(st) => \/ st.turn.role = "facilitator"
                                \/ st.turn.actor \in plan.static /\ Owed = {StaticId(st.turn)}

\* Nothing is owed exactly when the loop finds its children done.
LEMMA NothingOwed == Owed = {} <=> childrenDone
  BY DEF Owed, childrenDone

\* A step that changes no request keeps the debts, unless it starts a turn.
LEMMA DebtsSame ==
  ASSUME Debts, plan' = plan, st'.requests = st.requests,
         \/ st'.turn = NoTurn \/ Owed = {}
         \/ /\ st'.turn.actor = st.turn.actor /\ st'.turn.round = st.turn.round
            /\ st'.turn.role = st.turn.role /\ (Active(st)' => Active(st))
  PROVE  Debts'
  BY DEF Debts, Owed, Undecided, Unfinished, Failures, Decided, Admitted, Completed, Active, StaticId

\* A decision and a completion only pay.
LEMMA DebtsPaid ==
  ASSUME Typed, Debts, plan' = plan, SameTurn, NEW id \in DOMAIN st.requests, NEW q \in Request,
         st'.requests = [st.requests EXCEPT ![id] = q], id \in Undecided \cup Unfinished,
         q.status # "none" => q.verdict = "admitted"
  PROVE  Debts'
<1>1. DOMAIN st'.requests = DOMAIN st.requests /\ st'.requests[id] = q
      /\ \A x \in DOMAIN st.requests : x # id => st'.requests[x] = st.requests[x]
  BY DEF Typed, State
<1>2. \A x \in DOMAIN st'.requests : Completed(st', x) => Admitted(st', x)
  BY <1>1 DEF Debts, Completed, Admitted
<1>3. Owed' \subseteq Owed
  BY <1>1 DEF Owed, Undecided, Unfinished, Failures, Decided, Admitted, Completed
<1> QED
  BY <1>2, <1>3 DEF Debts, SameTurn, Active

\* A request is owed from now on, and by the turn that made it.
LEMMA DebtsMade ==
  ASSUME Debts, plan' = plan, NEW id, Asks(id)
  PROVE  Debts'
<1>1. /\ DOMAIN st'.requests = DOMAIN st.requests \cup {id} /\ id \notin DOMAIN st.requests
      /\ st'.requests[id] = Asked /\ SameTurn /\ MayAsk(id)
      /\ \A x \in DOMAIN st.requests : st'.requests[x] = st.requests[x]
  BY DEF Asks, SameButAccount
<1>2. \A x \in DOMAIN st'.requests : Completed(st', x) => Admitted(st', x)
  BY <1>1 DEF Debts, Completed, Admitted, Asked
<1>3. Owed' = Owed \cup {id}
  BY <1>1 DEF Owed, Undecided, Unfinished, Failures, Decided, Admitted, Completed, Asked
<1>4. id \notin Owed
  BY <1>1 DEF Owed, Undecided, Unfinished, Failures
<1> QED
  BY <1>1, <1>2, <1>3, <1>4 DEF Debts, SameTurn, Active, MayAsk, Asks

\* Every step keeps the debts.
LEMMA DebtsStep ==
  ASSUME IInv, Debts, [Next]_vars
  PROVE  Debts'
<1>1. Effect /\ plan' = plan /\ Typed
  BY NextStep DEF Step, IInv
<1>2. ASSUME NEW actor, NEW round, NEW role, TurnStarts(actor, round, role) PROVE Debts'
  BY <1>1, <1>2, NothingOwed, DebtsSame DEF TurnStarts, SameAccount
<1>3. CASE Tries \/ \E a \in Attempt : Marks(a)
  BY <1>1, <1>3, DebtsSame DEF Tries, Marks, SameButAttempts, SameAccount
<1>4. ASSUME NEW reply, TurnEnds(reply) PROVE Debts'
  BY <1>1, <1>4, DebtsSame DEF TurnEnds, SameAccount
<1>5. ASSUME NEW id \in Ids, NEW verdict \in Verdicts, NEW turns \in Nat,
             Decides(id, verdict, turns)
      PROVE  Debts'
  <2> DEFINE q == [st.requests[id] EXCEPT !.verdict = verdict, !.turns = turns]
  <2>1. /\ id \in Undecided /\ id \in DOMAIN st.requests /\ st.requests[id] \in Request
        /\ st'.requests = [st.requests EXCEPT ![id] = q] /\ SameTurn
    BY <1>1, <1>5 DEF Decides, SameButAccount, Undecided, Typed, State
  <2>2. q \in Request /\ q.status = "none"
    BY <2>1 DEF Request, Undecided, Decided, Admitted, Completed, Debts
  <2> HIDE DEF q
  <2> QED BY <1>1, <2>1, <2>2, DebtsPaid
<1>6. ASSUME NEW id \in Ids, NEW status \in {"completed", "failed"},
             NEW reply \in Reply \cup {None}, Completes(id, status, reply)
      PROVE  Debts'
  <2> DEFINE q == [st.requests[id] EXCEPT !.status = status, !.reply = reply]
  <2>1. /\ id \in Unfinished /\ id \in DOMAIN st.requests /\ st.requests[id] \in Request
        /\ st'.requests = [st.requests EXCEPT ![id] = q] /\ SameTurn
    BY <1>1, <1>6 DEF Completes, SameButAccount, Unfinished, Typed, State
  <2>2. q \in Request /\ q.verdict = "admitted"
    BY <2>1 DEF Request, Unfinished, Admitted
  <2> HIDE DEF q
  <2> QED BY <1>1, <2>1, <2>2, DebtsPaid
<1>7. CASE SameTurn /\ SameAccount
  BY <1>1, <1>7, DebtsSame DEF SameTurn, SameAccount, Active
<1> QED
  BY <1>1, <1>2, <1>3, <1>4, <1>5, <1>6, <1>7, DebtsMade
     DEF Effect, Unmoved, Readies, Ends, Queues, Applies, SameButSteering, Grants, Validates,
         SameTurn, SameAccount

\* From a request until its child has completed or is turned away, nobody
\* speaks, no reducer answers and nothing is validated, in whatever runs, after
\* whatever crashes: the only turn that can be unfinished then is the one that
\* asked, and that turn ends without a word of a participant or with the answer
\* of the child it waited for.
THEOREM TheConversationWaits == Spec => ConversationWaits
<1> DEFINE A == Owed # {} => UNCHANGED <<st.conv, st.result, st.validation>>
<1>1. Init => Debts
  BY DEF Init, newExecutionState, Debts, Active
<1>2. IInv /\ Debts /\ [Next]_vars => Debts'
  BY DebtsStep
<1>3. IInv /\ Debts /\ [Next]_vars => [A]_vars
  <2> SUFFICES ASSUME IInv, Debts, [Next]_vars, Owed # {}
               PROVE  UNCHANGED <<st.conv, st.result, st.validation>>
    OBVIOUS
  <2>1. Effect /\ ~childrenDone
    BY NextStep, NothingOwed DEF Step
  <2>2. ASSUME NEW reply, TurnEnds(reply)
        PROVE  UNCHANGED <<st.conv, st.result, st.validation>>
    <3>1. CASE st.turn.role = "facilitator"
      BY <2>2, <3>1 DEF TurnEnds, SameResult
    <3>2. CASE st.turn.actor \in plan.static /\ Owed = {StaticId(st.turn)}
      <4> DEFINE id == StaticId(st.turn)
      <4>1. st.requests[id].status = "completed" /\ id \in Owed
        BY <2>2, <3>2 DEF TurnEnds, TurnReply
      <4>2. id \in DOMAIN st.requests
        BY <4>1 DEF Owed, Undecided, Unfinished, Failures
      <4> QED
        BY <4>1, <4>2 DEF Debts, Owed, Undecided, Unfinished, Failures, Decided, Admitted, Completed
    <3> QED BY <2>2, <3>1, <3>2 DEF Debts, TurnEnds
  <2> QED
    BY <2>1, <2>2 DEF Effect, Unmoved, Readies, Ends, TurnStarts, Tries, Marks, SameButAttempts,
         Asks, Decides, Completes, SameButAccount, Queues, Applies, SameButSteering, Grants,
         Validates, SameTalk, SameResult
<1> QED
  BY <1>1, <1>2, <1>3, EngineInvariant, PTL DEF Spec, ConversationWaits

-----------------------------------------------------------------------------
(* The session keeps the promise of module Relay.                          *)

\* What a reader sees of a step that changes neither the talk, the terminal nor
\* the grants.
LEMMA UnseenStep ==
  ASSUME plan' = plan, st'.conv = st.conv, SameTerminal, SameGrant
  PROVE  UNCHANGED R!vars
<1>1. Budget(st)' = Budget(st) /\ plan.slots' = plan.slots
  BY DEF Budget, SameGrant
<1>2. hasUnstartedGrantedWork(st)' = hasUnstartedGrantedWork(st)
  BY DEF hasUnstartedGrantedWork, SameTerminal, SameGrant
<1> QED
  BY <1>1, <1>2 DEF R!vars, SameTerminal

\* A participant's turn ends: it speaks, in its turn and within the budget.
LEMMA SpeakStep ==
  ASSUME IInv, plan' = plan, NEW reply \in Reply, TurnEnds(reply), st.turn.role = "participant"
  PROVE  R!Speak
<1>1. /\ Len(st.conv) \in Nat /\ Typed /\ st.terminal = "none" /\ st'.terminal = "none"
      /\ st'.granted = st.granted /\ st'.atGrant = st.atGrant
  BY Numbers DEF IInv, TurnEnds, SameTerminal, SameGrant
<1>2. Len(st.conv) < Budget(st) /\ st.turn.actor = ParticipantActorForTurn(Len(st.conv) + 1)
  BY DEF IInv, TurnInv
<1>3. (Len(st.conv) + 1) - 1 = Len(st.conv)
  BY <1>1
<1>4. st.turn.actor = plan.slots[(Len(st.conv) % Len(plan.slots)) + 1]
  BY <1>2, <1>3, Zenon DEF ParticipantActorForTurn
<1>5. reply.text \in {"plain", "done", "marker", "blank"}
  BY DEF Reply, Text
<1>6. st'.conv = Append(st.conv, [actor |-> plan.slots[(Len(st.conv) % Len(plan.slots)) + 1],
                                  text |-> reply.text])
  BY <1>4, Zenon DEF TurnEnds
<1>7. /\ hasUnstartedGrantedWork(st) = FALSE /\ hasUnstartedGrantedWork(st)' = FALSE
      /\ Budget(st)' = Budget(st) /\ plan.slots' = plan.slots
  BY <1>1 DEF hasUnstartedGrantedWork, Budget
<1> QED
  BY <1>1, <1>2, <1>5, <1>6, <1>7, Zenon DEF R!Speak

\* session.finished: no grant is open by that alone.
LEMMA FinishStep ==
  ASSUME IInv, plan' = plan, NEW how \in {"completed", "failed"}, Ends(how)
  PROVE  R!Finish
<1>1. /\ st.terminal = "none" /\ st'.terminal = how /\ st'.conv = st.conv
      /\ st'.granted = st.granted /\ st'.atGrant = st.atGrant
  BY DEF Ends, SameTalk, SameGrant
<1>2. hasUnstartedGrantedWork(st) = FALSE
  BY <1>1 DEF hasUnstartedGrantedWork
<1>3. hasUnstartedGrantedWork(st)' = FALSE
  <2>1. ASSUME hasUnstartedGrantedWork(st)' PROVE FALSE
    <3>1. how = "completed" /\ st.granted > 0 /\ Len(st.conv) = st.atGrant
      BY <1>1, <2>1 DEF hasUnstartedGrantedWork
    <3>2. st.turn.role = "participant"
      BY <1>1, <3>1 DEF IInv, Schedule
    <3>3. Active(st)
      BY <3>2, RoleOfTurn DEF IInv, Roles
    <3>4. st.validation = "valid"
      BY <3>1 DEF Ends
    <3> QED
      BY <1>1, <3>3, <3>4 DEF IInv, Result
  <2> QED BY <2>1 DEF hasUnstartedGrantedWork
<1>4. Budget(st)' = Budget(st) /\ plan.slots' = plan.slots
  BY <1>1 DEF Budget
<1> QED
  BY <1>1, <1>2, <1>3, <1>4 DEF R!Finish

\* turn_budget.granted: one grant at a time, and it adds turns.
LEMMA GrantStep ==
  ASSUME IInv, plan' = plan, NEW n \in Nat, NEW p \in Prompts \cup {None}, Grants(n, p)
  PROVE  R!Grant
<1>1. /\ st.granted \in Nat /\ plan.turns \in Nat /\ n > 0
  BY Numbers DEF IInv, Grants
<1>2. /\ st.terminal = "completed" /\ st'.terminal = "completed" /\ ~hasUnstartedGrantedWork(st)
      /\ st'.conv = st.conv /\ st'.granted = st.granted + n /\ st'.atGrant = Len(st.conv)
  BY DEF Grants, SameTerminal, SameTalk, turnBudgetGrantApplicable, hasScheduledWorkOutstanding
<1>3. hasUnstartedGrantedWork(st)' = TRUE
  BY <1>1, <1>2 DEF hasUnstartedGrantedWork
<1>4. Budget(st)' \in Nat /\ Budget(st)' > Budget(st) /\ plan.slots' = plan.slots
  BY <1>1, <1>2 DEF Budget
<1> QED
  BY <1>2, <1>3, <1>4 DEF R!Grant

\* turn.started: of a session that is open, which nobody sees, or of one that
\* was granted turns, which opens again.
LEMMA ReopenStep ==
  ASSUME plan' = plan, NEW actor, NEW round, NEW role, TurnStarts(actor, round, role)
  PROVE  R!Reopen \/ UNCHANGED R!vars
<1>1. st'.terminal = "none" /\ st'.conv = st.conv /\ SameGrant
  BY DEF TurnStarts, SameTalk
<1>2. CASE st.terminal = "none"
  BY <1>1, <1>2, UnseenStep DEF SameTerminal
<1>3. CASE hasUnstartedGrantedWork(st)
  <2>1. hasUnstartedGrantedWork(st)' = FALSE
    BY <1>1 DEF hasUnstartedGrantedWork
  <2>2. Budget(st)' = Budget(st) /\ plan.slots' = plan.slots
    BY <1>1 DEF Budget, SameGrant
  <2> QED
    BY <1>1, <1>3, <2>1, <2>2 DEF R!Reopen
<1> QED
  BY <1>2, <1>3 DEF TurnStarts

\* Whatever happens to the processes that run it, a session is a relay: the
\* participants speak in order and within the budget, nothing said is unsaid,
\* and only granted turns open it again.
THEOREM RelayRefined == Spec => ImplementsRelay
<1>1. Init => R!Init
  <2> SUFFICES ASSUME Init PROVE R!Init
    OBVIOUS
  <2>1. Typed
    BY EngineInit DEF IInv
  <2>2. plan.slots # <<>> /\ plan.turns \in Nat \ {0}
    BY <2>1, Numbers, PlanAssumption DEF Typed, ValidPlan
  <2>3. st.conv = <<>> /\ st.terminal = "none" /\ st.granted = 0
    BY DEF Init, newExecutionState
  <2>4. hasUnstartedGrantedWork(st) = FALSE /\ Budget(st) \in Nat \ {0}
    BY <2>2, <2>3 DEF hasUnstartedGrantedWork, Budget
  <2> QED
    BY <2>2, <2>3, <2>4 DEF R!Init
<1>2. IInv /\ [Next]_vars => [R!Next]_(R!vars)
  <2> SUFFICES ASSUME IInv, [Next]_vars PROVE [R!Next]_(R!vars)
    OBVIOUS
  <2>1. Effect /\ plan' = plan
    BY NextStep DEF Step
  <2>2. CASE st'.conv = st.conv /\ SameTerminal /\ SameGrant
    BY <2>1, <2>2, UnseenStep
  <2>3. ASSUME NEW how \in {"completed", "failed"}, Ends(how) PROVE R!Next
    BY <2>1, <2>3, FinishStep DEF R!Next
  <2>4. ASSUME NEW actor, NEW round, NEW role, TurnStarts(actor, round, role)
        PROVE  R!Next \/ UNCHANGED R!vars
    BY <2>1, <2>4, ReopenStep DEF R!Next
  <2>5. ASSUME NEW reply \in Reply, TurnEnds(reply) PROVE [R!Next]_(R!vars)
    <3>1. CASE st.turn.role = "participant"
      BY <2>1, <2>5, <3>1, SpeakStep DEF R!Next
    <3>2. CASE st.turn.role # "participant"
      BY <2>2, <2>5, <3>2 DEF TurnEnds
    <3> QED BY <3>1, <3>2
  <2>6. ASSUME NEW n \in Nat, NEW p \in Prompts \cup {None}, Grants(n, p) PROVE R!Next
    BY <2>1, <2>6, GrantStep DEF R!Next
  <2> QED
    BY <2>1, <2>2, <2>3, <2>4, <2>5, <2>6
       DEF Effect, Unmoved, Readies, Tries, Marks, SameButAttempts, Asks, Decides, Completes,
           SameButAccount, Queues, Applies, SameButSteering, Validates, SameTalk, SameTerminal,
           SameGrant
<1> QED
  BY <1>1, <1>2, EngineInvariant, PTL DEF Spec, ImplementsRelay, R!Spec
=============================================================================
