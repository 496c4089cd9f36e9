------------------------------- MODULE ReadSide -------------------------------
(***************************************************************************)
(* The commands that look at a session while others run it: show, doctor   *)
(* and export read the log and the writer lease of Engine's session and    *)
(* hold neither.  A command reads the log first and asks the lease later;  *)
(* to ask is to take the lease for a moment (ProbeWriterLease), and        *)
(* another command may be doing the same.                                  *)
(*                                                                         *)
(* Commands that only read do not meet the exporters: none of them sees    *)
(* what the other writes, so one kind is at work at a time.                *)
(***************************************************************************)
EXTENDS Views, PortableExport

CONSTANT Probers      \* other commands that ask for the lease

VARIABLES
  log,        \* the events of the session
  reader,     \* a command that shows the status
  probing,    \* the other commands that hold the lease to ask for it
  ends,       \* the ends that the session has come to, first or granted (history)
  past        \* the turns that are finished, as the engine left them (history)

rvars == <<vars, evars, log, reader, probing, ends, past>>

\* by: what the told status rests on, the log alone, an answer of the lease,
\* another command that was asking, or no answer.
Resting == [at |-> "off", read |-> 0, told |-> "none", truths |-> {}, by |-> "none"]

\* What the documentation calls the status of the session as it is now.  A
\* runner may still be at work when a proposal already waits.
Proposals == {id \in DOMAIN st.requests : mayDecide(id)}
TrueStatuses ==
  IF Finished THEN {PublicStatus(st.terminal, IF st.validation = "invalid" THEN "invalid_result" ELSE "other")}
  ELSE {how \in {"awaiting_decision", "running", "interrupted"} :
          \/ how = "awaiting_decision" /\ Proposals # {}
          \/ how = "running" /\ pc # "idle"
          \/ how = "interrupted" /\ pc = "idle" /\ Proposals = {}}

Ended == IF Finished THEN {[status |-> st.terminal, turns |-> Len(st.conv)]} ELSE {}

-----------------------------------------------------------------------------
(* The commands.                                                           *)

Quiet == UNCHANGED <<vars, evars, log, ends, past>>

\* What the command read; read is its length.
Read == SubSeq(log, 1, reader.read)

ReadLog ==
  /\ reader.at = "off" /\ temp = [e \in Exporter |-> Absent] /\ st.started
  /\ reader' = [Resting EXCEPT !.at = "read", !.read = Len(log), !.truths = TrueStatuses]
  /\ Quiet /\ UNCHANGED probing

Tell(status, by) ==
  /\ reader' = [reader EXCEPT !.at = "told", !.told = status, !.by = by]
  /\ Quiet /\ UNCHANGED probing

TellFromLog == reader.at = "read" /\ ~NeedsProbe(Read) /\ Tell(Status(Read), "log")

\* The lease is held by a runner, or by another command that asks for it; or
\* it cannot be asked at all.
Probe ==
  /\ reader.at = "read" /\ NeedsProbe(Read)
  /\ \/ pc # "idle" /\ Tell(Alive(Read, "locked"), "lease")
     \/ pc = "idle" /\ probing # {} /\ Tell(Alive(Read, "locked"), "other")
     \/ pc = "idle" /\ probing = {} /\ Tell(Alive(Read, "free"), "lease")
     \/ Tell(Alive(Read, "error"), "error")

Rest == reader.at = "told" /\ reader' = Resting /\ Quiet /\ UNCHANGED probing

ProbeBegins(p) ==
  /\ p \notin probing /\ probing = {} /\ pc = "idle" /\ st.started
  /\ probing' = {p} /\ Quiet /\ UNCHANGED reader

ProbeEnds(p) == p \in probing /\ probing' = probing \ {p} /\ Quiet /\ UNCHANGED reader

\* What v2ExportPortable takes from BuildReport.
Exported == LET r == BuildReport(log)
            IN [status |-> r.status, turns |-> r.turns, valid |-> ValidReport(r)]

Export == /\ reader = Resting /\ ENext(Exported) /\ UNCHANGED <<vars, log, reader, probing, ends, past>>

-----------------------------------------------------------------------------
(* The session goes on meanwhile; who wants to write it needs the lease.   *)

SessionStep ==
  /\ \/ Runner \/ Fault \/ Cancel \/ Crash \/ ChildSession
     \/ \E id \in DOMAIN kids : childAnswered(id)
     \/ probing = {} /\ Operator
  /\ log' = IF st' = st THEN log ELSE Append(log, Appended)
  /\ reader' = IF reader.at = "read" THEN [reader EXCEPT !.truths = @ \cup TrueStatuses'] ELSE reader
  /\ ends' = ends \cup Ended'
  /\ past' = IF Active(st) /\ ~Active(st') THEN Append(past, st.turn) ELSE past
  /\ UNCHANGED <<evars, probing>>

ReadInit == /\ Init /\ EInit /\ log = <<>> /\ reader = Resting /\ probing = {}
            /\ ends = {} /\ past = <<>>

ReadNext == \/ SessionStep \/ Export \/ ReadLog \/ TellFromLog \/ Probe \/ Rest
            \/ \E p \in Probers : ProbeBegins(p) \/ ProbeEnds(p)

ReadSpec == ReadInit /\ [][ReadNext]_rvars

-----------------------------------------------------------------------------
\* The readers change nothing, and nobody asks for a lease that is taken.
ReadTypeOK ==
  /\ TypeOK /\ reader.at \in {"off", "read", "told"}
  /\ reader.at # "off" => reader.read \in 1..Len(log)
  /\ probing # {} => pc = "idle"
  /\ target \in Directory \cup {Absent}
  /\ \A e \in Exporter : /\ temp[e] \in Directory \cup {Absent}
                         /\ (step[e] = "off") <=> (temp[e] = Absent)

Facilitated == \E i \in Indexes(log, {"turn.finished"}) :
                  log[i].actor = "facilitator" /\ log[i].reply.parses # log[i].reply.reads

\* What the views derive from the log is what the engine knows: the end, the
\* conversation, the budget, the unfinished turn, the requests and how each
\* one stands, the ledger unless a facilitator wrote more than a ledger or
\* less, and the verdict on the result.  From the first turn on the report is
\* valid.
ViewsAgree ==
  LET r    == BuildReport(log)
      g    == Graph(log)
      talk == Transcript(log)
      said == Those(talk, {i \in DOMAIN talk : talk[i].role = "participant"})
  IN /\ (endOf(log) # 0) <=> Finished
     /\ st.conv = [i \in DOMAIN said |-> [actor |-> said[i].actor, text |-> said[i].reply.text]]
     /\ r.maxRounds = Budget(st) /\ r.turns <= r.maxRounds
     /\ g.started = (IF Active(st) THEN {turnKey(st.turn)} ELSE {})
     /\ pendingChildren(log) = Undecided
     /\ DOMAIN proposals(log) = DOMAIN st.requests
     /\ \A id \in Unfinished : proposal(log, id) = "admitted"
     /\ \A id \in Failures : g.children[id] = "failed" /\ proposal(log, id) = "failed"
     /\ Cardinality(Occurs(st.turn, "failed")) <= r.failures
     /\ ~Facilitated => r.ledger = st.ledger
     /\ st.terminal = "completed" => r.validation = "validated"
     /\ st.result.by = "reducer" => r.reducerAttempts > 0
     /\ st.conv # <<>> => ValidReport(r)

Made(t) == {<<t.actor, n>> : n \in DOMAIN t.attempts}
Lost(t) == {<<t.actor, n>> : n \in Occurs(t, "none")}

\* The attempts that were lost in these turns, but for one whose actor made
\* an attempt of the same number in a later turn.
LostIn(turns) ==
  UNION {Lost(turns[i]) \ UNION {Made(turns[j]) : j \in (i + 1)..Len(turns)} : i \in DOMAIN turns}

\* The attempts that diagnostics call abandoned are those that the engine
\* never heard of again, in this turn or in any before, whatever crashes,
\* retries and grants came between.  The views know an attempt by its actor
\* and its number and not by its turn (attemptKey): what an earlier turn lost
\* is forgotten from the moment that a later turn of the actor makes the
\* attempt of that number, and nothing else is.
DiagnosticsTrue == abandonedAttempts(log) = LostIn(Append(past, st.turn))

\* The status that a command tells was true at some moment while it ran, if
\* the lease could be asked where it has to be.
StatusTrue == reader.at = "told" /\ reader.by # "error" => reader.told \in reader.truths

\* The status that a command tells was true at some moment while it ran, but
\* for four cases.  The session came to rest between the reading of the log
\* and the question for the lease; another command was asking for the lease;
\* a request is on its way that the policy decides and nobody else; the lease
\* could not be asked, and what the log says of a session that was running or
\* interrupted is told, be it the other of the two.
StatusTold ==
  reader.at = "told" =>
    \/ reader.told \in reader.truths
    \/ /\ reader.by = "lease" /\ reader.told = "interrupted"
       /\ "running" \in reader.truths /\ reader.truths \ {"running", "interrupted"} # {}
    \/ reader.by = "other" /\ reader.told = "running"
    \/ reader.by = "log" /\ reader.told = "awaiting_decision" /\ plan.mode # "ask"
    \/ /\ reader.by = "error" /\ reader.told \in {"running", "interrupted"}
       /\ reader.truths \cap {"running", "interrupted"} # {}

\* A published directory holds a session whole: as it was when it came to an
\* end, the last one or one before an operator granted it more turns.
BundleTrue ==
  target # Absent =>
    [status |-> target.session.status, turns |-> target.session.turns] \in ends
=============================================================================
