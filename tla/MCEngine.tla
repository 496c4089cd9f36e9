------------------------------ MODULE MCEngine ------------------------------
(* Small plans, replies and bounds for TLC.                                *)
EXTENDS Engine

Base == [kind |-> "dialogue", turns |-> 2, slots |-> <<"a", "b">>, cadence |-> 0,
         reducer |-> FALSE, fromReducer |-> FALSE, converge |-> FALSE, maxAttempts |-> 2,
         accepts |-> {"plain", "done", "marker"},
         mode |-> "deny", maxChildren |-> 0, maxTurns |-> 0, recipeTurns |-> 1,
         static |-> {}, resume |-> TRUE, steering |-> TRUE]

Say(t)     == [text |-> t, ledger |-> NoLedger, parses |-> FALSE, strict |-> FALSE,
               reads |-> FALSE]
Find(c, r) == [text |-> "plain", ledger |-> [contested |-> c, resolved |-> r],
               parses |-> TRUE, strict |-> TRUE, reads |-> TRUE]

\* A dialogue with every control, one that its provider may not retry, a
\* sequence with a reducer.
Controls == {
  [Base EXCEPT !.turns = 1, !.cadence = 1, !.reducer = TRUE, !.fromReducer = TRUE],
  [Base EXCEPT !.converge = TRUE, !.maxAttempts = 1, !.steering = FALSE],
  [Base EXCEPT !.kind = "sequence", !.turns = 1, !.slots = <<"a">>, !.reducer = TRUE, !.accepts = {"plain"}] }

\* A facilitator that asks the operator for children; one whose children are
\* admitted within limits and which may converge; child steps in a sequence.
Parents == {
  [Base EXCEPT !.cadence = 1, !.steering = FALSE, !.mode = "ask", !.maxChildren = 1, !.maxTurns = 2],
  [Base EXCEPT !.turns = 5, !.cadence = 2, !.converge = TRUE, !.steering = FALSE,
               !.mode = "allow", !.maxChildren = 2, !.maxTurns = 1],
  [Base EXCEPT !.kind = "sequence", !.static = {"b"}, !.steering = FALSE, !.mode = "ask",
               !.maxChildren = 1, !.maxTurns = 1] }

EnginePlans == Controls \cup Parents

\* A dialogue that may converge before its reducer; one with a child step and
\* room for one child.
ReducerPlans == {[Base EXCEPT !.converge = TRUE, !.reducer = TRUE, !.fromReducer = TRUE]}
StepPlans    == {[Base EXCEPT !.cadence = 2, !.static = {"b"}, !.mode = "allow",
                              !.maxChildren = 1, !.maxTurns = 2]}

Findings == {Find({"x"}, FALSE), Find({"x", "y"}, FALSE), Find({}, TRUE)}

ReplyTo(p, role) ==
  IF p.mode = "deny" THEN {Say("plain"), Say("marker")}
  ELSE {Say("plain")} \cup (IF role = "facilitator" THEN Findings ELSE {})

Inputs(p) == IF p \in Parents THEN {"input"} ELSE {}

Limits(p) ==
  IF p \in Controls THEN [granted |-> IF p.kind = "sequence" THEN 2 ELSE 1,
                          steering |-> 2, stops |-> 1]
  ELSE [granted |-> 1, steering |-> 0, stops |-> 2]
Once(p)   == [granted |-> 0, steering |-> 0, stops |-> 2]
=============================================================================
