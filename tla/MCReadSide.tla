----------------------------- MODULE MCReadSide -----------------------------
(* Small plans, replies and bounds for TLC.                                *)
EXTENDS ReadSide

Base == [kind |-> "dialogue", turns |-> 2, slots |-> <<"a", "b">>, cadence |-> 0,
         reducer |-> FALSE, fromReducer |-> FALSE, converge |-> FALSE, maxAttempts |-> 2,
         accepts |-> {"plain"},
         mode |-> "deny", maxChildren |-> 0, maxTurns |-> 0, recipeTurns |-> 1,
         static |-> {}, resume |-> TRUE, steering |-> FALSE]

Say(t)     == [text |-> t, ledger |-> NoLedger, parses |-> FALSE, strict |-> FALSE,
               reads |-> FALSE]
Find(c, s) == [text |-> "plain", ledger |-> [contested |-> c, resolved |-> FALSE],
               parses |-> TRUE, strict |-> s, reads |-> s]

\* A step of a sequence that is a child, before a reducer that may be called
\* again; requests that an operator decides; a session that gets more turns;
\* an actor that speaks twice and may lose an attempt each time.
Step == [Base EXCEPT !.kind = "sequence", !.turns = 1, !.slots = <<"c">>, !.static = {"c"},
                     !.reducer = TRUE, !.fromReducer = TRUE]
Ask  == [Base EXCEPT !.cadence = 2, !.maxAttempts = 1,
                     !.mode = "ask", !.maxChildren = 1, !.maxTurns = 1]
Talk == [Base EXCEPT !.turns = 1, !.maxAttempts = 1]
Again == [Base EXCEPT !.kind = "sequence", !.slots = <<"a", "a">>]

ReadPlans == {Step, Ask, Talk, Again}

ReplyTo(p, role) ==
  IF p = Ask
  THEN IF role = "facilitator" THEN {Find({"x"}, TRUE), Find({"x"}, FALSE)} ELSE {Say("plain")}
  ELSE IF p = Again THEN {Say("plain")}
  ELSE {Say("plain"), Say("marker")}

TalkOnly  == {Talk}
Nothing(p) == {}
Limits(p)  == [granted |-> IF p = Talk THEN 1 ELSE 0, steering |-> 0,
               stops |-> IF p = Again THEN 2 ELSE 1]
=============================================================================
