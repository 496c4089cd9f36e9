------------------------------- MODULE Relay --------------------------------
(***************************************************************************)
(* What a session promises the people who read it, whatever happens to     *)
(* the processes that run it: the participants speak in the order of the   *)
(* plan and within the turns they have, nothing said is unsaid, a failed   *)
(* session stays failed, and a completed one opens again only for turns an *)
(* operator granted, one grant at a time.                                  *)
(***************************************************************************)
EXTENDS Integers, Sequences

VARIABLES slots,    \* the plan's order of participants
          said,     \* the conversation: who said what
          status,   \* "none" while the session is open
          budget,   \* participant turns it may take
          owed      \* a grant of which no turn has started

vars == <<slots, said, status, budget, owed>>

Init == /\ slots # <<>> /\ said = <<>> /\ status = "none"
        /\ budget \in Nat \ {0} /\ owed = FALSE

Speak ==
  /\ status = "none" /\ Len(said) < budget
  /\ \E what \in {"plain", "done", "marker", "blank"} :
       said' = Append(said, [actor |-> slots[(Len(said) % Len(slots)) + 1], text |-> what])
  /\ UNCHANGED <<slots, status, budget, owed>>

Finish == /\ status = "none" /\ status' \in {"completed", "failed"}
          /\ UNCHANGED <<slots, said, budget, owed>>

Grant == /\ status = "completed" /\ ~owed /\ owed' = TRUE
         /\ budget' \in Nat /\ budget' > budget
         /\ UNCHANGED <<slots, said, status>>

Reopen == /\ owed /\ status' = "none" /\ owed' = FALSE
          /\ UNCHANGED <<slots, said, budget>>

Next == Speak \/ Finish \/ Grant \/ Reopen

Spec == Init /\ [][Next]_vars
=============================================================================
