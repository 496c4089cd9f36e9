------------------------------- MODULE Lease -------------------------------
(***************************************************************************)
(* What the writer lease promises to the event log: at any moment at most  *)
(* one process writes the session, and a lease that is given back, or      *)
(* whose owner dies, can be taken again.  WriterLease refines this module; *)
(* EventLog is written against it.                                         *)
(***************************************************************************)
CONSTANTS Writer,   \* processes that may open the event writer
          None      \* no process

VARIABLE holder     \* the process that owns the lease, or None

Init == holder = None

Acquire(w) == holder = None /\ holder' = w

\* Close, a failed OpenWriter, or the death of the owner.
Release(w) == holder = w /\ holder' = None

Next == \E w \in Writer : Acquire(w) \/ Release(w)

Spec == Init /\ [][Next]_holder
=============================================================================
