----------------------------- MODULE MCEventLog -----------------------------
(* Two processes that take turns, or fight, over one session.              *)
EXTENDS EventLog
=============================================================================
