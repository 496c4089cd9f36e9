---------------------------- MODULE MCWriterLease ---------------------------
(* Three calls into the lease, two of them in one process.                 *)
EXTENDS WriterLease, TLC

CONSTANTS a1, a2, a3, p1, p2

MCProcOf == (a1 :> p1) @@ (a2 :> p1) @@ (a3 :> p2)
=============================================================================
