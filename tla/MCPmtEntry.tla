----------------------------- MODULE MCPmtEntry -----------------------------
(* Model checking of PmtEntry: entries of one to three contracts.             *)
EXTENDS PmtEntry
=============================================================================
