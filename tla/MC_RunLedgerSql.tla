-------------------------- MODULE MC_RunLedgerSql ---------------------------
(* A run of one tenant, written to by two sessions that may act for either. *)
EXTENDS RunLedgerSql
MCRunTenant == [r \in Runs |-> IF r = "r1" THEN "t1" ELSE "t2"]
MCExpectations == 0 .. 2
=============================================================================
