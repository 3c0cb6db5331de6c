---------------------------- MODULE MCHealthChecks ----------------------------
(***************************************************************************)
(* The health checks with the table of all commands, AllCommands.            *)
(***************************************************************************)
EXTENDS HealthChecks
=============================================================================
