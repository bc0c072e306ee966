-------------------------- MODULE MCClaudeService --------------------------
(* ClaudeService for TLC: its constants are given by the configurations.     *)
EXTENDS ClaudeService
============================================================================
