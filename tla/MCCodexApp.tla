----------------------------- MODULE MCCodexApp -----------------------------
(* CodexApp for TLC. Accounts are interchangeable; ids are handed out in order. *)
EXTENDS CodexApp, TLC

Symmetry == Permutations(Accounts)
============================================================================
