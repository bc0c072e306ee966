-------------------------- MODULE MCOpenRouterApp --------------------------
(* OpenRouterApp for TLC. Ids are handed out in order and need no symmetry.  *)
EXTENDS OpenRouterApp
============================================================================
