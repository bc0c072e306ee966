---------------------------- MODULE MCClaudeApp ----------------------------
(* ClaudeApp for TLC: sessions are interchangeable, and so are aliases.      *)
EXTENDS ClaudeApp, TLC

\* What the system's steps depend on: everything but the text displayed and the
\* history, which a run that says nothing of them does not tell apart.
Behaviour == <<[app EXCEPT !.shown = {}], saved, effect, deaf, serviceVars>>

Symmetry == Permutations(Sessions) \cup Permutations(Aliases)
============================================================================
