---------------------------- MODULE MCTransport ----------------------------
(* Transport for TLC: calls that are no notices are interchangeable.         *)
EXTENDS Transport, TLC

Symmetry == Permutations(Calls \ Notices)

\* Without what neither the actions nor the properties of the safety run depend on:
\* the error a call failed with, why the loop ended and how many ids were retired.
Behaviour ==
  <<[c \in Calls |-> IF call[c].answer \in Answers \ {"result"} THEN "failed"
                     ELSE ToString(call[c])],
    commands, handle, loop, incoming, events, seen, nextId, pending, retired,
    unusable, told, owner, childVars>>
============================================================================
