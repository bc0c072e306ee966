------------------------------ MODULE SafeFile ------------------------------
(* One file kept safely: the API key (credentials/file.rs) or the            *)
(* preferences (persistence/file.rs), each replaced through a temporary file *)
(* that is written, synced and renamed over it before its directory is       *)
(* synced.  Instances of the program do not lock each other out, may die     *)
(* between any two of these steps, and the power may fail.                   *)
EXTENDS Integers, FiniteSets

CONSTANTS Instances,   \* running copies of the program
          MaxWrites,   \* bounds the contents ever written
          MaxFaults,   \* bounds failing system calls
          MaxLosses    \* bounds power losses

VARIABLES kind,       \* which file: "credential" or "preferences"
          target,     \* the contents of the file, 0 when there is none
          perhaps,    \* what a power loss may leave of the target
          data,       \* of each contents: "new", "part", "whole", "synced", "torn"
          temps,      \* the contents of the temporary files there are
          instance,   \* of each instance: where it is, and the contents it writes
          since,      \* what the target has been since a change was Verified
          faults, losses

vars == <<kind, target, perhaps, data, temps, instance, since, faults, losses>>
disk == <<target, perhaps, data, temps, since>>

Writes == 1 .. MaxWrites
None == 0

\* todo: the temporary files that opening the store has still to remove.
Off == [at |-> "off", n |-> None, result |-> "none", todo |-> {}]

Init ==
  /\ kind \in {"credential", "preferences"}
  /\ target = None /\ perhaps = {None} /\ since = {None}
  /\ data = [n \in Writes |-> "new"] /\ temps = {}
  /\ instance = [i \in Instances |-> Off]
  /\ faults = 0 /\ losses = 0

Works == UNCHANGED <<kind, faults, losses>>
Fails == faults < MaxFaults /\ faults' = faults + 1 /\ UNCHANGED <<kind, losses>>
Enters(i, at, n) == instance' = [instance EXCEPT ![i] = [Off EXCEPT !.at = at, !.n = n]]
Goes(i, at) == instance' = [instance EXCEPT ![i].at = at]
Refuses(i) == instance' = [instance EXCEPT ![i].n = None, ![i].result = "error"]
Returns(i, result) == instance' = [instance EXCEPT ![i].at = "idle", ![i].result = result]
-----------------------------------------------------------------------------
(* Opening the store.  That of the key removes the temporary files it finds: *)
(* what earlier instances left, and what another one is about to rename.     *)
Start(i) ==
  /\ instance[i].at = "off"
  /\ instance' = [instance EXCEPT ![i] =
       IF kind = "credential" THEN [Off EXCEPT !.at = "clean", !.todo = temps]
                              ELSE [Off EXCEPT !.at = "idle"]]
  /\ UNCHANGED disk /\ Works

\* cleanup_orphans: one file after the other; one that cannot be removed, or
\* has gone since the directory was read, keeps the store from opening.
CleanOne(i) ==
  /\ instance[i].at = "clean"
  /\ \E n \in instance[i].todo :
       \/ /\ n \in temps /\ temps' = temps \ {n}
          /\ instance' = [instance EXCEPT ![i].todo = @ \ {n}] /\ Works
       \/ n \notin temps /\ Goes(i, "off") /\ UNCHANGED temps /\ Works
       \/ Goes(i, "off") /\ UNCHANGED temps /\ Fails
  /\ UNCHANGED <<target, perhaps, data, since>>

\* The sync of the cleaned directory may fail unnoticed.
CleanEnds(i) ==
  /\ instance[i].at = "clean" /\ instance[i].todo = {}
  /\ Goes(i, "idle")
  /\ \/ perhaps' = {target} /\ Works
     \/ UNCHANGED perhaps /\ Fails
  /\ UNCHANGED <<target, data, temps, since>>
-----------------------------------------------------------------------------
(* replace_with_commit, save_with_commit.                                    *)

\* What is there is checked, and a temporary file is made.
CreateTemp(i) ==
  /\ instance[i].at = "idle"
  /\ \/ \E n \in Writes :
          /\ data[n] = "new" /\ \A m \in 1 .. n - 1 : data[m] # "new"
          /\ temps' = temps \cup {n} /\ data' = [data EXCEPT ![n] = "part"]
          /\ Enters(i, "write", n)
          /\ Works
     \/ Refuses(i) /\ UNCHANGED <<temps, data>> /\ Fails
  /\ UNCHANGED <<target, perhaps, since>>

Step(i, at, next, state) ==
  /\ instance[i].at = at
  /\ \/ Goes(i, next) /\ data' = [data EXCEPT ![instance[i].n] = state] /\ Works
     \/ Goes(i, "remove") /\ UNCHANGED data /\ Fails
  /\ UNCHANGED <<target, perhaps, temps, since>>

WriteTemp(i) == Step(i, "write", "sync", "whole")

\* Mutant: the contents are not synced before the rename.
SyncTempLazily(i) == Step(i, "sync", "rename", "whole")
SyncTemp(i) == Step(i, "sync", "rename", "synced")

\* The rename fails as well when another instance has removed the file.
Rename(i) ==
  LET n == instance[i].n IN
  /\ instance[i].at = "rename"
  /\ \/ /\ n \in temps
        /\ target' = n /\ perhaps' = perhaps \cup {n} /\ since' = since \cup {n}
        /\ temps' = temps \ {n} /\ Goes(i, "sync directory") /\ Works
     \/ /\ n \notin temps
        /\ Goes(i, "remove") /\ UNCHANGED <<target, perhaps, since, temps>> /\ Works
     \/ Goes(i, "remove") /\ UNCHANGED <<target, perhaps, since, temps>> /\ Fails
  /\ UNCHANGED data

\* A failure before the rename: the file that was made is removed, if possible.
RemoveTemp(i) ==
  LET n == instance[i].n IN
  /\ instance[i].at = "remove" /\ Returns(i, "error")
  /\ \/ temps' = temps \ {n} /\ Works
     \/ UNCHANGED temps /\ Fails
  /\ UNCHANGED <<target, perhaps, data, since>>

\* The directory is synced; if that fails, what is there is read back.
SyncDirectory(i) ==
  /\ instance[i].at = "sync directory"
  /\ \/ perhaps' = {target} /\ since' = {target} /\ Returns(i, "Verified") /\ Works
     \/ Goes(i, "read back") /\ UNCHANGED <<perhaps, since>> /\ Fails
  /\ UNCHANGED <<target, data, temps>>

\* Mutant: a failed sync is an error, whatever the file holds.
ReadBackUnlooked(i) ==
  /\ instance[i].at = "read back" /\ Returns(i, "error")
  /\ UNCHANGED disk /\ Works

\* It may be what another instance has put there.  When the read fails as well,
\* the caller gets the same error, told apart here as "unread".
ReadBack(i) ==
  /\ instance[i].at = "read back"
  /\ \/ /\ Returns(i, IF target = instance[i].n THEN "CommittedUnverified" ELSE "error")
        /\ Works
     \/ Returns(i, "unread") /\ Fails
  /\ UNCHANGED disk
-----------------------------------------------------------------------------
(* delete_with_commit: of the key only.                                      *)
Delete(i) ==
  /\ instance[i].at = "idle" /\ kind = "credential"
  /\ \/ target = None /\ Returns(i, "Verified")
        /\ UNCHANGED <<target, perhaps, since>> /\ Works
     \/ /\ target # None
        /\ target' = None /\ perhaps' = perhaps \cup {None} /\ since' = since \cup {None}
        /\ Enters(i, "sync directory", None)
        /\ Works
     \/ Refuses(i) /\ UNCHANGED <<target, perhaps, since>> /\ Fails
  /\ UNCHANGED <<data, temps>>
-----------------------------------------------------------------------------
Crash(i) ==
  /\ instance[i].at # "off" /\ Goes(i, "off")
  /\ UNCHANGED disk /\ Works

\* The directory may lose its last changes, and a file what was not synced.
PowerLoss ==
  /\ losses < MaxLosses /\ losses' = losses + 1
  /\ target' \in perhaps /\ perhaps' = {target'} /\ since' = {target'}
  /\ temps' \in SUBSET temps
  /\ data' = [n \in Writes |-> IF data[n] \in {"part", "whole"} THEN "torn" ELSE data[n]]
  /\ instance' = [i \in Instances |-> Off]
  /\ UNCHANGED <<kind, faults>>

Next ==
  \/ \E i \in Instances :
       \/ Start(i) \/ CleanOne(i) \/ CleanEnds(i)
       \/ CreateTemp(i) \/ WriteTemp(i) \/ SyncTemp(i) \/ Rename(i) \/ RemoveTemp(i)
       \/ SyncDirectory(i) \/ ReadBack(i) \/ Delete(i) \/ Crash(i)
  \/ PowerLoss

Spec == Init /\ [][Next]_vars
-----------------------------------------------------------------------------
(* Properties.                                                               *)

\* Whoever dies when, the file and what a power loss may leave of it is none or
\* one complete value: never a part of one.
NeverTorn == \A n \in perhaps \cup {target} : n # None => data[n] = "synced"

\* A change reported as Verified outlives a power loss: what may be left is it
\* or what came after it.
VerifiedSurvives == perhaps \subseteq since

\* What was reported as failed is not what the file holds, unless neither the
\* sync of the directory nor the read after it has worked ("unread"): the error
\* is then one for a change that is in place.
FailureChangesNothing ==
  \A i \in Instances :
    instance[i].result = "error" /\ instance[i].n # None => target # instance[i].n

\* All three: replacing the key or the preferences is safe.
FileIsSafe == NeverTorn /\ VerifiedSurvives /\ FailureChangesNothing
=============================================================================
