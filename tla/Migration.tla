------------------------------ MODULE Migration ------------------------------
(* The move of the application-data root from its old name to its new one at *)
(* startup (platform/migration.rs): inspect both names, rename without       *)
(* replacing, make sure of what was renamed, sync the parent.  Nothing locks *)
(* the names: two starts, the program of the old name, crashes and power     *)
(* losses come between any two of these steps.                               *)
EXTENDS Integers

CONSTANTS Starts,      \* processes starting, one after the other or together
          MaxRoots,    \* bounds the roots ever made
          MaxFaults,   \* bounds failing system calls
          MaxLosses    \* bounds power losses

VARIABLES root,     \* what is at each name
          disk,     \* what a power loss leaves there
          start,    \* a start of Vaire: where it is, and what it has seen
          made,     \* the roots made
          faults, losses

vars == <<root, disk, start, made, faults, losses>>

Names == {"legacy", "current"}

(* RootMetadata: the identity, and whether validate finds an owner-only      *)
(* directory of the user.                                                    *)
NoRoot == [id |-> 0, safe |-> FALSE]
Root(id, safe) == [id |-> id, safe |-> safe]
Validates(metadata) == metadata.safe

Off == [at |-> "off", legacy |-> NoRoot, current |-> NoRoot, source |-> NoRoot, uses |-> 0]

Init ==
  /\ \E old \in {NoRoot, Root(1, TRUE), Root(1, FALSE)} :
       \E new \in {NoRoot, Root(2, TRUE), Root(2, FALSE)} :
         root = [legacy |-> old, current |-> new]
  /\ disk = root /\ start = [p \in Starts |-> Off]
  /\ made = {root[name].id : name \in Names} \ {0}
  /\ faults = 0 /\ losses = 0

Fails == faults < MaxFaults /\ faults' = faults + 1 /\ UNCHANGED losses
Works == UNCHANGED <<faults, losses>>
Goes(p, at) == start' = [start EXCEPT ![p].at = at]
Stays == UNCHANGED <<root, disk, made>>
-----------------------------------------------------------------------------
(* Around the migration.                                                     *)
Launch(p) ==
  /\ start[p].at = "off"
  /\ start' = [start EXCEPT ![p] = [Off EXCEPT !.at = "look legacy"]]
  /\ Stays /\ Works

\* A start that was let through makes the current root when there is none, and
\* goes on with what is there.
Make(name) ==
  \E id \in 1 .. MaxRoots : \E safe \in BOOLEAN :
    /\ \A i \in 1 .. id - 1 : i \in made
    /\ id \notin made
    /\ root' = [root EXCEPT ![name] = Root(id, safe)]
    /\ made' = made \cup {id} /\ disk' = root'

Open(p) ==
  /\ start[p].at = "open"
  /\ \/ root.current = NoRoot /\ Make("current")
     \/ root.current # NoRoot /\ Stays
  /\ start' = [start EXCEPT ![p].at = "runs", ![p].uses = root'.current.id]
  /\ Works

\* The program of the old name is started after all.
OldProgram ==
  /\ root.legacy = NoRoot /\ Make("legacy")
  /\ UNCHANGED start /\ Works

Crash(p) ==
  /\ start[p].at # "off"
  /\ start' = [start EXCEPT ![p] = Off]
  /\ Stays /\ Works

\* A rename whose directory was not synced is undone.
PowerLoss ==
  /\ losses < MaxLosses /\ losses' = losses + 1
  /\ root' = disk /\ start' = [p \in Starts |-> Off]
  /\ UNCHANGED <<disk, made, faults>>
-----------------------------------------------------------------------------
(* migrate_support_root_with.                                                *)

\* inspect: one name at a time, so that what is at one may change before the
\* other is looked at.
Inspect(p, at, name, next) ==
  /\ start[p].at = at
  /\ \/ start' = [start EXCEPT ![p][name] = root[name], ![p].at = next] /\ Works
     \/ Goes(p, "failed") /\ Fails
  /\ Stays

\* Both names were inspected.
Decide(p) ==
  LET legacy == start[p].legacy  current == start[p].current IN
  /\ start[p].at = "decide"
  /\ start' = [start EXCEPT
       ![p].source = legacy,
       ![p].at = IF legacy = NoRoot
                 THEN IF current = NoRoot \/ Validates(current) THEN "open" ELSE "failed"
                 ELSE IF current = NoRoot /\ Validates(legacy) THEN "rename" ELSE "failed"]
  /\ Stays /\ Works

\* Mutant: what is at the new name is replaced.
RenameReplaces == root.legacy # NoRoot

\* RENAME_EXCL.
MayRename == root.legacy # NoRoot /\ root.current = NoRoot

Rename(p) ==
  /\ start[p].at = "rename"
  /\ \/ /\ MayRename
        /\ root' = [legacy |-> NoRoot, current |-> root.legacy]
        /\ Goes(p, "verify legacy") /\ Works
     \/ ~MayRename /\ Goes(p, "again legacy") /\ UNCHANGED root /\ Works
     \/ Goes(p, "again legacy") /\ UNCHANGED root /\ Fails
  /\ UNCHANGED <<disk, made>>

\* What the names hold now is the root that was to be moved.
SourceIsCurrent(p) ==
  /\ start[p].legacy = NoRoot
  /\ start[p].current # NoRoot /\ Validates(start[p].current)
  /\ start[p].current.id = start[p].source.id

\* The rename failed: somebody else has moved the same root, or nothing is done.
Reclassify(p) ==
  /\ start[p].at = "again" /\ Goes(p, IF SourceIsCurrent(p) THEN "sync" ELSE "failed")
  /\ Stays /\ Works

\* moved_source_is_current.
Verify(p) ==
  /\ start[p].at = "verify" /\ Goes(p, IF SourceIsCurrent(p) THEN "sync" ELSE "failed")
  /\ Stays /\ Works

Sync(p) ==
  /\ start[p].at = "sync"
  /\ \/ disk' = root /\ Goes(p, "open") /\ Works
     \/ UNCHANGED disk /\ Goes(p, "failed") /\ Fails
  /\ UNCHANGED <<root, made>>

Migrate(p) ==
  \/ Inspect(p, "look legacy", "legacy", "look current")
  \/ Inspect(p, "look current", "current", "decide")
  \/ Decide(p) \/ Rename(p)
  \/ Inspect(p, "again legacy", "legacy", "again current")
  \/ Inspect(p, "again current", "current", "again")
  \/ Reclassify(p)
  \/ Inspect(p, "verify legacy", "legacy", "verify current")
  \/ Inspect(p, "verify current", "current", "verify")
  \/ Verify(p) \/ Sync(p)

Next ==
  \/ \E p \in Starts : Launch(p) \/ Open(p) \/ Crash(p) \/ Migrate(p)
  \/ OldProgram \/ PowerLoss

Spec == Init /\ [][Next]_vars
-----------------------------------------------------------------------------
(* Properties.                                                               *)

\* Whatever is started, and whenever it dies or the power fails: every root
\* ever made is still at one of the two names, now and after a power loss.
NothingLost ==
  \A id \in made : /\ \E name \in Names : root[name].id = id
                   /\ \E name \in Names : disk[name].id = id

\* All running instances use one root, the one at the current name.
OneRoot ==
  \A p \in Starts : start[p].at = "runs" => start[p].uses = root.current.id

\* A start that was let through after a rename runs on a root that no power loss
\* moves back.
MovedForGood ==
  \A p \in Starts :
    start[p].at \in {"open", "runs"} /\ start[p].source # NoRoot =>
      disk.current.id = start[p].source.id

\* All three: moving the data directory loses nothing and is done once.
RootIsMoved == NothingLost /\ OneRoot /\ MovedForGood
=============================================================================
