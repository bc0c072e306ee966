---------------------------- MODULE Parts_proofs ----------------------------
(* Theorems about the small parts that MCParts composes: the data directory  *)
(* that is moved, the files that are replaced, the process group of a turn   *)
(* and the listing of threads, and, with AuthTree_proofs, about all of them  *)
(* together, for any number of instances, processes, contents, pages and     *)
(* failures.                                                                 *)
EXTENDS AuthTree_proofs

-----------------------------------------------------------------------------
(* Moving the data directory.                                                *)

RootType == [id : Nat, safe : BOOLEAN]

RootPlaces == {"off", "look legacy", "look current", "decide", "rename", "again legacy",
           "again current", "again", "verify legacy", "verify current", "verify", "sync",
           "failed", "open", "runs"}

StartType == [at : RootPlaces, legacy : RootType, current : RootType, source : RootType,
              uses : Nat]

MigrationTypeOK ==
  /\ root \in [Root!Names -> RootType] /\ disk \in [Root!Names -> RootType]
  /\ made \subseteq Nat \ {0}
  /\ start \in [Starts -> StartType]

(* The inductive invariant.  A root that is at the current name stays there  *)
(* (whoever renames finds the name free) until a power loss, which ends      *)
(* every start as well: what a start has seen there is still there, what it  *)
(* runs on is there, and what it has synced is on disk.                      *)
SeenIsThere ==
  \A p \in Starts : start[p].current # Root!NoRoot => start[p].current = root.current

RunsOnCurrent ==
  \A p \in Starts : start[p].at = "runs" =>
    root.current # Root!NoRoot /\ start[p].uses = root.current.id

MovedIsThere ==
  \A p \in Starts :
    start[p].at \in {"sync", "open", "runs"} /\ start[p].source # Root!NoRoot =>
      root.current # Root!NoRoot /\ root.current.id = start[p].source.id

SyncedIsOnDisk ==
  \A p \in Starts :
    start[p].at \in {"open", "runs"} /\ start[p].source # Root!NoRoot =>
      disk.current = root.current

MigrationInv == /\ MigrationTypeOK /\ Root!NothingLost /\ SeenIsThere /\ RunsOnCurrent
                /\ MovedIsThere /\ SyncedIsOnDisk

\* The roots found by the first start are on disk, and nothing runs on them.
LEMMA MigrationInit == Root!Init => MigrationInv
<1> SUFFICES ASSUME Root!Init PROVE MigrationInv
  OBVIOUS
<1>1. MigrationTypeOK
  <2>1. Root!NoRoot \in RootType /\ \A id \in Nat, safe \in BOOLEAN : Root!Root(id,
        safe) \in RootType
    BY DEF Root!NoRoot, Root!Root, RootType
  <2>2. Root!Off \in StartType
    BY <2>1 DEF Root!Off, StartType, RootPlaces
  <2>3. root \in [Root!Names -> RootType]
    <3>1. PICK old \in RootType, new \in RootType :
            root = [legacy |-> old, current |-> new]
      BY <2>1 DEF Root!Init
    <3> QED BY <3>1 DEF Root!Names
  <2>4. made \subseteq Nat \ {0}
    BY <2>3 DEF Root!Init, RootType
  <2> QED BY <2>2, <2>3, <2>4 DEF Root!Init, MigrationTypeOK
<1>2. Root!NothingLost
  BY DEF Root!Init, Root!NothingLost
<1> QED
  BY <1>1, <1>2 DEF Root!Init, MigrationInv, SeenIsThere, RunsOnCurrent, MovedIsThere,
                    SyncedIsOnDisk, Root!Off

\* A step of one start that leaves the names alone, to a place where nothing is claimed.
LEMMA OneStartMoves ==
  ASSUME MigrationInv, NEW p \in Starts, Root!Stays,
         NEW s \in StartType,
         start' = [start EXCEPT ![p] = s],
         s.current # Root!NoRoot => s.current = root.current,
         s.at # "runs",
         s.at \in {"sync", "open"} /\ s.source # Root!NoRoot =>
           /\ root.current # Root!NoRoot /\ root.current.id = s.source.id
           /\ s.at = "open" => disk.current = root.current
  PROVE  MigrationInv'
<1> USE DEF MigrationInv, Root!Stays
<1>1. MigrationTypeOK'
  BY DEF MigrationTypeOK
<1>2. Root!NothingLost'
  BY DEF Root!NothingLost
<1>3. \A q \in Starts : start'[q] = IF q = p THEN s ELSE start[q]
  BY DEF MigrationTypeOK
<1> QED
  BY <1>1, <1>2, <1>3 DEF SeenIsThere, RunsOnCurrent, MovedIsThere, SyncedIsOnDisk

\* Looking at the names, deciding, and finding out what a rename came to.
LEMMA LooksKeep ==
  ASSUME MigrationInv, NEW p \in Starts, NEW place \in RootPlaces, NEW next \in RootPlaces,
         NEW name \in Root!Names, place \notin {"open", "runs"}, next \notin {"sync", "open",
           "runs"},
         Root!Inspect(p, place, name, next)
  PROVE  MigrationInv'
<1> DEFINE s == start[p]
<1>1. /\ s \in StartType /\ root[name] \in RootType
      /\ s.current # Root!NoRoot => s.current = root.current
  BY DEF MigrationInv, MigrationTypeOK, SeenIsThere
<1>2. CASE start' = [start EXCEPT ![p][name] = root[name], ![p].at = next]
  <2> DEFINE t == IF name = "legacy" THEN [s EXCEPT !.legacy = root.legacy, !.at = next]
                                     ELSE [s EXCEPT !.current = root.current, !.at = next]
  <2>1. name = "legacy" \/ name = "current"
    BY DEF Root!Names
  <2>2. start' = [start EXCEPT ![p] = t]
    BY <1>2, <1>1, <2>1 DEF MigrationInv, MigrationTypeOK, StartType
  <2>3. t \in StartType /\ t.at = next /\ (t.current # Root!NoRoot => t.current = root.current)
    BY <1>1, <2>1 DEF StartType, RootPlaces
  <2> QED
    BY <2>2, <2>3, OneStartMoves DEF Root!Inspect
<1>3. CASE Root!Goes(p, "failed")
  <2> DEFINE t == [s EXCEPT !.at = "failed"]
  <2>1. start' = [start EXCEPT ![p] = t]
    BY <1>3 DEF Root!Goes
  <2>2. t \in StartType /\ t.at = "failed" /\ t.current = s.current
    BY <1>1 DEF StartType, RootPlaces
  <2> QED
    BY <1>1, <2>1, <2>2, OneStartMoves DEF Root!Inspect
<1> QED BY <1>2, <1>3 DEF Root!Inspect

\* resolve_state_root's decision, taken on what is on disk, keeps the invariant.
LEMMA DecideKeeps ==
  ASSUME MigrationInv, NEW p \in Starts, Root!Decide(p)
  PROVE  MigrationInv'
<1> DEFINE s == start[p]
           place == IF s.legacy = Root!NoRoot
                 THEN IF s.current = Root!NoRoot \/ Root!Validates(s.current) THEN "open"
                   ELSE "failed"
                 ELSE IF s.current = Root!NoRoot /\ Root!Validates(s.legacy)
                   THEN "rename" ELSE "failed"
           t == [s EXCEPT !.source = s.legacy, !.at = place]
<1>1. /\ s \in StartType
      /\ s.current # Root!NoRoot => s.current = root.current
  BY DEF MigrationInv, MigrationTypeOK, SeenIsThere
<1>2. start' = [start EXCEPT ![p] = t] /\ Root!Stays
  BY DEF Root!Decide
<1>3. place \in {"open", "failed", "rename"} /\ (place = "open" => s.legacy = Root!NoRoot)
  OBVIOUS
<1>4. /\ t \in StartType /\ t.at = place /\ t.source = s.legacy /\ t.current = s.current
  BY <1>1, <1>3 DEF StartType, RootPlaces
<1> HIDE DEF t, place
<1> QED BY <1>1, <1>2, <1>3, <1>4, OneStartMoves

\* What a start goes on to sync is at the current name.
LEMMA CheckKeeps ==
  ASSUME MigrationInv, NEW p \in Starts, Root!Reclassify(p) \/ Root!Verify(p)
  PROVE  MigrationInv'
<1> DEFINE s == start[p]
           place == IF Root!SourceIsCurrent(p) THEN "sync" ELSE "failed"
           t == [s EXCEPT !.at = place]
<1>1. /\ s \in StartType
      /\ s.current # Root!NoRoot => s.current = root.current
  BY DEF MigrationInv, MigrationTypeOK, SeenIsThere
<1>2. start' = [start EXCEPT ![p] = t] /\ Root!Stays
  BY DEF Root!Reclassify, Root!Verify, Root!Goes
<1>3. /\ place \in {"sync", "failed"}
      /\ place = "sync" => root.current # Root!NoRoot /\ root.current.id = s.source.id
  BY <1>1 DEF Root!SourceIsCurrent
<1>4. t \in StartType /\ t.at = place /\ t.source = s.source /\ t.current = s.current
  BY <1>1, <1>3 DEF StartType, RootPlaces
<1> HIDE DEF t, place
<1> QED BY <1>1, <1>2, <1>3, <1>4, OneStartMoves

\* The sync after a rename, or its failure, keeps the invariant.
LEMMA SyncKeeps ==
  ASSUME MigrationInv, NEW p \in Starts, Root!Sync(p)
  PROVE  MigrationInv'
<1> DEFINE s == start[p]
<1>1. /\ s \in StartType /\ s.at = "sync"
      /\ s.current # Root!NoRoot => s.current = root.current
      /\ s.source # Root!NoRoot => root.current # Root!NoRoot /\ root.current.id = s.source.id
  BY DEF MigrationInv, MigrationTypeOK, SeenIsThere, MovedIsThere, Root!Sync
<1>2. CASE Root!Goes(p, "failed") /\ UNCHANGED disk
  <2> DEFINE t == [s EXCEPT !.at = "failed"]
  <2>1. start' = [start EXCEPT ![p] = t] /\ Root!Stays
    BY <1>2 DEF Root!Goes, Root!Sync, Root!Stays
  <2>2. t \in StartType /\ t.at = "failed" /\ t.current = s.current
    BY <1>1 DEF StartType, RootPlaces
  <2> QED BY <1>1, <2>1, <2>2, OneStartMoves
<1>3. CASE Root!Goes(p, "open") /\ disk' = root
  <2> DEFINE t == [s EXCEPT !.at = "open"]
  <2>1. start' = [start EXCEPT ![p] = t] /\ root' = root /\ made' = made /\ disk' = root
    BY <1>3 DEF Root!Goes, Root!Sync
  <2>2. /\ t \in StartType /\ t.at = "open" /\ t.current = s.current /\ t.source = s.source
    BY <1>1 DEF StartType, RootPlaces
  <2>3. \A q \in Starts : start'[q] = IF q = p THEN t ELSE start[q]
    BY <2>1 DEF MigrationInv, MigrationTypeOK
  <2> HIDE DEF t
  <2>4. MigrationTypeOK' /\ Root!NothingLost'
    BY <2>1, <2>2 DEF MigrationInv, MigrationTypeOK, Root!NothingLost
  <2>5. SeenIsThere' /\ RunsOnCurrent' /\ SyncedIsOnDisk'
    BY <1>1, <2>1, <2>2, <2>3
    DEF MigrationInv, SeenIsThere, RunsOnCurrent, SyncedIsOnDisk
  <2>6. MovedIsThere'
    BY <1>1, <2>1, <2>2, <2>3 DEF MigrationInv, MovedIsThere
  <2> QED BY <2>4, <2>5, <2>6 DEF MigrationInv
<1> QED BY <1>2, <1>3 DEF Root!Sync

\* A rename finds the current name free: it takes nothing from a start, and nothing from
\* the names.
LEMMA RootRenameKeeps ==
  ASSUME MigrationInv, NEW p \in Starts, Root!Rename(p)
  PROVE  MigrationInv'
<1> DEFINE s == start[p]
<1>1. /\ s \in StartType
      /\ s.current # Root!NoRoot => s.current = root.current
  BY DEF MigrationInv, MigrationTypeOK, SeenIsThere
<1>2. CASE UNCHANGED root /\ Root!Goes(p, "again legacy")
  <2> DEFINE t == [s EXCEPT !.at = "again legacy"]
  <2>1. start' = [start EXCEPT ![p] = t] /\ Root!Stays
    BY <1>2 DEF Root!Goes, Root!Rename, Root!Stays
  <2>2. t \in StartType /\ t.at = "again legacy" /\ t.current = s.current
    BY <1>1 DEF StartType, RootPlaces
  <2> QED BY <1>1, <2>1, <2>2, OneStartMoves
<1>3. CASE /\ Root!MayRename /\ Root!Goes(p, "verify legacy")
           /\ root' = [legacy |-> Root!NoRoot, current |-> root.legacy]
  <2> DEFINE t == [s EXCEPT !.at = "verify legacy"]
  <2>1. /\ start' = [start EXCEPT ![p] = t] /\ disk' = disk /\ made' = made
        /\ root.current = Root!NoRoot /\ root'.current = root.legacy /\ root'.legacy = Root!NoRoot
    BY <1>3 DEF Root!Goes, Root!Rename, Root!MayRename
  <2>2. t \in StartType /\ t.at = "verify legacy" /\ t.current = s.current
    BY <1>1 DEF StartType, RootPlaces
  <2>3. \A q \in Starts : start'[q] = IF q = p THEN t ELSE start[q]
    BY <2>1 DEF MigrationInv, MigrationTypeOK
  <2> HIDE DEF t
  <2>4. \A q \in Starts : /\ start[q].current = Root!NoRoot
                          /\ start[q].at # "runs"
                          /\ start[q].at \in {"sync", "open"} => start[q].source = Root!NoRoot
    BY <2>1 DEF MigrationInv, SeenIsThere, RunsOnCurrent, MovedIsThere
  <2>5. MigrationTypeOK'
    BY <1>3, <2>1, <2>2 DEF MigrationInv, MigrationTypeOK, RootType, Root!NoRoot, Root!Names
  <2>6. Root!NothingLost'
    BY <2>1 DEF MigrationInv, MigrationTypeOK, Root!NothingLost, Root!Names, Root!NoRoot
  <2>7. SeenIsThere' /\ RunsOnCurrent'
    BY <2>2, <2>3, <2>4 DEF SeenIsThere, RunsOnCurrent, Root!NoRoot
  <2>8. MovedIsThere' /\ SyncedIsOnDisk'
    BY <2>2, <2>3, <2>4 DEF MovedIsThere, SyncedIsOnDisk, Root!NoRoot
  <2> QED BY <2>5, <2>6, <2>7, <2>8 DEF MigrationInv
<1> QED BY <1>2, <1>3 DEF Root!Rename

\* A root made at a free name is another one, and loses none.
LEMMA MadeIsNew ==
  ASSUME MigrationInv, NEW name \in Root!Names, root[name] = Root!NoRoot, Root!Make(name)
  PROVE  /\ root' \in [Root!Names -> RootType] /\ disk' = root' /\ made' \subseteq Nat \ {0}
         /\ root'[name] # Root!NoRoot /\ \A n \in Root!Names : n # name => root'[n] = root[n]
         /\ Root!NothingLost'
<1>1. PICK id \in 1 .. MaxRoots, safe \in BOOLEAN :
        /\ root' = [root EXCEPT ![name] = Root!Root(id, safe)]
        /\ made' = made \cup {id} /\ disk' = root'
  BY DEF Root!Make
<1>2. id \in Nat \ {0}
  OBVIOUS
<1>3. /\ root' \in [Root!Names -> RootType] /\ root'[name].id = id
      /\ \A n \in Root!Names : n # name => root'[n] = root[n]
  BY <1>1, <1>2 DEF MigrationInv, MigrationTypeOK, Root!Root, RootType
<1>4. root'[name] # Root!NoRoot
  BY <1>2, <1>3 DEF Root!NoRoot
<1>5. made' \subseteq Nat \ {0}
  BY <1>1, <1>2 DEF MigrationInv, MigrationTypeOK
<1>6. \A i \in made' : \E n \in Root!Names : root'[n].id = i
  <2> SUFFICES ASSUME NEW i \in made' PROVE \E n \in Root!Names : root'[n].id = i
    OBVIOUS
  <2>1. CASE i = id
    BY <1>3, <2>1
  <2>2. CASE i \in made
    <3>1. PICK n \in Root!Names : root[n].id = i
      BY <2>2 DEF MigrationInv, Root!NothingLost
    <3>2. n # name
      BY <2>2, <3>1 DEF MigrationInv, MigrationTypeOK, Root!NoRoot
    <3> QED BY <1>3, <3>1, <3>2
  <2> QED BY <1>1, <2>1, <2>2
<1> QED BY <1>1, <1>3, <1>4, <1>5, <1>6 DEF Root!NothingLost

\* A start that opens its state root keeps the invariant.
LEMMA OpenKeeps ==
  ASSUME MigrationInv, NEW p \in Starts, Root!Open(p)
  PROVE  MigrationInv'
<1> DEFINE s == start[p]
           t == [s EXCEPT !.at = "runs", !.uses = root'.current.id]
<1>1. s \in StartType /\ s.at = "open"
  BY DEF MigrationInv, MigrationTypeOK, Root!Open
<1>2. start' = [start EXCEPT ![p] = t]
  BY DEF Root!Open
<1>3. \A q \in Starts : start'[q] = IF q = p THEN t ELSE start[q]
  BY <1>2 DEF MigrationInv, MigrationTypeOK
<1>4. t.at = "runs" /\ t.uses = root'.current.id /\ t.current = s.current
      /\ t.source = s.source
  BY <1>1 DEF StartType, RootPlaces
<1>5. CASE root.current # Root!NoRoot /\ Root!Stays
  <2>1. t \in StartType
    BY <1>1, <1>5 DEF StartType, RootPlaces, Root!Stays, MigrationInv, MigrationTypeOK,
       RootType, Root!Names
  <2> HIDE DEF t
  <2>2. MigrationTypeOK' /\ Root!NothingLost'
    BY <1>2, <1>5, <2>1 DEF Root!Stays, MigrationInv, MigrationTypeOK, Root!NothingLost
  <2> QED
    BY <1>1, <1>3, <1>4, <1>5, <2>2
    DEF Root!Stays, MigrationInv, SeenIsThere, RunsOnCurrent, MovedIsThere, SyncedIsOnDisk
<1>6. CASE root.current = Root!NoRoot /\ Root!Make("current")
  <2>1. /\ root' \in [Root!Names -> RootType] /\ disk' = root' /\ made' \subseteq Nat \ {0}
        /\ root'.current # Root!NoRoot /\ Root!NothingLost'
    BY <1>6, MadeIsNew DEF Root!Names
  <2>2. t \in StartType
    BY <1>1, <2>1 DEF StartType, RootPlaces, RootType, Root!Names
  <2> HIDE DEF t
  <2>3. MigrationTypeOK'
    BY <1>2, <2>1, <2>2 DEF MigrationInv, MigrationTypeOK
  <2>4. \A q \in Starts : /\ start[q].current = Root!NoRoot
                          /\ start[q].at # "runs"
                          /\ start[q].at \in {"sync", "open"} => start[q].source = Root!NoRoot
    BY <1>6 DEF MigrationInv, SeenIsThere, RunsOnCurrent, MovedIsThere
  <2>5. SeenIsThere'
    BY <1>3, <1>4, <2>4 DEF SeenIsThere, Root!NoRoot
  <2>6. RunsOnCurrent'
    BY <1>3, <1>4, <2>1, <2>4 DEF RunsOnCurrent, Root!NoRoot
  <2>7. MovedIsThere' /\ SyncedIsOnDisk'
    BY <1>1, <1>3, <1>4, <2>1, <2>4 DEF MovedIsThere, SyncedIsOnDisk, Root!NoRoot
  <2> QED BY <2>1, <2>3, <2>5, <2>6, <2>7 DEF MigrationInv
<1> QED BY <1>5, <1>6 DEF Root!Open

\* The program of the old name, a new start, a crash and a power loss.
LEMMA SurroundingsKeep ==
  ASSUME MigrationInv,
         Root!OldProgram \/ Root!PowerLoss \/ \E p \in Starts : Root!Launch(p) \/ Root!Crash(p)
  PROVE  MigrationInv'
<1>1. CASE Root!OldProgram
  <2>1. /\ root' \in [Root!Names -> RootType] /\ disk' = root' /\ made' \subseteq Nat \ {0}
        /\ root'.current = root.current /\ Root!NothingLost' /\ start' = start
    BY <1>1, MadeIsNew DEF Root!OldProgram, Root!Names
  <2> QED
    BY <2>1 DEF MigrationInv, MigrationTypeOK, SeenIsThere, RunsOnCurrent, MovedIsThere,
                SyncedIsOnDisk
<1>2. CASE Root!PowerLoss
  <2>1. /\ root' = disk /\ disk' = disk /\ made' = made
        /\ start' = [p \in Starts |-> Root!Off]
    BY <1>2 DEF Root!PowerLoss
  <2>2. Root!Off \in StartType
    BY DEF Root!Off, StartType, RootPlaces, RootType, Root!NoRoot
  <2>3. MigrationTypeOK' /\ Root!NothingLost'
    BY <2>1, <2>2 DEF MigrationInv, MigrationTypeOK, Root!NothingLost
  <2> QED
    BY <2>1, <2>3 DEF MigrationInv, SeenIsThere, RunsOnCurrent, MovedIsThere,
                      SyncedIsOnDisk, Root!Off
<1>3. ASSUME NEW p \in Starts, Root!Launch(p) \/ Root!Crash(p) PROVE MigrationInv'
  <2>1. PICK place \in {"off", "look legacy"} :
          start' = [start EXCEPT ![p] = [Root!Off EXCEPT !.at = place]] /\ Root!Stays
    BY <1>3 DEF Root!Launch, Root!Crash, Root!Off
  <2> DEFINE t == [Root!Off EXCEPT !.at = place]
  <2>2. t \in StartType /\ t.at = place /\ t.current = Root!NoRoot
    BY DEF Root!Off, StartType, RootPlaces, RootType, Root!NoRoot
  <2> QED BY <2>1, <2>2, OneStartMoves
<1> QED BY <1>1, <1>2, <1>3

\* Every step of a start, every crash and every power loss keeps the invariant.
LEMMA MigrationStep ==
  ASSUME MigrationInv, [Root!Next]_(Root!vars)
  PROVE  MigrationInv'
<1>1. CASE UNCHANGED Root!vars
  BY <1>1 DEF Root!vars, MigrationInv, MigrationTypeOK, Root!NothingLost, SeenIsThere,
     RunsOnCurrent,
              MovedIsThere, SyncedIsOnDisk
<1>2. ASSUME NEW p \in Starts, Root!Migrate(p) PROVE MigrationInv'
  BY <1>2, LooksKeep, DecideKeeps, CheckKeeps, SyncKeeps, RootRenameKeeps
  DEF Root!Migrate, Root!Names, RootPlaces
<1>3. ASSUME NEW p \in Starts, Root!Open(p) PROVE MigrationInv'
  BY <1>3, OpenKeeps
<1> QED BY <1>1, <1>2, <1>3, SurroundingsKeep DEF Root!Next

\* The invariant the theorems about the state roots rest on.
LEMMA MigrationInvariant == Root!Spec => []MigrationInv
<1>1. MigrationInv /\ [Root!Next]_(Root!vars) => MigrationInv'
  BY MigrationStep
<1> QED BY <1>1, MigrationInit, PTL DEF Root!Spec

\* No data directory is lost, whoever starts, fails or dies, and whenever the power fails.
THEOREM NoRootIsLost == Root!Spec => []Root!NothingLost
<1>1. MigrationInv => Root!NothingLost
  BY DEF MigrationInv
<1> QED BY <1>1, MigrationInvariant, PTL

\* All running instances use one data directory.
THEOREM AllUseOneRoot == Root!Spec => []Root!OneRoot
<1>1. MigrationInv => Root!OneRoot
  BY DEF MigrationInv, RunsOnCurrent, Root!OneRoot
<1> QED BY <1>1, MigrationInvariant, PTL

\* A start that runs after moving the data directory has moved it for good.
THEOREM MoveIsForGood == Root!Spec => []Root!MovedForGood
<1>1. MigrationInv => Root!MovedForGood
  BY DEF MigrationInv, MovedIsThere, SyncedIsOnDisk, Root!MovedForGood
<1> QED BY <1>1, MigrationInvariant, PTL

\* Moving the data directory (platform/migration.rs) loses nothing and is done once, for any
\* number of starts, failures and power losses.
THEOREM MigrationSafety == Root!Spec => []Root!RootIsMoved
<1>1. Root!NothingLost /\ Root!OneRoot /\ Root!MovedForGood => Root!RootIsMoved
  BY DEF Root!RootIsMoved
<1> QED BY <1>1, NoRootIsLost, AllUseOneRoot, MoveIsForGood, PTL

-----------------------------------------------------------------------------
(* Replacing a file.                                                         *)

FilePlaces == {"off", "clean", "idle", "write", "sync", "rename", "remove", "sync directory",
               "read back"}
Contents == File!Writes \cup {File!None}
InstanceType == [at : FilePlaces, n : Contents, result : {"none", "error", "Verified",
                 "CommittedUnverified", "unread"}, todo : SUBSET Contents]
DataStates == {"new", "part", "whole", "synced", "torn"}

FileTypeOK ==
  /\ target \in Contents /\ perhaps \subseteq Contents /\ temps \subseteq Contents
  /\ data \in [File!Writes -> DataStates]
  /\ instance \in [Instances -> InstanceType]

\* What is there may also be there after a power loss.
TargetIsLikely == target \in perhaps

\* The contents that an instance has in hand, or had last, are contents that were begun
\* and are no other instance's.
OwnContents ==
  \A i \in Instances : instance[i].n # File!None =>
    /\ instance[i].n \in File!Writes /\ data[instance[i].n] # "new"
    /\ \A j \in Instances \ {i} : instance[j].n # instance[i].n

\* What is not renamed yet is neither the file nor what a power loss may make of it, and
\* what is about to be renamed was synced.
Unpublished(i) ==
  instance[i].n # File!None /\ instance[i].n \notin perhaps
NotYetRenamed ==
  \A i \in Instances :
    /\ instance[i].at \in {"write", "sync", "rename", "remove"} =>
         Unpublished(i) /\ instance[i].result = "none"
    /\ instance[i].at = "rename" => data[instance[i].n] = "synced"

FileInv == /\ FileTypeOK /\ TargetIsLikely /\ OwnContents /\ NotYetRenamed
           /\ File!NeverTorn /\ File!VerifiedSurvives /\ File!FailureChangesNothing

\* A file nobody has written yet satisfies the invariant.
LEMMA FileInit == File!Init => FileInv
<1> SUFFICES ASSUME File!Init PROVE FileInv
  OBVIOUS
<1>1. File!Off \in InstanceType /\ File!Off.n = File!None /\ File!Off.at = "off"
      /\ File!Off.result = "none"
  BY DEF File!Off, InstanceType, FilePlaces, Contents, File!None
<1>2. FileTypeOK
  BY <1>1 DEF File!Init, FileTypeOK, DataStates, Contents
<1>3. \A i \in Instances : instance[i] = File!Off
  BY DEF File!Init
<1> QED
  BY <1>1, <1>2, <1>3
  DEF File!Init, FileInv, TargetIsLikely, OwnContents, NotYetRenamed, Unpublished, File!NeverTorn,
      File!VerifiedSurvives, File!FailureChangesNothing

\* A step of one instance that takes up no new contents and only narrows what a power
\* loss may leave.
LEMMA OneInstanceMoves ==
  ASSUME FileInv, NEW i \in Instances, NEW x \in InstanceType,
         instance' = [instance EXCEPT ![i] = x],
         UNCHANGED <<target, data>>, temps' \subseteq temps,
         perhaps' \subseteq perhaps, target \in perhaps', perhaps' \subseteq since',
         x.n \in {File!None, instance[i].n},
         x.at \in {"write", "sync", "rename", "remove"} =>
           /\ x.n = instance[i].n /\ x.result = instance[i].result
           /\ instance[i].at \in {"write", "sync", "rename", "remove"},
         x.at # "rename",
         x.result = "error" /\ x.n # File!None => target # x.n
  PROVE  FileInv'
<1>1. \A j \in Instances : instance'[j] = IF j = i THEN x ELSE instance[j]
  BY DEF FileInv, FileTypeOK
<1>2. FileTypeOK'
  BY DEF FileInv, FileTypeOK
<1>3. OwnContents'
  BY <1>1 DEF FileInv, OwnContents
<1>4. NotYetRenamed'
  BY <1>1 DEF FileInv, NotYetRenamed, Unpublished
<1>5. File!FailureChangesNothing'
  BY <1>1 DEF FileInv, File!FailureChangesNothing
<1>6. TargetIsLikely' /\ File!NeverTorn' /\ File!VerifiedSurvives'
  BY DEF FileInv, TargetIsLikely, File!NeverTorn, File!VerifiedSurvives
<1> QED BY <1>2, <1>3, <1>4, <1>5, <1>6 DEF FileInv

\* Opening, refusing, removing, ending and dying.
LEMMA QuietSteps ==
  ASSUME FileInv, NEW i \in Instances,
         File!Start(i) \/ File!CleanOne(i) \/ File!CleanEnds(i) \/ File!RemoveTemp(i)
           \/ File!SyncDirectory(i) \/ File!ReadBack(i) \/ File!Crash(i)
  PROVE  FileInv'
<1> DEFINE s == instance[i]
<1>1. /\ s \in InstanceType /\ target \in perhaps /\ perhaps \subseteq since
      /\ temps \subseteq Contents
      /\ s.result = "error" /\ s.n # File!None => target # s.n
      /\ s.at \in {"write", "sync", "rename", "remove"} => s.n # File!None /\ target # s.n
  BY DEF FileInv, FileTypeOK, TargetIsLikely, File!VerifiedSurvives, File!FailureChangesNothing,
         NotYetRenamed, Unpublished
<1>2. CASE File!Start(i)
  <2> DEFINE x == IF kind = "credential" THEN [File!Off EXCEPT !.at = "clean", !.todo = temps]
                                         ELSE [File!Off EXCEPT !.at = "idle"]
  <2>1. /\ instance' = [instance EXCEPT ![i] = x]
        /\ UNCHANGED <<target, perhaps, data, temps, since>>
    BY <1>2 DEF File!Start, File!disk
  <2>2. /\ x \in InstanceType /\ x.n = File!None /\ x.result = "none" /\ x.at \in {"clean",
           "idle"}
    BY <1>1 DEF File!Off, InstanceType, FilePlaces, Contents
  <2> HIDE DEF x
  <2> QED BY <1>1, <2>1, <2>2, OneInstanceMoves
<1>3. CASE File!CleanOne(i)
  <2>1. PICK place \in {"clean", "off"}, todo \in SUBSET Contents :
          /\ instance' = [instance EXCEPT ![i] = [s EXCEPT !.at = place, !.todo = todo]]
          /\ UNCHANGED <<target, perhaps, data, since>> /\ temps' \subseteq temps
    <3>1. PICK n \in s.todo :
            \/ instance' = [instance EXCEPT ![i].todo = @ \ {n}] /\ temps' = temps \ {n}
            \/ File!Goes(i, "off") /\ temps' = temps
      BY <1>3 DEF File!CleanOne
    <3>2. CASE instance' = [instance EXCEPT ![i].todo = @ \ {n}] /\ temps' = temps \ {n}
      <4>1. s.todo \ {n} \in SUBSET Contents /\ s.at = "clean"
        BY <1>1, <1>3 DEF File!CleanOne, InstanceType
      <4>2. [s EXCEPT !.at = "clean", !.todo = s.todo \ {n}] = [s EXCEPT !.todo = s.todo \ {n}]
        BY <1>1, <4>1 DEF InstanceType
      <4> QED BY <1>3, <3>2, <4>1, <4>2 DEF File!CleanOne
    <3>3. CASE File!Goes(i, "off") /\ temps' = temps
      <4>1. s.todo \in SUBSET Contents
        BY <1>1 DEF InstanceType
      <4>2. [s EXCEPT !.at = "off", !.todo = s.todo] = [s EXCEPT !.at = "off"]
        BY <1>1 DEF InstanceType
      <4> QED BY <1>3, <3>3, <4>1, <4>2 DEF File!CleanOne, File!Goes
    <3> QED BY <3>1, <3>2, <3>3
  <2> DEFINE x == [s EXCEPT !.at = place, !.todo = todo]
  <2>2. /\ x \in InstanceType /\ x.n = s.n /\ x.result = s.result /\ x.at = place
    BY <1>1, <2>1 DEF InstanceType, FilePlaces
  <2>3. instance' = [instance EXCEPT ![i] = x]
    BY <2>1
  <2> HIDE DEF x
  <2> QED BY <1>1, <2>1, <2>2, <2>3, OneInstanceMoves
<1>4. CASE File!CleanEnds(i)
  <2> DEFINE x == [s EXCEPT !.at = "idle"]
  <2>1. /\ instance' = [instance EXCEPT ![i] = x]
        /\ UNCHANGED <<target, data, temps, since>>
        /\ perhaps' = perhaps \/ perhaps' = {target}
    BY <1>4 DEF File!CleanEnds, File!Goes
  <2>2. /\ x \in InstanceType /\ x.n = s.n /\ x.result = s.result /\ x.at = "idle"
    BY <1>1 DEF InstanceType, FilePlaces
  <2> HIDE DEF x
  <2> QED BY <1>1, <2>1, <2>2, OneInstanceMoves
<1>5. CASE File!RemoveTemp(i)
  <2> DEFINE x == [s EXCEPT !.at = "idle", !.result = "error"]
  <2>1. /\ instance' = [instance EXCEPT ![i] = x] /\ s.at = "remove"
        /\ UNCHANGED <<target, perhaps, data, since>> /\ temps' \subseteq temps
    BY <1>5 DEF File!RemoveTemp, File!Returns
  <2>2. /\ x \in InstanceType /\ x.n = s.n /\ x.result = "error" /\ x.at = "idle"
    BY <1>1 DEF InstanceType, FilePlaces
  <2> HIDE DEF x
  <2> QED BY <1>1, <2>1, <2>2, OneInstanceMoves
<1>6. CASE File!SyncDirectory(i)
  <2>1. CASE perhaps' = {target} /\ since' = {target} /\ File!Returns(i, "Verified")
    <3> DEFINE x == [s EXCEPT !.at = "idle", !.result = "Verified"]
    <3>1. instance' = [instance EXCEPT ![i] = x] /\ UNCHANGED <<target, data, temps>>
      BY <1>6, <2>1 DEF File!SyncDirectory, File!Returns
    <3>2. /\ x \in InstanceType /\ x.n = s.n /\ x.result = "Verified" /\ x.at = "idle"
      BY <1>1 DEF InstanceType, FilePlaces
    <3> HIDE DEF x
    <3> QED BY <1>1, <2>1, <3>1, <3>2, OneInstanceMoves
  <2>2. CASE File!Goes(i, "read back") /\ UNCHANGED <<perhaps, since>>
    <3> DEFINE x == [s EXCEPT !.at = "read back"]
    <3>1. instance' = [instance EXCEPT ![i] = x] /\ UNCHANGED <<target, data, temps>>
      BY <1>6, <2>2 DEF File!SyncDirectory, File!Goes
    <3>2. /\ x \in InstanceType /\ x.n = s.n /\ x.result = s.result /\ x.at = "read back"
      BY <1>1 DEF InstanceType, FilePlaces
    <3> HIDE DEF x
    <3> QED BY <1>1, <2>2, <3>1, <3>2, OneInstanceMoves
  <2> QED BY <1>6, <2>1, <2>2 DEF File!SyncDirectory
<1>7. CASE File!ReadBack(i)
  <2>1. PICK outcome \in {"CommittedUnverified", "error", "unread"} :
          /\ instance' = [instance EXCEPT ![i] = [s EXCEPT !.at = "idle", !.result = outcome]]
          /\ UNCHANGED <<target, perhaps, data, temps, since>>
          /\ outcome = "error" => target # s.n
    BY <1>7 DEF File!ReadBack, File!Returns, File!disk
  <2> DEFINE x == [s EXCEPT !.at = "idle", !.result = outcome]
  <2>2. /\ x \in InstanceType /\ x.n = s.n /\ x.result = outcome /\ x.at = "idle"
    BY <1>1 DEF InstanceType, FilePlaces
  <2>3. instance' = [instance EXCEPT ![i] = x]
    BY <2>1
  <2> HIDE DEF x
  <2> QED BY <1>1, <2>1, <2>2, <2>3, OneInstanceMoves
<1>8. CASE File!Crash(i)
  <2> DEFINE x == [s EXCEPT !.at = "off"]
  <2>1. /\ instance' = [instance EXCEPT ![i] = x]
        /\ UNCHANGED <<target, perhaps, data, temps, since>>
    BY <1>8 DEF File!Crash, File!Goes, File!disk
  <2>2. /\ x \in InstanceType /\ x.n = s.n /\ x.result = s.result /\ x.at = "off"
    BY <1>1 DEF InstanceType, FilePlaces
  <2> HIDE DEF x
  <2> QED BY <1>1, <2>1, <2>2, OneInstanceMoves
<1> QED BY <1>2, <1>3, <1>4, <1>5, <1>6, <1>7, <1>8

\* Contents are taken up by one instance, once, and are not in the file yet.
LEMMA CreateKeeps ==
  ASSUME FileInv, NEW i \in Instances, File!CreateTemp(i)
  PROVE  FileInv'
<1> DEFINE s == instance[i]
<1>1. /\ s \in InstanceType /\ target \in perhaps /\ perhaps \subseteq since
  BY DEF FileInv, FileTypeOK, TargetIsLikely, File!VerifiedSurvives
<1>2. CASE File!Refuses(i) /\ UNCHANGED <<temps, data>>
  <2> DEFINE x == [s EXCEPT !.n = File!None, !.result = "error"]
  <2>1. /\ instance' = [instance EXCEPT ![i] = x] /\ s.at = "idle"
        /\ UNCHANGED <<target, perhaps, data, temps, since>>
    BY <1>2 DEF File!CreateTemp, File!Refuses
  <2>2. /\ x \in InstanceType /\ x.n = File!None /\ x.at = s.at
    BY <1>1 DEF InstanceType, Contents
  <2> HIDE DEF x
  <2> QED BY <1>1, <2>1, <2>2, OneInstanceMoves
<1>3. ASSUME NEW n \in File!Writes, data[n] = "new", temps' = temps \cup {n},
             data' = [data EXCEPT ![n] = "part"], File!Enters(i, "write", n)
      PROVE  FileInv'
  <2> DEFINE x == [File!Off EXCEPT !.at = "write", !.n = n]
  <2>1. /\ instance' = [instance EXCEPT ![i] = x]
        /\ UNCHANGED <<target, perhaps, since>>
    BY <1>3 DEF File!CreateTemp, File!Enters
  <2>2. /\ x \in InstanceType /\ x.n = n /\ x.at = "write" /\ x.result = "none"
        /\ n # File!None
    <3>1. n # File!None
      BY DEF File!Writes, File!None
    <3> QED BY <3>1 DEF File!Off, InstanceType, FilePlaces, Contents
  <2> HIDE DEF x
  <2>3. \A j \in Instances : instance'[j] = IF j = i THEN x ELSE instance[j]
    BY <2>1 DEF FileInv, FileTypeOK
  <2>4. \A m \in File!Writes : data'[m] = IF m = n THEN "part" ELSE data[m]
    BY <1>3 DEF FileInv, FileTypeOK
  <2>5. n \notin perhaps
    BY <1>3, <2>2 DEF FileInv, File!NeverTorn
  <2>6. \A j \in Instances : instance[j].n # n
    BY <1>3, <2>2 DEF FileInv, OwnContents
  <2>7. FileTypeOK'
    BY <1>3, <2>1, <2>2 DEF FileInv, FileTypeOK, DataStates, Contents
  <2>8. OwnContents'
    BY <2>2, <2>3, <2>4, <2>6 DEF FileInv, OwnContents
  <2>9. NotYetRenamed'
    <3>1. \A j \in Instances \ {i} :
            instance[j].n # File!None => instance[j].n \in File!Writes /\ instance[j].n # n
      BY <2>6 DEF FileInv, OwnContents
    <3> QED
      BY <2>1, <2>2, <2>3, <2>4, <2>5, <3>1 DEF FileInv, NotYetRenamed, Unpublished
  <2>10. File!NeverTorn'
    <3>1. \A m \in perhaps : m # File!None => m \in File!Writes /\ m # n
      BY <2>5 DEF FileInv, FileTypeOK, Contents
    <3> QED BY <2>1, <2>4, <3>1 DEF FileInv, File!NeverTorn, TargetIsLikely
  <2>11. File!FailureChangesNothing'
    BY <2>1, <2>2, <2>3 DEF FileInv, File!FailureChangesNothing
  <2> QED
    BY <2>1, <2>7, <2>8, <2>9, <2>10, <2>11 DEF FileInv, TargetIsLikely, File!VerifiedSurvives
<1> QED BY <1>2, <1>3 DEF File!CreateTemp

\* Writing and syncing touch only contents that are not in the file.
LEMMA StepKeeps ==
  ASSUME FileInv, NEW i \in Instances,
         NEW place \in {"write", "sync"}, NEW next \in {"sync", "rename"},
         NEW state \in {"whole", "synced"},
         next = "rename" => state = "synced", File!Step(i, place, next, state)
  PROVE  FileInv'
<1> DEFINE s == instance[i]
<1>1. /\ s \in InstanceType /\ s.at = place /\ target \in perhaps /\ perhaps \subseteq since
      /\ s.n # File!None /\ s.n \notin perhaps /\ s.n \in File!Writes
      /\ s.result = "error" => target # s.n
      /\ UNCHANGED <<target, perhaps, temps, since>>
  BY DEF FileInv, FileTypeOK, TargetIsLikely, File!VerifiedSurvives, NotYetRenamed, Unpublished,
         OwnContents, File!FailureChangesNothing, File!Step
<1>2. CASE File!Goes(i, "remove") /\ UNCHANGED data
  <2> DEFINE x == [s EXCEPT !.at = "remove"]
  <2>1. instance' = [instance EXCEPT ![i] = x]
    BY <1>2 DEF File!Goes
  <2>2. /\ x \in InstanceType /\ x.n = s.n /\ x.result = s.result /\ x.at = "remove"
    BY <1>1 DEF InstanceType, FilePlaces
  <2> HIDE DEF x
  <2> QED BY <1>1, <1>2, <2>1, <2>2, OneInstanceMoves
<1>3. CASE File!Goes(i, next) /\ data' = [data EXCEPT ![s.n] = state]
  <2> DEFINE x == [s EXCEPT !.at = next]
  <2>1. instance' = [instance EXCEPT ![i] = x]
    BY <1>3 DEF File!Goes
  <2>2. /\ x \in InstanceType /\ x.n = s.n /\ x.result = s.result /\ x.at = next
    BY <1>1 DEF InstanceType, FilePlaces
  <2> HIDE DEF x
  <2>3. \A j \in Instances : instance'[j] = IF j = i THEN x ELSE instance[j]
    BY <2>1 DEF FileInv, FileTypeOK
  <2>4. \A m \in File!Writes : data'[m] = IF m = s.n THEN state ELSE data[m]
    BY <1>3 DEF FileInv, FileTypeOK
  <2>5. FileTypeOK'
    BY <1>1, <1>3, <2>1, <2>2 DEF FileInv, FileTypeOK, DataStates
  <2>6. OwnContents'
    BY <1>1, <2>2, <2>3, <2>4 DEF FileInv, OwnContents
  <2>7. NotYetRenamed'
    <3>1. \A j \in Instances \ {i} :
             instance[j].n # File!None => instance[j].n # s.n /\ instance[j].n \in File!Writes
      BY <1>1 DEF FileInv, OwnContents
    <3> QED
      BY <1>1, <2>2, <2>3, <2>4, <3>1 DEF FileInv, NotYetRenamed, Unpublished
  <2>8. File!NeverTorn'
    BY <1>1, <1>3 DEF FileInv, FileTypeOK, File!NeverTorn
  <2>9. File!FailureChangesNothing'
    BY <1>1, <2>2, <2>3 DEF FileInv, File!FailureChangesNothing
  <2> QED
    BY <1>1, <2>5, <2>6, <2>7, <2>8, <2>9 DEF FileInv, TargetIsLikely, File!VerifiedSurvives
<1> QED BY <1>2, <1>3 DEF File!Step

\* What is renamed was synced, and is nobody else's.
LEMMA FileRenameKeeps ==
  ASSUME FileInv, NEW i \in Instances, File!Rename(i)
  PROVE  FileInv'
<1> DEFINE s == instance[i]
<1>1. /\ s \in InstanceType /\ s.at = "rename" /\ target \in perhaps /\ perhaps \subseteq since
      /\ s.n # File!None /\ s.n \notin perhaps /\ s.n \in File!Writes /\ data[s.n] = "synced"
      /\ s.result = "none" /\ UNCHANGED data
  BY DEF FileInv, FileTypeOK, TargetIsLikely, File!VerifiedSurvives, NotYetRenamed, Unpublished,
         OwnContents, File!FailureChangesNothing, File!Rename
<1>2. CASE File!Goes(i, "remove") /\ UNCHANGED <<target, perhaps, since, temps>>
  <2> DEFINE x == [s EXCEPT !.at = "remove"]
  <2>1. instance' = [instance EXCEPT ![i] = x]
    BY <1>2 DEF File!Goes
  <2>2. /\ x \in InstanceType /\ x.n = s.n /\ x.result = s.result /\ x.at = "remove"
    BY <1>1 DEF InstanceType, FilePlaces
  <2> HIDE DEF x
  <2> QED BY <1>1, <1>2, <2>1, <2>2, OneInstanceMoves
<1>3. CASE /\ target' = s.n /\ perhaps' = perhaps \cup {s.n} /\ since' = since \cup {s.n}
           /\ temps' = temps \ {s.n} /\ File!Goes(i, "sync directory")
  <2> DEFINE x == [s EXCEPT !.at = "sync directory"]
  <2>1. instance' = [instance EXCEPT ![i] = x]
    BY <1>3 DEF File!Goes
  <2>2. /\ x \in InstanceType /\ x.n = s.n /\ x.result = s.result /\ x.at = "sync directory"
    BY <1>1 DEF InstanceType, FilePlaces
  <2> HIDE DEF x
  <2>3. \A j \in Instances : instance'[j] = IF j = i THEN x ELSE instance[j]
    BY <2>1 DEF FileInv, FileTypeOK
  <2>4. \A j \in Instances \ {i} : instance[j].n # s.n
    BY <1>1 DEF FileInv, OwnContents
  <2>5. FileTypeOK'
    BY <1>1, <1>3, <2>1, <2>2 DEF FileInv, FileTypeOK, Contents
  <2>6. OwnContents'
    <3>1. \A j \in Instances : instance'[j].n = instance[j].n
      BY <2>2, <2>3
    <3> QED BY <1>1, <3>1 DEF FileInv, OwnContents
  <2>7. NotYetRenamed'
    BY <1>1, <1>3, <2>2, <2>3, <2>4 DEF FileInv, NotYetRenamed, Unpublished
  <2>8. File!NeverTorn' /\ TargetIsLikely' /\ File!VerifiedSurvives'
    BY <1>1, <1>3 DEF FileInv, File!NeverTorn, TargetIsLikely, File!VerifiedSurvives
  <2>9. File!FailureChangesNothing'
    BY <1>1, <1>3, <2>2, <2>3, <2>4 DEF FileInv, File!FailureChangesNothing
  <2> QED BY <2>5, <2>6, <2>7, <2>8, <2>9 DEF FileInv
<1> QED BY <1>2, <1>3 DEF File!Rename

\* Deleting needs no temporary file, and none is a complete value.
LEMMA DeleteKeeps ==
  ASSUME FileInv, NEW i \in Instances, File!Delete(i)
  PROVE  FileInv'
<1> DEFINE s == instance[i]
<1>1. /\ s \in InstanceType /\ s.at = "idle" /\ target \in perhaps /\ perhaps \subseteq since
      /\ UNCHANGED <<data, temps>>
  BY DEF FileInv, FileTypeOK, TargetIsLikely, File!VerifiedSurvives, File!Delete
<1>2. CASE File!Returns(i, "Verified") /\ UNCHANGED <<target, perhaps, since>>
  <2> DEFINE x == [s EXCEPT !.at = "idle", !.result = "Verified"]
  <2>1. instance' = [instance EXCEPT ![i] = x]
    BY <1>2 DEF File!Returns
  <2>2. /\ x \in InstanceType /\ x.n = s.n /\ x.result = "Verified" /\ x.at = "idle"
    BY <1>1 DEF InstanceType, FilePlaces
  <2> HIDE DEF x
  <2> QED BY <1>1, <1>2, <2>1, <2>2, OneInstanceMoves
<1>3. CASE File!Refuses(i) /\ UNCHANGED <<target, perhaps, since>>
  <2> DEFINE x == [s EXCEPT !.n = File!None, !.result = "error"]
  <2>1. instance' = [instance EXCEPT ![i] = x]
    BY <1>3 DEF File!Refuses
  <2>2. /\ x \in InstanceType /\ x.n = File!None /\ x.at = s.at
    BY <1>1 DEF InstanceType, Contents
  <2> HIDE DEF x
  <2> QED BY <1>1, <1>3, <2>1, <2>2, OneInstanceMoves
<1>4. CASE /\ target' = File!None /\ perhaps' = perhaps \cup {File!None}
              /\ since' = since \cup {File!None}
           /\ File!Enters(i, "sync directory", File!None)
  <2> DEFINE x == [File!Off EXCEPT !.at = "sync directory", !.n = File!None]
  <2>1. instance' = [instance EXCEPT ![i] = x]
    BY <1>4 DEF File!Enters
  <2>2. /\ x \in InstanceType /\ x.n = File!None /\ x.at = "sync directory"
    BY DEF File!Off, InstanceType, FilePlaces, Contents
  <2> HIDE DEF x
  <2>3. \A j \in Instances : instance'[j] = IF j = i THEN x ELSE instance[j]
    BY <2>1 DEF FileInv, FileTypeOK
  <2>4. FileTypeOK'
    BY <1>1, <1>4, <2>1, <2>2 DEF FileInv, FileTypeOK, Contents
  <2>5. OwnContents'
    <3>1. \A j \in Instances : instance'[j].n # File!None =>
             j # i /\ instance'[j].n = instance[j].n
      BY <2>2, <2>3
    <3>2. data' = data
      BY <1>1
    <3> QED BY <3>1, <3>2 DEF FileInv, OwnContents
  <2>6. NotYetRenamed'
    BY <1>1, <1>4, <2>2, <2>3 DEF FileInv, NotYetRenamed, Unpublished
  <2>7. File!NeverTorn' /\ TargetIsLikely' /\ File!VerifiedSurvives'
    BY <1>1, <1>4 DEF FileInv, File!NeverTorn, TargetIsLikely, File!VerifiedSurvives
  <2>8. File!FailureChangesNothing'
    BY <1>4, <2>2, <2>3 DEF FileInv, File!FailureChangesNothing
  <2> QED BY <2>4, <2>5, <2>6, <2>7, <2>8 DEF FileInv
<1> QED BY <1>2, <1>3, <1>4 DEF File!Delete

\* The power takes every instance with it, and of the contents only those that were not
\* synced.
LEMMA PowerLossKeeps == ASSUME FileInv, File!PowerLoss PROVE FileInv'
<1>1. File!Off \in InstanceType /\ File!Off.n = File!None /\ File!Off.at = "off"
      /\ File!Off.result = "none"
  BY DEF File!Off, InstanceType, FilePlaces, Contents
<1>2. /\ target' \in perhaps /\ perhaps' = {target'} /\ since' = {target'}
      /\ temps' \subseteq temps
      /\ instance' = [i \in Instances |-> File!Off]
      /\ data' = [n \in File!Writes |-> IF data[n] \in {"part", "whole"} THEN "torn" ELSE data[n]]
  BY DEF File!PowerLoss
<1>3. \A i \in Instances : instance'[i] = File!Off
  BY <1>2
<1>4. FileTypeOK'
  <2>1. data' \in [File!Writes -> DataStates]
    BY <1>2 DEF FileInv, FileTypeOK, DataStates
  <2>2. instance' \in [Instances -> InstanceType]
    BY <1>1, <1>2
  <2> QED BY <1>2, <2>1, <2>2 DEF FileInv, FileTypeOK
<1>5. OwnContents' /\ NotYetRenamed' /\ File!FailureChangesNothing'
  BY <1>1, <1>3 DEF OwnContents, NotYetRenamed, Unpublished, File!FailureChangesNothing
<1>6. File!NeverTorn'
  <2>1. target' # File!None => target' \in File!Writes /\ data[target'] = "synced"
    BY <1>2 DEF FileInv, FileTypeOK, Contents, File!NeverTorn
  <2> QED BY <1>2, <2>1 DEF File!NeverTorn
<1> QED
  BY <1>2, <1>4, <1>5, <1>6 DEF FileInv, TargetIsLikely, File!VerifiedSurvives

\* Every step of an instance, and every power loss, keeps the invariant.
LEMMA FileStep == FileInv /\ [File!Next]_(File!vars) => FileInv'
<1> SUFFICES ASSUME FileInv, [File!Next]_(File!vars) PROVE FileInv'
  OBVIOUS
<1>1. CASE UNCHANGED File!vars
  BY <1>1 DEF File!vars, FileInv, FileTypeOK, TargetIsLikely, OwnContents, NotYetRenamed,
              Unpublished, File!NeverTorn, File!VerifiedSurvives, File!FailureChangesNothing
<1>2. CASE File!PowerLoss
  BY <1>2, PowerLossKeeps
<1>3. ASSUME NEW i \in Instances,
             \/ File!Start(i) \/ File!CleanOne(i) \/ File!CleanEnds(i) \/ File!RemoveTemp(i)
             \/ File!SyncDirectory(i) \/ File!ReadBack(i) \/ File!Crash(i)
      PROVE  FileInv'
  BY <1>3, QuietSteps
<1>4. ASSUME NEW i \in Instances, File!CreateTemp(i) PROVE FileInv'
  BY <1>4, CreateKeeps
<1>5. ASSUME NEW i \in Instances, File!WriteTemp(i) PROVE FileInv'
  BY <1>5, StepKeeps DEF File!WriteTemp
<1>6. ASSUME NEW i \in Instances, File!SyncTemp(i) PROVE FileInv'
  BY <1>6, StepKeeps DEF File!SyncTemp
<1>7. ASSUME NEW i \in Instances, File!Rename(i) PROVE FileInv'
  BY <1>7, FileRenameKeeps
<1>8. ASSUME NEW i \in Instances, File!Delete(i) PROVE FileInv'
  BY <1>8, DeleteKeeps
<1> QED BY <1>1, <1>2, <1>3, <1>4, <1>5, <1>6, <1>7, <1>8 DEF File!Next

\* The invariant the theorems about the written files rest on.
LEMMA FileInvariant == File!Spec => []FileInv
<1> QED BY FileInit, FileStep, PTL DEF File!Spec

\* Whoever dies when, and whenever the power fails, the key and the preferences are
\* absent or complete: what is renamed over them was synced (write_temporary and
\* persist in credentials/file.rs and persistence/file.rs).
THEOREM FileIsNeverTorn == File!Spec => []File!NeverTorn
<1>1. FileInv => File!NeverTorn
  BY DEF FileInv
<1> QED BY <1>1, FileInvariant, PTL

\* A change reported as Verified (CommitStatus) outlives a power loss.
THEOREM VerifiedIsKept == File!Spec => []File!VerifiedSurvives
<1>1. FileInv => File!VerifiedSurvives
  BY DEF FileInv
<1> QED BY <1>1, FileInvariant, PTL

\* A change reported as failed is not in the file, whatever other instances did in
\* between; but an error that comes of a failed sync and a failed read after it
\* ("unread": the last arm of replace_with_commit) says nothing of the file.
THEOREM FailedIsNotThere == File!Spec => []File!FailureChangesNothing
<1>1. FileInv => File!FailureChangesNothing
  BY DEF FileInv
<1> QED BY <1>1, FileInvariant, PTL

\* Replacing the key or the preferences is safe, for any number of instances, contents,
\* failures and power losses.
THEOREM FileSafety == File!Spec => []File!FileIsSafe
<1>1. File!NeverTorn /\ File!VerifiedSurvives /\ File!FailureChangesNothing => File!FileIsSafe
  BY DEF File!FileIsSafe
<1> QED BY <1>1, FileIsNeverTorn, VerifiedIsKept, FailedIsNotThere, PTL

-----------------------------------------------------------------------------
(* A turn's process group.                                                   *)

Signals == {"SIGINT", "SIGTERM", "SIGKILL"}
Results == {"none", "Stdin", "Interrupted", "InterruptedAfterSpawn", "Spawn", "StderrLimit",
            "Stdout", "Reap", "NonZeroExit"}

GroupTypeOK ==
  /\ leader \in {"none", "run", "zombie", "reaped"}
  /\ members \in Nat
  /\ reused \in BOOLEAN /\ stranger \in BOOLEAN
  /\ child \in [at : {"spawn", "stdin", "stream", "exit", "join", "reap", "end"} \cup Signals,
                error : Results, mode : {"none", "graceful", "exited", "uncertain"},
                unsignalled : BOOLEAN, undrained : Results, result : Results]

(* The inductive invariant: the leader is reaped last of all, so that until  *)
(* then the group's id is its own; and once the last signal has been sent     *)
(* the group is dead, or a failure to signal it will be reported.            *)
LeaderIsReapedLast ==
  /\ ~stranger
  /\ reused => leader = "reaped"
  /\ leader = "reaped" => Group!Ended

NoGroupBeforeSpawn ==
  /\ child.at = "spawn" => leader = "none"
  /\ leader = "none" => members = 0 /\ child.at \in {"spawn", "end"}

DeadOnceSignalled ==
  child.at \in {"join", "reap"} /\ ~child.unsignalled /\ child.mode # "uncertain" => ~Group!Live

GroupInv == /\ GroupTypeOK /\ LeaderIsReapedLast /\ NoGroupBeforeSpawn /\ DeadOnceSignalled
            /\ Group!GroupEnds

\* Before the spawn there is no process of the group.
LEMMA GroupInit == Group!Init => GroupInv
<1> SUFFICES ASSUME Group!Init PROVE GroupInv
  OBVIOUS
<1>1. GroupTypeOK
  BY DEF Group!Init, GroupTypeOK, Results
<1>2. /\ child.at = "spawn" /\ leader = "none" /\ members = 0
      /\ ~reused /\ ~stranger
  BY DEF Group!Init
<1> QED
  BY <1>1, <1>2 DEF GroupInv, LeaderIsReapedLast, NoGroupBeforeSpawn,
                    DeadOnceSignalled, Group!GroupEnds, Group!Ended

\* What forks, exits or is waited for beside ClaudeChild.
LEMMA OthersKeep ==
  ASSUME GroupInv,
         Group!Fork \/ Group!MemberExits \/ Group!LeaderExits \/ Group!StderrEnds
           \/ Group!Reused \/ Group!Cancel \/ Group!OrphanReaped
  PROVE  GroupInv'
<1> USE DEF GroupInv, GroupTypeOK, LeaderIsReapedLast, NoGroupBeforeSpawn,
            DeadOnceSignalled, Group!GroupEnds, Group!Ended, Group!Live
<1>1. CASE Group!Fork
  BY <1>1 DEF Group!Fork
<1>2. CASE Group!MemberExits
  BY <1>2 DEF Group!MemberExits
<1>3. CASE Group!LeaderExits
  BY <1>3 DEF Group!LeaderExits
<1>4. CASE Group!StderrEnds
  BY <1>4 DEF Group!StderrEnds, Group!group
<1>5. CASE Group!Reused
  BY <1>5 DEF Group!Reused
<1>6. CASE Group!Cancel
  BY <1>6 DEF Group!Cancel, Group!group
<1>7. CASE Group!OrphanReaped
  BY <1>7 DEF Group!OrphanReaped
<1> QED BY <1>1, <1>2, <1>3, <1>4, <1>5, <1>6, <1>7

\* A signal reaches the child's own group, and the last one ends it.
LEMMA SignalKeeps ==
  ASSUME GroupInv, NEW signal \in Signals, Group!Signal(signal)
  PROVE  GroupInv'
<1>1. child.at = signal /\ ~reused /\ leader # "none" /\ leader # "reaped"
  BY DEF Group!Signal, Signals, GroupInv, GroupTypeOK, LeaderIsReapedLast, NoGroupBeforeSpawn,
         Group!Ended
<1>2. Group!Following(signal) \in {"SIGTERM", "SIGKILL", "join"}
  BY DEF Group!Following, Signals
<1>3. Group!Following(signal) = "join" => signal = "SIGKILL"
  BY DEF Group!Following, Signals
<1>4. reused' = reused
  BY DEF Group!Signal, Group!Only
<1>5. CASE /\ Group!Signalled(signal)
           /\ child' = [child EXCEPT !.at = Group!Following(signal)]
  <2>1. stranger' = FALSE
    BY <1>1, <1>5 DEF Group!Signalled, GroupInv, GroupTypeOK, LeaderIsReapedLast
  <2>2. members' \in Nat
    BY <1>5 DEF Group!Signalled, GroupInv, GroupTypeOK
  <2>3. leader' \in {"run", "zombie"}
    BY <1>1, <1>5 DEF Group!Signalled, GroupInv, GroupTypeOK
  <2>4. signal = "SIGKILL" => leader' = "zombie" /\ members' = 0
    BY <1>1, <1>5 DEF Group!Signalled, GroupInv, GroupTypeOK
  <2>5. GroupTypeOK'
    BY <1>2, <1>4, <1>5, <2>1, <2>2, <2>3 DEF GroupInv, GroupTypeOK, Signals
  <2>6. /\ child'.at = Group!Following(signal) /\ child'.unsignalled = child.unsignalled
        /\ child'.mode = child.mode
    BY <1>5 DEF GroupInv, GroupTypeOK
  <2>7. DeadOnceSignalled'
    BY <1>2, <1>3, <2>4, <2>6 DEF DeadOnceSignalled, Group!Live
  <2> QED
    BY <1>1, <1>2, <1>4, <2>1, <2>3, <2>5, <2>6, <2>7
    DEF GroupInv, LeaderIsReapedLast, NoGroupBeforeSpawn, Group!GroupEnds, Group!Ended
<1>6. CASE /\ child' = [child EXCEPT !.at = Group!Following(signal), !.unsignalled = TRUE]
           /\ UNCHANGED <<leader, members, stranger>>
  BY <1>1, <1>2, <1>4, <1>6
  DEF GroupInv, GroupTypeOK, LeaderIsReapedLast, NoGroupBeforeSpawn,
      DeadOnceSignalled, Group!GroupEnds, Group!Ended, Group!Live, Signals
<1> QED BY <1>5, <1>6 DEF Group!Signal

\* The leader is reaped when nothing will be signalled any more; a failure to signal the
\* group becomes the result.
LEMMA ReapKeeps ==
  ASSUME GroupInv, Group!Reap
  PROVE  GroupInv'
<1> USE DEF GroupInv, GroupTypeOK
<1>1. child.at = "reap" /\ ~reused
  BY DEF Group!Reap, LeaderIsReapedLast, Group!Ended
<1>2. \A unreaped \in BOOLEAN, exit \in Results :
        /\ Group!Outcome(unreaped, exit) \in Results
        /\ child.unsignalled => Group!Outcome(unreaped, exit) = "Reap"
  BY DEF Group!Outcome, Results
<1>3. PICK unreaped \in BOOLEAN, exit \in Results : Group!Returns(Group!Outcome(unreaped, exit))
  BY DEF Group!Reap, Results
<1>4. /\ child' = [child EXCEPT !.at = "end", !.result = Group!Outcome(unreaped, exit)]
      /\ members' = members /\ reused' = reused /\ stranger' = stranger
  BY <1>3 DEF Group!Reap, Group!Returns, Group!Only
<1>5. /\ leader' \in {"none", "zombie", "reaped"}
      /\ leader' = "none" => leader = "none"
  BY DEF Group!Reap
<1>6. child.mode # "uncertain" /\ child'.result # "Reap" => ~Group!Live
  BY <1>1, <1>2, <1>4 DEF DeadOnceSignalled
<1>7. child'.at = "end" /\ child'.mode = child.mode
  BY <1>4
<1>8. GroupTypeOK'
  BY <1>2, <1>4, <1>5
<1>9. Group!GroupEnds'
  BY <1>4, <1>5, <1>6, <1>7 DEF Group!GroupEnds, Group!Live
<1> QED
  BY <1>1, <1>4, <1>5, <1>7, <1>8, <1>9
  DEF LeaderIsReapedLast, NoGroupBeforeSpawn, DeadOnceSignalled, Group!Ended

\* The other steps of ClaudeChild.
LEMMA ChildKeeps ==
  ASSUME GroupInv, Group!Spawn \/ Group!WritePrompt \/ Group!StreamEnds
         \/ Group!ObserveExit \/ Group!JoinStderr
  PROVE  GroupInv'
<1> USE DEF GroupInv, GroupTypeOK, LeaderIsReapedLast, NoGroupBeforeSpawn,
            DeadOnceSignalled, Group!GroupEnds, Group!Ended, Group!Live, Signals, Results
<1>1. CASE Group!Spawn
  <2>1. /\ members = 0 /\ members' = 0
        /\ ~reused /\ reused' = reused /\ ~stranger /\ stranger' = stranger
    BY <1>1 DEF Group!Spawn, Group!Only, Group!group
  <2>2. CASE leader' = "run" /\ child' = [child EXCEPT !.at = "stdin"]
    BY <2>1, <2>2
  <2>3. CASE /\ leader' = "none"
             /\ \E outcome \in {"Stdin", "Interrupted", "Spawn"} : Group!Returns(outcome)
    <3>1. PICK outcome \in {"Stdin", "Interrupted", "Spawn"} :
            child' = [child EXCEPT !.at = "end", !.result = outcome]
      BY <2>3 DEF Group!Returns
    <3>2. outcome \in Results
      OBVIOUS
    <3>3. GroupTypeOK'
      BY <2>1, <2>3, <3>1, <3>2
    <3>4. child'.at = "end" /\ ~Group!Live'
      BY <2>1, <2>3, <3>1
    <3> QED BY <2>1, <2>3, <3>3, <3>4
  <2> QED BY <1>1, <2>2, <2>3 DEF Group!Spawn, Group!group
<1>2. CASE Group!WritePrompt
  BY <1>2 DEF Group!WritePrompt, Group!Gracefully, Group!Only, Group!group
<1>3. CASE Group!StreamEnds
  BY <1>3 DEF Group!StreamEnds, Group!Gracefully, Group!Only, Group!group
<1>4. CASE Group!ObserveExit
  <2>1. child.at = "exit" /\ UNCHANGED <<members, reused, stranger>>
    BY <1>4 DEF Group!ObserveExit, Group!Only
  <2>2. ASSUME leader' = leader, NEW stop \in {"Interrupted", "Reap"}, Group!Gracefully(stop)
        PROVE  GroupInv'
    <3>1. child' = [child EXCEPT !.at = "SIGINT", !.error = stop, !.mode = "graceful"]
      BY <2>2 DEF Group!Gracefully
    <3> QED BY <2>1, <2>2, <3>1
  <2>3. CASE /\ Group!SeenExit
             /\ child' = [child EXCEPT !.at = "SIGKILL", !.mode = "exited"]
    BY <2>1, <2>3 DEF Group!SeenExit
  <2>4. CASE /\ leader' = leader
             /\ child' = [child EXCEPT !.at = "join", !.mode = "uncertain", !.error = "Reap"]
    BY <2>1, <2>4
  <2> QED BY <1>4, <2>2, <2>3, <2>4 DEF Group!ObserveExit
<1>5. CASE Group!JoinStderr
  BY <1>5 DEF Group!JoinStderr, Group!Only, Group!group
<1> QED BY <1>1, <1>2, <1>3, <1>4, <1>5

\* Every step of ClaudeChild and of its group keeps the invariant.
LEMMA GroupStep == GroupInv /\ [Group!Next]_(Group!vars) => GroupInv'
<1> SUFFICES ASSUME GroupInv, [Group!Next]_(Group!vars) PROVE GroupInv'
  OBVIOUS
<1>1. CASE Group!Next
  BY <1>1, OthersKeep, SignalKeeps, ReapKeeps, ChildKeeps DEF Group!Next, Signals
<1>2. CASE UNCHANGED Group!vars
  BY <1>2 DEF Group!vars, Group!group, GroupInv, GroupTypeOK, LeaderIsReapedLast,
     NoGroupBeforeSpawn,
              DeadOnceSignalled, Group!GroupEnds, Group!Ended, Group!Live
<1> QED BY <1>1, <1>2

\* The invariant the theorems about the process group rest on.
LEMMA GroupInvariant == Group!Spec => []GroupInv
BY GroupInit, GroupStep, PTL DEF Group!Spec

\* No group but the child's own is ever signalled (signal_group, kill_on_drop), for any
\* number of processes and failures.
THEOREM OnlyItsGroupIsSignalled == Group!Spec => []Group!SignalsOnlyItsGroup
<1>1. GroupInv => Group!SignalsOnlyItsGroup
  BY DEF GroupInv, LeaderIsReapedLast, Group!SignalsOnlyItsGroup
<1> QED BY <1>1, GroupInvariant, PTL

\* However a turn ends, its group is dead or the call says that it may not be
\* (cleanup_child).
THEOREM NothingOutlivesTheTurn == Group!Spec => []Group!GroupEnds
<1>1. GroupInv => Group!GroupEnds
  BY DEF GroupInv
<1> QED BY <1>1, GroupInvariant, PTL

\* A turn's group is ended, and no other is touched, whatever its size and however often
\* system calls fail.
THEOREM GroupSafety == Group!Spec => []Group!GroupIsEnded
<1>1. Group!SignalsOnlyItsGroup /\ Group!GroupEnds => Group!GroupIsEnded
  BY DEF Group!GroupIsEnded
<1> QED BY <1>1, OnlyItsGroupIsSignalled, NothingOutlivesTheTurn, PTL

-----------------------------------------------------------------------------
(* Listing threads.                                                          *)

Entry == [id : Threads, cwd : {"current", "historical"}, ephemeral : BOOLEAN, odd : BOOLEAN]

ListingTypeOK ==
  /\ cwd \in {1, 2}
  /\ seen \in [Threads -> {Pages!Unseen, "current", "historical"}]
  /\ threads \in Seq(Threads)
  /\ page \in [rest : Seq(Entry), next : Cursors \cup {Pages!End, Pages!BadCursor}]
  /\ given \subseteq Entry

(* The inductive invariant: as long as nothing was refused, what is to be     *)
(* shown is what was given, and each id is known under the directory it came  *)
(* with.                                                                      *)
ShownIsGiven ==
  at # "failed" =>
    /\ Pages!IsInjective(threads)
    /\ Pages!Range(threads) = {entry.id : entry \in {e \in given : ~e.ephemeral}}
    /\ \A e \in given : seen[e.id] = e.cwd

ListingInv == ListingTypeOK /\ ShownIsGiven

\* The entries of a page are of one of the two directories.
LEMMA EntriesAreOfCwds ==
  /\ Pages!Entries = Entry
  /\ Pages!Cwds[1] = "current" /\ Pages!Cwds[2] = "historical"
<1>1. Pages!Range(Pages!Cwds) = {"current", "historical"}
  BY DEF Pages!Range, Pages!Cwds
<1> QED BY <1>1 DEF Pages!Entries, Entry, Pages!Cwds

\* Before the first page nothing is shown.
LEMMA ListingInit == Pages!Init => ListingInv
<1> SUFFICES ASSUME Pages!Init PROVE ListingInv
  OBVIOUS
<1>1. ListingTypeOK
  BY DEF Pages!Init, ListingTypeOK, Pages!Unseen
<1>2. ShownIsGiven
  BY DEF Pages!Init, ShownIsGiven, Pages!IsInjective, Pages!Range
<1> QED BY <1>1, <1>2 DEF ListingInv

\* Asking for a page shows nothing.
LEMMA RequestKeeps ==
  ASSUME ListingInv, Pages!Request
  PROVE  ListingInv'
<1>1. UNCHANGED <<cwd, seen, threads, given>> /\ at = "request"
  BY DEF Pages!Request, Pages!Nothing
<1>2. page' = page \/ \E next \in Cursors \cup {Pages!End, Pages!BadCursor} :
                      \E rest \in UNION {[1 .. n -> Entry] : n \in 0 .. MaxPageItems} :
                        page' = [rest |-> rest, next |-> next]
  BY EntriesAreOfCwds DEF Pages!Request
<1>3. page' \in [rest : Seq(Entry), next : Cursors \cup {Pages!End, Pages!BadCursor}]
  <2>1. CASE page' = page
    BY <2>1 DEF ListingInv, ListingTypeOK
  <2>2. CASE page' # page
    <3>1. PICK next \in Cursors \cup {Pages!End, Pages!BadCursor}, n \in 0 .. MaxPageItems :
            \E rest \in [1 .. n -> Entry] : page' = [rest |-> rest, next |-> next]
      BY <1>2, <2>2
    <3>2. n \in Nat
      BY PartsAssumption
    <3>3. [1 .. n -> Entry] \subseteq Seq(Entry)
      BY <3>2
    <3> QED BY <3>1, <3>3
  <2> QED BY <2>1, <2>2
<1>4. ListingTypeOK'
  BY <1>1, <1>3 DEF ListingInv, ListingTypeOK
<1>5. ShownIsGiven'
  BY <1>1 DEF ListingInv, ShownIsGiven
<1> QED BY <1>4, <1>5 DEF ListingInv

\* An entry that is taken is known under the directory it came with, and shown once if it
\* is one to keep.
LEMMA RetainKeeps ==
  ASSUME ListingInv, Pages!Retain
  PROVE  ListingInv'
<1> DEFINE entry == Head(page.rest)
           show  == ~entry.ephemeral /\ ~Pages!Shown(entry.id)
<1>1. entry \in Entry /\ Tail(page.rest) \in Seq(Entry) /\ at = "page"
  BY HeadTailProperties DEF ListingInv, ListingTypeOK, Pages!Retain
<1>2. given' = given \cup {entry} /\ cwd' = cwd
  BY DEF Pages!Retain
<1>3. CASE ~Pages!Acceptable(entry)
  <2>1. at' = "failed" /\ UNCHANGED <<seen, threads, page>>
    BY <1>3 DEF Pages!Retain, Pages!Fail
  <2>2. ListingTypeOK'
    BY <1>1, <1>2, <2>1 DEF ListingInv, ListingTypeOK
  <2> QED BY <2>1, <2>2 DEF ListingInv, ShownIsGiven
<1>4. CASE Pages!Acceptable(entry)
  <2>1. /\ seen' = [seen EXCEPT ![entry.id] = Pages!Cwds[cwd]]
        /\ threads' = IF show THEN Append(threads, entry.id) ELSE threads
        /\ page' = [page EXCEPT !.rest = Tail(@)]
    BY <1>4 DEF Pages!Retain
  <2>2. /\ entry.cwd = Pages!Cwds[cwd] /\ seen[entry.id] \in {Pages!Unseen, entry.cwd}
        /\ Pages!Cwds[cwd] \in {"current", "historical"}
    BY <1>4, EntriesAreOfCwds DEF Pages!Acceptable, ListingInv, ListingTypeOK
  <2>3. entry.id \in Threads /\ threads \in Seq(Threads) /\ threads' \in Seq(Threads)
    BY <1>1, <2>1 DEF Entry, ListingInv, ListingTypeOK
  <2> HIDE DEF entry
  <2>4. ListingTypeOK'
    <3>1. seen' \in [Threads -> {Pages!Unseen, "current", "historical"}]
      BY <2>1, <2>2, <2>3 DEF ListingInv, ListingTypeOK
    <3>2. page' \in [rest : Seq(Entry), next : Cursors \cup {Pages!End, Pages!BadCursor}]
      BY <1>1, <2>1 DEF ListingInv, ListingTypeOK
    <3> QED BY <1>1, <1>2, <2>3, <3>1, <3>2 DEF ListingInv, ListingTypeOK
  <2>5. \A e \in given' : seen'[e.id] = e.cwd
    <3> SUFFICES ASSUME NEW e \in given' PROVE seen'[e.id] = e.cwd
      OBVIOUS
    <3>1. CASE e.id = entry.id /\ e \in given
      <4>1. e \in Entry /\ seen[e.id] = e.cwd
        BY <1>1, <3>1 DEF ListingInv, ListingTypeOK, ShownIsGiven
      <4>2. e.cwd # Pages!Unseen
        BY <4>1 DEF Entry, Pages!Unseen
      <4>3. seen'[e.id] = entry.cwd
        BY <2>1, <2>2, <2>3, <3>1 DEF ListingInv, ListingTypeOK
      <4> QED BY <2>2, <3>1, <4>1, <4>2, <4>3
    <3>2. CASE e = entry
      BY <2>1, <2>2, <2>3, <3>2 DEF ListingInv, ListingTypeOK
    <3>3. CASE e.id # entry.id /\ e \in given
      <4>1. e.id \in Threads /\ seen[e.id] = e.cwd
        BY <1>1, <3>3 DEF ListingInv, ListingTypeOK, ShownIsGiven, Entry
      <4> QED BY <2>1, <3>3, <4>1 DEF ListingInv, ListingTypeOK
    <3> QED BY <1>2, <3>1, <3>2, <3>3
  <2>6. /\ Pages!IsInjective(threads')
        /\ Pages!Range(threads') = {f.id : f \in {e \in given' : ~e.ephemeral}}
    <3>1. /\ Pages!IsInjective(threads)
          /\ Pages!Range(threads) = {f.id : f \in {e \in given : ~e.ephemeral}}
      BY <1>1 DEF ListingInv, ShownIsGiven
    <3>2. CASE show
      <4>1. threads' = Append(threads, entry.id) /\ ~entry.ephemeral
        BY <2>1, <3>2
      <4>2. \A i \in DOMAIN threads : threads[i] # entry.id
        BY <3>2 DEF Pages!Shown
      <4>3. /\ Len(threads) \in Nat /\ DOMAIN threads = 1 .. Len(threads)
            /\ DOMAIN threads' = 1 .. Len(threads) + 1
            /\ threads'[Len(threads) + 1] = entry.id
            /\ \A i \in 1 .. Len(threads) : threads'[i] = threads[i]
        BY <2>3, <4>1
      <4>4. Pages!IsInjective(threads')
        BY <3>1, <4>2, <4>3 DEF Pages!IsInjective
      <4>5. Pages!Range(threads') = Pages!Range(threads) \cup {entry.id}
        BY <4>3 DEF Pages!Range
      <4>6. {f.id : f \in {e \in given' : ~e.ephemeral}}
            = {f.id : f \in {e \in given : ~e.ephemeral}} \cup {entry.id}
        BY <1>2, <4>1
      <4> QED BY <3>1, <4>4, <4>5, <4>6
    <3>3. CASE ~show
      <4>1. threads' = threads
        BY <2>1, <3>3
      <4>2. entry.ephemeral \/ entry.id \in Pages!Range(threads)
        BY <3>3 DEF Pages!Shown, Pages!Range
      <4>3. {f.id : f \in {e \in given' : ~e.ephemeral}}
            = {f.id : f \in {e \in given : ~e.ephemeral}}
        BY <1>2, <3>1, <4>2
      <4> QED BY <3>1, <4>1, <4>3
    <3> QED BY <3>2, <3>3
  <2> QED BY <2>4, <2>5, <2>6 DEF ListingInv, ShownIsGiven
<1> QED BY <1>3, <1>4

\* The end of a page goes on to another page or directory, or ends the listing.
LEMMA PageEndKeeps ==
  ASSUME ListingInv, Pages!PageEnds
  PROVE  ListingInv'
<1>1. UNCHANGED <<seen, threads, given, page>> /\ at = "page" /\ cwd' \in {1, 2}
  BY DEF Pages!PageEnds, Pages!Nothing, ListingInv, ListingTypeOK
<1> QED BY <1>1 DEF ListingInv, ListingTypeOK, ShownIsGiven

\* Every step of a listing keeps the invariant.
LEMMA ListingStep ==
  ASSUME ListingInv, [Pages!Next]_(Pages!vars)
  PROVE  ListingInv'
<1>1. CASE UNCHANGED Pages!vars
  BY <1>1 DEF Pages!vars, ListingInv, ListingTypeOK, ShownIsGiven
<1> QED BY <1>1, RequestKeeps, RetainKeeps, PageEndKeeps DEF Pages!Next

\* Whatever the server gives, a listing that succeeds shows each thread once.
THEOREM ListingSafety == Pages!Spec => []Pages!ListingIsExact
<1>1. ListingInv => Pages!ListingIsExact
  BY DEF ListingInv, ShownIsGiven, Pages!ListingIsExact
<1>2. ListingInv /\ [Pages!Next]_(Pages!vars) => ListingInv'
  BY ListingStep
<1> QED BY <1>1, <1>2, ListingInit, PTL DEF Pages!Spec

-----------------------------------------------------------------------------
(* The parts together.                                                       *)

\* A behaviour is one of the part it has picked: each keeps its own invariant.
PartsInv ==
  /\ part = "Migration" => MigrationInv
  /\ part = "SafeFile" => FileInv
  /\ part = "ProcessGroup" => GroupInv
  /\ part = "Listing" => ListingInv
  /\ part = "AuthTree" => TreeInv

\* The part that is picked starts as it does alone.
LEMMA PartsInit == Init => PartsInv
BY MigrationInit, FileInit, GroupInit, ListingInit, TreeInit DEF Init, PartsInv

\* A step is one of the part that was picked, and leaves it picked.
LEMMA PartsStep ==
  ASSUME PartsInv, [Next]_vars
  PROVE  PartsInv'
<1>1. part' = part
  BY DEF Next, vars
<1>2. ASSUME part = "Migration" PROVE MigrationInv'
  <2>1. [Root!Next]_(Root!vars)
    BY <1>2 DEF Next, vars, migration, Root!vars
  <2> QED BY <1>2, <2>1, MigrationStep DEF PartsInv
<1>3. ASSUME part = "SafeFile" PROVE FileInv'
  <2>1. [File!Next]_(File!vars)
    BY <1>3 DEF Next, vars, safeFile, File!vars
  <2> QED BY <1>3, <2>1, FileStep DEF PartsInv
<1>4. ASSUME part = "ProcessGroup" PROVE GroupInv'
  <2>1. [Group!Next]_(Group!vars)
    BY <1>4 DEF Next, vars, group, Group!vars
  <2> QED BY <1>4, <2>1, GroupStep DEF PartsInv
<1>5. ASSUME part = "Listing" PROVE ListingInv'
  <2>1. [Pages!Next]_(Pages!vars)
    BY <1>5 DEF Next, vars, listing, Pages!vars
  <2> QED BY <1>5, <2>1, ListingStep DEF PartsInv
<1>6. ASSUME part = "AuthTree" PROVE TreeInv'
  <2>1. [Auth!Next]_(Auth!vars)
    BY <1>6 DEF Next, vars, authTree, Auth!vars
  <2> QED BY <1>6, <2>1, TreeStep DEF PartsInv
<1> QED BY <1>1, <1>2, <1>3, <1>4, <1>5, <1>6 DEF PartsInv

\* The invariant the theorems about the parts rest on.
LEMMA PartsInvariant == Spec => []PartsInv
BY PartsInit, PartsStep, PTL DEF Spec

\* The data directory, the key and the preferences survive whoever starts, writes, fails or
\* dies, and any power loss (platform/migration.rs, credentials/file.rs, persistence/file.rs).
\* What failed is not in the file, unless neither the sync nor the read after it worked.
THEOREM StoredFilesAreSafe == Spec => []FilesAreSafe
<1>1. PartsInv => FilesAreSafe
  <2>1. MigrationInv => Root!RootIsMoved
    BY DEF MigrationInv, RunsOnCurrent, MovedIsThere, SyncedIsOnDisk, Root!OneRoot,
           Root!MovedForGood, Root!RootIsMoved
  <2>2. FileInv => File!FileIsSafe
    BY DEF FileInv, File!FileIsSafe
  <2> QED BY <2>1, <2>2 DEF PartsInv, FilesAreSafe
<1> QED BY <1>1, PartsInvariant, PTL

\* Whatever pages the server gives, a listing that succeeds shows each thread once and
\* leaves none out (codex/session/threads.rs, pagination.rs).
THEOREM ListingsAreExact == Spec => []ListingIsExact
<1>1. PartsInv => ListingIsExact
  BY DEF PartsInv, ListingInv, ShownIsGiven, Pages!ListingIsExact, ListingIsExact
<1> QED BY <1>1, PartsInvariant, PTL

\* Whatever the processes do, however often pids are used again and system calls fail: what is
\* cancelled is ended, or a failure says that it may not be, and SIGKILL reaches no other
\* process unless job control has set the tree going (claude/process.rs).
THEOREM CancelledIsEnded == Spec => []ProcessesAreEnded
<1>1. PartsInv => ProcessesAreEnded
  <2>1. GroupInv => Group!GroupIsEnded
    BY DEF GroupInv, LeaderIsReapedLast, Group!SignalsOnlyItsGroup, Group!GroupIsEnded
  <2> QED BY <2>1, TreeIsEnded DEF PartsInv, ProcessesAreEnded
<1> QED BY <1>1, PartsInvariant, PTL
=============================================================================
