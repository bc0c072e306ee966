-------------------------- MODULE AuthTree_proofs --------------------------
(* Theorems about the part of MCParts that cancels `claude auth`, for any    *)
(* number of processes, forks and exits, any limit and any failures: what a  *)
(* cleanup that reports success has left behind, whom SIGKILL reaches, and   *)
(* that the command is reaped.                                               *)
EXTENDS MCParts, TLAPS, SequenceTheorems, FiniteSetTheorems

-----------------------------------------------------------------------------
(* Types, and what the cleanup has in hand.                                  *)

Process ==
  [status : {"none", "run", "stopped", "zombie"}, stopping : BOOLEAN,
   parent : Pids \cup {Auth!Vaire, Auth!Launchd}, start : Nat, tree : BOOLEAN, bereft : BOOLEAN]

PinType == [pid : Pids, parent : Pids \cup {Auth!Vaire, Auth!Launchd}, start : Nat]

CleanerType ==
  [at : {"wait", "inspect", "stop", "await", "list", "next", "check", "kill", "leader",
         "reap", "end"},
   pin : PinType, parents : Seq(PinType), todo : SUBSET Pids, siblings : Seq(PinType),
   pinned : Seq(PinType), failed : BOOLEAN, result : {"none", "ok", "failed", "cancelled"}]

TreeTypeOK ==
  /\ proc \in [Pids -> Process] /\ cleaner \in CleanerType
  /\ starts \in Nat \ {0} /\ continued \in BOOLEAN

\* The kernel: a parent is alive, and of the tree if its child is.
ParentsAlive ==
  \A p \in Pids : proc[p].status # "none" /\ proc[p].parent \in Pids =>
    /\ Auth!Alive(proc[p].parent) /\ proc[p].parent # p
    /\ proc[proc[p].parent].tree = proc[p].tree

StartsArePast == \A p \in Pids : proc[p].start < starts

\* The command keeps its pid until it is reaped.
LeaderKeepsPid ==
  /\ \A p \in Pids \ {Leader} : proc[p].parent # Auth!Vaire
  /\ IF cleaner.at = "end" THEN proc[Leader].status = "none" \/ proc[Leader].start > 0
     ELSE /\ proc[Leader].status # "none" /\ proc[Leader].parent = Auth!Vaire
          /\ proc[Leader].start = 0 /\ proc[Leader].tree

\* What the cleanup has in hand, wherever it is.
PidsOf(s) == {s[n].pid : n \in DOMAIN s}
Pinning == cleaner.at \in {"inspect", "stop", "await"}
Collecting == Pinning \/ cleaner.at \in {"list", "next"}
Killing == cleaner.at \in {"check", "kill"}

WhatIsPinned ==
  /\ cleaner.at = "wait" \/ (Pinning /\ Auth!IsLeader(cleaner)) =>
       /\ cleaner.pin.pid = Leader /\ cleaner.pin.parent = Auth!Vaire
       /\ cleaner.pinned = <<>> /\ cleaner.parents = <<>> /\ cleaner.siblings = <<>>
       /\ cleaner.todo = {}
  /\ Pinning /\ ~Auth!IsLeader(cleaner) =>
       /\ cleaner.pin.parent \in PidsOf(cleaner.pinned)
       /\ cleaner.pin.pid \notin PidsOf(cleaner.pinned)
  /\ cleaner.at = "next" /\ cleaner.todo # {} =>
       cleaner.pin.parent \in PidsOf(cleaner.pinned)
  /\ cleaner.at \in {"next", "list"} => cleaner.pinned # <<>>
  /\ cleaner.at = "list" => cleaner.siblings = <<>> /\ cleaner.todo = {}

Unlisted == Auth!Range(cleaner.parents) \cup Auth!Range(cleaner.siblings)

WhatIsLeft ==
  /\ Collecting => Unlisted \subseteq Auth!Range(cleaner.pinned)
  /\ Killing =>
       /\ Len(cleaner.parents) <= Len(cleaner.pinned)
       /\ \A j \in DOMAIN cleaner.parents :
            cleaner.parents[j] = cleaner.pinned[Len(cleaner.parents) - j + 1]
  /\ cleaner.at = "kill" =>
       /\ cleaner.parents # <<>>
       /\ LET i == Head(cleaner.parents) IN Auth!Alive(i.pid) => Auth!SameInstance(i.pid, i)
  /\ cleaner.at = "leader" => cleaner.failed
  /\ cleaner.at \in {"wait", "reap", "end"} /\ ~cleaner.failed => cleaner.parents = <<>>
  /\ cleaner.result = "cancelled" => cleaner.at = "end" /\ ~cleaner.failed

\* Each pid is pinned once, and after that of its parent.
PinnedInOrder ==
  \A m \in DOMAIN cleaner.pinned :
    /\ \A n \in DOMAIN cleaner.pinned :
         cleaner.pinned[m].pid = cleaner.pinned[n].pid => m = n
    /\ IF m = 1 THEN cleaner.pinned[m].parent = Auth!Vaire
       ELSE \E n \in 1 .. m - 1 : cleaner.pinned[m].parent = cleaner.pinned[n].pid

\* What is pinned is of the tree.
OfTheTree(i) ==
  /\ i.start < starts
  /\ proc[i.pid].status # "none" /\ Auth!SameInstance(i.pid, i) =>
       proc[i.pid].tree \/ (continued /\ i.parent \notin {Auth!Vaire, Leader})
PinnedOfTheTree == \A m \in DOMAIN cleaner.pinned : OfTheTree(cleaner.pinned[m])

\* Without job control what is pinned stays so.
PinnedIsStopped ==
  ~continued /\ Collecting =>
    \A m \in DOMAIN cleaner.pinned :
      Auth!StillStopped(cleaner.pinned[m]) /\ proc[cleaner.pinned[m].pid].tree

Sound == ~continued /\ ~cleaner.failed

Held ==
  (IF Collecting THEN PidsOf(cleaner.pinned) ELSE PidsOf(cleaner.parents))
  \cup (IF cleaner.at = "await" THEN {cleaner.pin.pid} ELSE {})

NothingIsLeftStopped ==
  Sound => \A p \in Pids : Auth!Alive(p) /\ proc[p].tree =>
    /\ ~proc[p].bereft
    /\ (proc[p].stopping \/ proc[p].status # "run") => p \in Held

ChildrenArePinned ==
  Sound /\ Collecting =>
    \A m \in DOMAIN cleaner.pinned : cleaner.pinned[m] \notin Unlisted =>
      \A p \in Pids : Auth!Alive(p) /\ proc[p].parent = cleaner.pinned[m].pid =>
        \/ p \in PidsOf(cleaner.pinned)
        \/ /\ cleaner.pin.parent = cleaner.pinned[m].pid
           /\ p \in cleaner.todo \/ (Pinning /\ p = cleaner.pin.pid)

LeafFirst ==
  Sound /\ Killing =>
    \A m \in 1 .. Len(cleaner.parents) :
      /\ proc[cleaner.pinned[m].pid].status = "stopped"
      /\ \A p \in Pids : Auth!Alive(p) /\ proc[p].parent = cleaner.pinned[m].pid =>
           \E n \in m + 1 .. Len(cleaner.parents) : p = cleaner.pinned[n].pid

TreeInv ==
  /\ TreeTypeOK /\ ParentsAlive /\ StartsArePast /\ LeaderKeepsPid
  /\ WhatIsPinned /\ WhatIsLeft /\ PinnedInOrder /\ PinnedOfTheTree
  /\ PinnedIsStopped /\ NothingIsLeftStopped /\ ChildrenArePinned /\ LeafFirst
  /\ Auth!KillsOnlyTheTree

\* Vaire and launchd are no processes of the model.
LEMMA TreeNames == Leader \in Pids /\ Auth!Vaire \notin Pids /\ Auth!Launchd \notin Pids
  /\ Auth!Vaire # Auth!Launchd
BY PartsAssumption DEF Auth!Vaire, Auth!Launchd

\* Before the command is cancelled nothing is pinned.
LEMMA TreeInit == Auth!Init => TreeInv
<1> SUFFICES ASSUME Auth!Init PROVE TreeInv
  OBVIOUS
<1> USE TreeNames DEF Auth!Init
<1>1. /\ Auth!Free \in Process /\ Auth!Free.status = "none" /\ Auth!Free.start = 0
         /\ Auth!Free.parent = Auth!Launchd
      /\ ~Auth!Free.bereft /\ ~Auth!Free.stopping
  BY DEF Auth!Free, Process
<1>2. \A p \in Pids : proc[p] = IF p = Leader
        THEN [Auth!Free EXCEPT !.status = "run", !.parent = Auth!Vaire, !.tree = TRUE]
          ELSE Auth!Free
  OBVIOUS
<1>3. /\ proc[Leader] \in Process /\ proc[Leader].status = "run" /\ proc[Leader].start = 0
      /\ proc[Leader].parent = Auth!Vaire /\ proc[Leader].tree /\ ~proc[Leader].bereft
      /\ ~proc[Leader].stopping
  BY <1>1, <1>2 DEF Auth!Free, Process
<1>4. proc \in [Pids -> Process]
  BY <1>1, <1>2, <1>3
<1>5. cleaner \in CleanerType
  <2>1. [pid |-> Leader, parent |-> Auth!Vaire, start |-> 0] \in PinType /\ <<>> \in Seq(PinType)
    BY DEF PinType
  <2> QED BY <2>1 DEF CleanerType
<1>6. TreeTypeOK
  <2>1. starts \in Nat \ {0}
    OBVIOUS
  <2>2. continued \in BOOLEAN
    OBVIOUS
  <2> QED BY <1>4, <1>5, <2>1, <2>2 DEF TreeTypeOK
<1>7. ParentsAlive /\ StartsArePast /\ LeaderKeepsPid
  <2>1. starts = 1 /\ cleaner.at = "wait"
    OBVIOUS
  <2>2. \A p \in Pids \ {Leader} : proc[p] = Auth!Free
    BY <1>2
  <2> HIDE DEF Auth!Init
  <2>3. ParentsAlive
    BY <1>1, <1>3, <2>2 DEF ParentsAlive
  <2>4. StartsArePast
    BY <1>1, <1>3, <2>1, <2>2 DEF StartsArePast
  <2>5. LeaderKeepsPid
    BY <1>1, <1>3, <2>1, <2>2 DEF LeaderKeepsPid
  <2> QED BY <2>3, <2>4, <2>5
<1>8. /\ cleaner.at = "wait" /\ cleaner.pin.pid = Leader /\ cleaner.pin.parent = Auth!Vaire
      /\ cleaner.pinned = <<>> /\ cleaner.parents = <<>> /\ cleaner.siblings = <<>>
      /\ cleaner.todo = {} /\ cleaner.result = "none"
  OBVIOUS
<1>9. WhatIsPinned /\ WhatIsLeft
  BY <1>8 DEF WhatIsPinned, WhatIsLeft, Pinning, Collecting, Killing
<1>10. PinnedInOrder /\ PinnedOfTheTree
  BY <1>8 DEF PinnedInOrder, PinnedOfTheTree
<1>11. PinnedIsStopped /\ ChildrenArePinned /\ LeafFirst
  BY <1>8 DEF PinnedIsStopped, ChildrenArePinned, LeafFirst, Pinning, Collecting, Killing
<1>12. NothingIsLeftStopped
  BY <1>1, <1>2, <1>3 DEF NothingIsLeftStopped, Auth!Alive
<1>13. Auth!KillsOnlyTheTree
  BY DEF Auth!KillsOnlyTheTree
<1> QED BY <1>6, <1>7, <1>9, <1>10, <1>11, <1>12, <1>13 DEF TreeInv

\* What happens to the process on a pid: it stays that instance, or a new one takes a free
\* pid.
SameOrNew(p) ==
  proc'[p].status # "none" =>
    \/ /\ proc[p].status # "none"
       /\ proc'[p].start = proc[p].start /\ proc'[p].tree = proc[p].tree
       /\ Auth!Alive(p)' => Auth!Alive(p)
    \/ /\ proc[p].status = "none" /\ proc'[p].start = starts /\ cleaner.at # "kill"

\* What is stopped stays so, and keeps a parent that does not run.
StaysStopped(p) ==
  proc[p].status = "stopped" =>
    /\ proc'[p].status = "stopped" /\ proc'[p].start = proc[p].start
    /\ proc'[p].tree = proc[p].tree
    /\ \/ proc'[p].parent = proc[p].parent
       \/ proc[p].parent \in Pids /\ proc[proc[p].parent].status = "run"

\* What is stopped has no new children.
NoNewChild(p) ==
  \A q \in Pids : proc[q].status = "stopped" /\ Auth!Alive(p)' /\ proc'[p].parent = q =>
    Auth!Alive(p) /\ proc[p].parent = q

\* Nothing of the tree is stopped or bereft that was not.
NotDisturbed(p) ==
  Auth!Alive(p)' /\ proc'[p].tree =>
    \/ /\ Auth!Alive(p) /\ proc[p].tree /\ (proc'[p].bereft => proc[p].bereft)
       /\ (proc'[p].stopping \/ proc'[p].status # "run") =>
            proc[p].stopping \/ proc[p].status # "run"
    \/ ~proc'[p].bereft /\ ~proc'[p].stopping /\ proc'[p].status = "run"

\* What is pinned stays of the tree, whoever forks or ends.
LEMMA StaysOfTheTree ==
  ASSUME TreeInv, starts' \in Nat, starts <= starts', continued => continued',
         \A p \in Pids : SameOrNew(p), cleaner'.pinned = cleaner.pinned
  PROVE  PinnedOfTheTree'
<1> SUFFICES ASSUME NEW m \in DOMAIN cleaner.pinned PROVE OfTheTree(cleaner.pinned[m])'
  BY DEF PinnedOfTheTree
<1> DEFINE i == cleaner.pinned[m]
<1>1. i \in PinType
  BY DEF TreeInv, TreeTypeOK, CleanerType
<1>2. OfTheTree(i) /\ starts \in Nat
  BY DEF TreeInv, TreeTypeOK, PinnedOfTheTree
<1>3. i.pid \in Pids /\ i.start \in Nat /\ i = cleaner'.pinned[m]
  BY <1>1 DEF PinType
<1> HIDE DEF i
<1>4. SameOrNew(i.pid)
  BY <1>3
<1>5. i.start < starts'
  BY <1>2, <1>3 DEF OfTheTree
<1>6. ASSUME proc'[i.pid].status # "none", proc'[i.pid].start = i.start
      PROVE  proc'[i.pid].tree \/ (continued' /\ i.parent \notin {Auth!Vaire, Leader})
  <2>1. proc[i.pid].status # "none" /\ proc[i.pid].start = i.start
        /\ proc'[i.pid].tree = proc[i.pid].tree
    BY <1>2, <1>3, <1>4, <1>6 DEF SameOrNew, OfTheTree
  <2> QED BY <1>2, <2>1 DEF OfTheTree, Auth!SameInstance
<1> QED BY <1>3, <1>5, <1>6 DEF OfTheTree, Auth!SameInstance, i

\* A step of the processes alone: what is pinned stays pinned, stopped and of the tree, and
\* nothing else is stopped.
LEMMA ProcessesMove ==
  ASSUME TreeInv, cleaner' = cleaner, victims' = victims,
         TreeTypeOK', ParentsAlive', StartsArePast', LeaderKeepsPid',
         starts <= starts', continued => continued',
         \A p \in Pids : SameOrNew(p),
         ~continued' => \A p \in Pids : StaysStopped(p) /\ NoNewChild(p) /\ NotDisturbed(p)
  PROVE  TreeInv'
<1>1. /\ cleaner \in CleanerType /\ starts' \in Nat
      /\ \A m \in DOMAIN cleaner.pinned : cleaner.pinned[m] \in PinType
      /\ \A m \in DOMAIN cleaner.parents : cleaner.parents[m] \in PinType
  BY DEF TreeInv, TreeTypeOK, CleanerType
<1>2. PinnedOfTheTree'
  BY <1>1, StaysOfTheTree
<1>3. WhatIsPinned' /\ PinnedInOrder'
  BY DEF TreeInv, WhatIsPinned, PinnedInOrder, Pinning, Auth!IsLeader, PidsOf
<1>4. WhatIsLeft'
  <2>1. CASE cleaner.at = "kill"
    <3>1. PICK i \in PinType : i = Head(cleaner.parents)
      BY <1>1, <2>1, HeadTailProperties DEF CleanerType, TreeInv, WhatIsLeft
    <3>2. cleaner.parents # <<>> /\ (Auth!Alive(i.pid) => proc[i.pid].start = i.start)
      BY <2>1, <3>1 DEF TreeInv, WhatIsLeft, Auth!SameInstance
    <3>3. i.pid \in Pids
      BY <3>1 DEF PinType
    <3>4. Auth!Alive(i.pid)' => proc'[i.pid].start = i.start
      BY <2>1, <3>2, <3>3 DEF SameOrNew, Auth!Alive
    <3>5. WhatIsLeft
      BY DEF TreeInv
    <3> QED BY <2>1, <3>1, <3>2, <3>4, <3>5
            DEF WhatIsLeft, Collecting, Pinning, Killing, Unlisted, Auth!SameInstance
  <2>2. CASE cleaner.at # "kill"
    BY <2>2 DEF TreeInv, WhatIsLeft, Collecting, Pinning, Killing, Unlisted
  <2> QED BY <2>1, <2>2
<1>5. PinnedIsStopped'
  <2> SUFFICES ASSUME ~continued', Collecting, NEW m \in DOMAIN cleaner.pinned
               PROVE  (Auth!StillStopped(cleaner.pinned[m]) /\ proc[cleaner.pinned[m].pid].tree)'
    BY DEF PinnedIsStopped, Collecting, Pinning
  <2>1. PICK i \in PinType : i = cleaner.pinned[m]
    BY <1>1
  <2>2. ~continued /\ PinnedIsStopped /\ PinnedInOrder
    BY DEF TreeInv
  <2>3. Auth!StillStopped(i) /\ proc[i.pid].tree /\ i.pid \in Pids
    BY <2>1, <2>2 DEF PinnedIsStopped, PinType
  <2>4. proc[i.pid].status = "stopped" /\ proc[i.pid].parent = i.parent
        /\ proc[i.pid].start = i.start
    BY <2>3 DEF Auth!StillStopped, Auth!Identity
  <2>5. proc'[i.pid].status = "stopped" /\ proc'[i.pid].start = i.start /\ proc'[i.pid].tree
        /\ \/ proc'[i.pid].parent = i.parent
           \/ i.parent \in Pids /\ proc[i.parent].status = "run"
    BY <2>3, <2>4 DEF StaysStopped
  <2>6. i.parent \in Pids => proc[i.parent].status = "stopped"
    <3>1. CASE m = 1
      BY <2>1, <2>2, <3>1, TreeNames DEF PinnedInOrder
    <3>2. CASE m # 1
      <4>1. PICK n \in 1 .. m - 1 : i.parent = cleaner.pinned[n].pid
        BY <2>1, <2>2, <3>2 DEF PinnedInOrder
      <4>2. n \in DOMAIN cleaner.pinned
        BY <1>1 DEF CleanerType
      <4> QED BY <2>2, <4>1, <4>2 DEF PinnedIsStopped, Auth!StillStopped
    <3> QED BY <3>1, <3>2
  <2>7. proc'[i.pid].parent = i.parent
    BY <2>5, <2>6
  <2>8. i.pid = i.pid /\ i = [pid |-> i.pid, parent |-> i.parent, start |-> i.start]
    BY <2>1 DEF PinType
  <2> QED BY <2>1, <2>5, <2>7, <2>8 DEF Auth!StillStopped, Auth!Identity
<1>6. Sound' => Sound /\ \A p \in Pids : StaysStopped(p) /\ NoNewChild(p) /\ NotDisturbed(p)
  BY DEF Sound
<1>7. NothingIsLeftStopped'
  <2>1. Held' = Held
    BY DEF Held, Collecting, Pinning, PidsOf
  <2> QED BY <1>6, <2>1 DEF TreeInv, NothingIsLeftStopped, NotDisturbed
<1>8. ChildrenArePinned'
  <2> SUFFICES ASSUME Sound', Collecting, NEW m \in DOMAIN cleaner.pinned,
                      cleaner.pinned[m] \notin Unlisted,
                      NEW p \in Pids, Auth!Alive(p)', proc'[p].parent = cleaner.pinned[m].pid
               PROVE  \/ p \in PidsOf(cleaner.pinned)
                      \/ /\ cleaner.pin.parent = cleaner.pinned[m].pid
                         /\ p \in cleaner.todo \/ (Pinning /\ p = cleaner.pin.pid)
    BY DEF ChildrenArePinned, Collecting, Pinning, Unlisted, PidsOf
  <2>1. ~continued /\ ChildrenArePinned /\ PinnedIsStopped
    BY <1>6 DEF TreeInv, Sound
  <2>2. cleaner.pinned[m].pid \in Pids /\ proc[cleaner.pinned[m].pid].status = "stopped"
    BY <1>1, <2>1 DEF PinnedIsStopped, Auth!StillStopped, PinType
  <2>3. Auth!Alive(p) /\ proc[p].parent = cleaner.pinned[m].pid
    BY <1>6, <2>2 DEF NoNewChild
  <2> QED BY <1>6, <2>1, <2>3 DEF ChildrenArePinned
<1>9. LeafFirst'
  <2> SUFFICES ASSUME Sound', Killing, NEW m \in 1 .. Len(cleaner.parents)
               PROVE  /\ proc'[cleaner.pinned[m].pid].status = "stopped"
                      /\ \A p \in Pids : Auth!Alive(p)'
                         /\ proc'[p].parent = cleaner.pinned[m].pid =>
                           \E n \in m + 1 .. Len(cleaner.parents) : p = cleaner.pinned[n].pid
    BY DEF LeafFirst, Killing
  <2>1. m \in DOMAIN cleaner.pinned
    BY <1>1 DEF TreeInv, WhatIsLeft, CleanerType
  <2>2. LeafFirst
    BY DEF TreeInv
  <2>3. cleaner.pinned[m].pid \in Pids /\ proc[cleaner.pinned[m].pid].status = "stopped"
    BY <1>1, <1>6, <2>1, <2>2 DEF LeafFirst, PinType
  <2>4. proc'[cleaner.pinned[m].pid].status = "stopped"
    BY <1>6, <2>3 DEF StaysStopped
  <2>5. \A p \in Pids : Auth!Alive(p)' /\ proc'[p].parent = cleaner.pinned[m].pid =>
          Auth!Alive(p) /\ proc[p].parent = cleaner.pinned[m].pid
    BY <1>6, <2>3 DEF NoNewChild
  <2> QED BY <1>6, <2>2, <2>4, <2>5 DEF LeafFirst
<1>10. Auth!KillsOnlyTheTree'
  BY DEF TreeInv, Auth!KillsOnlyTheTree
<1> QED
  BY <1>2, <1>3, <1>4, <1>5, <1>7, <1>8, <1>9, <1>10 DEF TreeInv

\* What starts, stops and goes on stays the instance it is.
LEMMA OnlyStatusChanges ==
  ASSUME TreeInv, proc' \in [Pids -> Process], starts' = starts,
         cleaner'.at = "end" <=> cleaner.at = "end",
         \A p \in Pids :
           /\ proc'[p].parent = proc[p].parent /\ proc'[p].start = proc[p].start
           /\ proc'[p].tree = proc[p].tree /\ (Auth!Alive(p)' <=> Auth!Alive(p))
           /\ proc'[p].status = "none" <=> proc[p].status = "none"
  PROVE  /\ ParentsAlive' /\ StartsArePast' /\ LeaderKeepsPid'
         /\ \A p \in Pids : SameOrNew(p)
<1>1. \A p \in Pids : SameOrNew(p)
  BY DEF SameOrNew
<1>2. ParentsAlive'
  <2> SUFFICES ASSUME NEW p \in Pids, proc'[p].status # "none", proc'[p].parent \in Pids
               PROVE  (/\ Auth!Alive(proc[p].parent) /\ proc[p].parent # p
                       /\ proc[proc[p].parent].tree = proc[p].tree)'
    BY DEF ParentsAlive
  <2>1. PICK q \in Pids : q = proc[p].parent
    OBVIOUS
  <2>2. Auth!Alive(q) /\ q # p /\ proc[q].tree = proc[p].tree
    BY <2>1 DEF TreeInv, ParentsAlive
  <2>3. Auth!Alive(q)' /\ proc'[q].tree = proc'[p].tree /\ proc'[p].parent = q
    BY <2>1, <2>2
  <2> QED BY <2>2, <2>3 DEF Auth!Alive
<1>3. StartsArePast'
  BY DEF TreeInv, StartsArePast
<1>4. LeaderKeepsPid'
  BY TreeNames DEF TreeInv, LeaderKeepsPid
<1> QED BY <1>1, <1>2, <1>3, <1>4

\* What a process and its parent are once p has ended.
LEMMA EndedIs ==
  ASSUME TreeInv, NEW p \in Pids, NEW killed \in BOOLEAN, Auth!Alive(p), proc' = Auth!Ended(p,
         killed)
  PROVE  /\ proc' \in [Pids -> Process]
         /\ proc[p].parent = Auth!Launchd => proc'[p] = Auth!Free
         /\ proc[p].parent # Auth!Launchd =>
              /\ proc'[p].status = "zombie" /\ proc'[p].parent = proc[p].parent
              /\ proc'[p].start = proc[p].start /\ proc'[p].tree = proc[p].tree
         /\ \A q \in Pids \ {p} :
              \/ /\ proc'[q] = proc[q]
                 /\ proc[q].status = "none" \/ proc[q].parent # p
              \/ /\ proc[q].parent = p /\ Auth!Alive(q) /\ Auth!Alive(q)'
                 /\ proc'[q].status = proc[q].status /\ proc'[q].stopping = proc[q].stopping
                 /\ proc'[q].start = proc[q].start /\ proc'[q].tree = proc[q].tree
                 /\ proc'[q].parent = Auth!Launchd /\ proc'[q].bereft = killed
              \/ /\ proc[q].parent = p /\ proc[q].status = "zombie" /\ proc'[q] = Auth!Free
         /\ Auth!Free.status = "none" /\ Auth!Free.parent = Auth!Launchd /\ Auth!Free.start = 0
<1>1. /\ Auth!Free \in Process /\ Auth!Free.status = "none"
         /\ Auth!Free.parent = Auth!Launchd /\ Auth!Free.start = 0
  BY DEF Auth!Free, Process
<1>2. /\ proc \in [Pids -> Process] /\ \A q \in Pids : proc[q] \in Process
  BY DEF TreeInv, TreeTypeOK
<1> DEFINE dead == [proc[p] EXCEPT !.status = "zombie", !.stopping = FALSE]
           left(q) == [proc[q] EXCEPT !.parent = Auth!Launchd, !.bereft = killed]
<1>3. \A q \in Pids :
        proc'[q] = IF q = p THEN IF proc[p].parent = Auth!Launchd THEN Auth!Free ELSE dead
                   ELSE IF proc[q].status = "none" \/ proc[q].parent # p THEN proc[q]
                   ELSE IF proc[q].status = "zombie" THEN Auth!Free ELSE left(q)
  BY DEF Auth!Ended
<1>4. /\ dead \in Process /\ dead.status = "zombie" /\ dead.parent = proc[p].parent
      /\ dead.start = proc[p].start /\ dead.tree = proc[p].tree
  BY <1>2 DEF Process
<1>5. \A q \in Pids :
        /\ left(q) \in Process /\ left(q).status = proc[q].status
        /\ left(q).stopping = proc[q].stopping /\ left(q).start = proc[q].start
        /\ left(q).tree = proc[q].tree /\ left(q).parent = Auth!Launchd /\ left(q).bereft = killed
  BY <1>2 DEF Process
<1>6. \A q \in Pids : proc[q].status \notin {"none", "zombie"} => Auth!Alive(q)
  BY <1>2 DEF Process, Auth!Alive
<1> HIDE DEF dead, left
<1>7. proc' \in [Pids -> Process]
  <2>1. \A q \in Pids : proc'[q] \in Process
    BY <1>1, <1>2, <1>3, <1>4, <1>5
  <2> QED BY <2>1 DEF Auth!Ended
<1>8. \A q \in Pids : proc[q].status # "none" /\ proc[q].status # "zombie" => Auth!Alive(q)
  BY <1>6
<1>9. ASSUME NEW q \in Pids \ {p}
      PROVE  \/ /\ proc'[q] = proc[q]
                /\ proc[q].status = "none" \/ proc[q].parent # p
             \/ /\ proc[q].parent = p /\ Auth!Alive(q) /\ Auth!Alive(q)'
                /\ proc'[q].status = proc[q].status /\ proc'[q].stopping = proc[q].stopping
                /\ proc'[q].start = proc[q].start /\ proc'[q].tree = proc[q].tree
                /\ proc'[q].parent = Auth!Launchd /\ proc'[q].bereft = killed
             \/ /\ proc[q].parent = p /\ proc[q].status = "zombie" /\ proc'[q] = Auth!Free
  <2>1. CASE proc[q].status = "none" \/ proc[q].parent # p
    BY <1>3, <2>1
  <2>2. CASE proc[q].status = "zombie" /\ proc[q].parent = p
    BY <1>3, <2>2
  <2>3. CASE proc[q].status # "none" /\ proc[q].status # "zombie" /\ proc[q].parent = p
    <3>1. proc'[q] = left(q) /\ Auth!Alive(q)
      BY <1>3, <1>8, <2>3
    <3>2. Auth!Alive(q)'
      BY <1>5, <3>1 DEF Auth!Alive
    <3> QED BY <1>5, <2>3, <3>1, <3>2
  <2> QED BY <2>1, <2>2, <2>3
<1> QED BY <1>1, <1>3, <1>4, <1>7, <1>9

\* The end of a process leaves every parent alive, and makes nothing new.
LEMMA EndedKeeps ==
  ASSUME TreeInv, NEW p \in Pids, NEW killed \in BOOLEAN, Auth!Alive(p), proc' = Auth!Ended(p,
         killed),
         starts' = starts, cleaner'.at = "end" <=> cleaner.at = "end"
  PROVE  /\ ParentsAlive' /\ StartsArePast' /\ LeaderKeepsPid'
         /\ \A q \in Pids : SameOrNew(q) /\ NoNewChild(q)
            /\ (Auth!Alive(q)' => Auth!Alive(q) /\ q # p)
<1>1. /\ \A q \in Pids : proc[q] \in Process
      /\ starts \in Nat \ {0}
      /\ ParentsAlive /\ StartsArePast /\ LeaderKeepsPid
  BY DEF TreeInv, TreeTypeOK
<1>2. ~Auth!Alive(p)'
  BY EndedIs DEF Auth!Alive
<1>3. \A q \in Pids \ {p} : Auth!Alive(q) =>
        /\ Auth!Alive(q)' /\ proc'[q].tree = proc[q].tree
  BY EndedIs DEF Auth!Alive
<1>4. \A q \in Pids : Auth!Alive(q)' => Auth!Alive(q) /\ q # p
  BY <1>2, EndedIs DEF Auth!Alive
<1>5. \A q \in Pids : SameOrNew(q)
  BY <1>4, EndedIs DEF SameOrNew, Auth!Alive
<1>6. \A q \in Pids : NoNewChild(q)
  <2> SUFFICES ASSUME NEW q \in Pids, NEW r \in Pids, Auth!Alive(q)', proc'[q].parent = r
               PROVE  Auth!Alive(q) /\ proc[q].parent = r
    BY DEF NoNewChild
  <2>1. Auth!Alive(q) /\ q # p
    BY <1>4
  <2>2. r # Auth!Launchd
    BY TreeNames
  <2> QED BY <2>1, <2>2, EndedIs DEF Auth!Alive
<1>7. ParentsAlive'
  <2> SUFFICES ASSUME NEW q \in Pids, proc'[q].status # "none", proc'[q].parent \in Pids
               PROVE  (/\ Auth!Alive(proc[q].parent) /\ proc[q].parent # q
                       /\ proc[proc[q].parent].tree = proc[q].tree)'
    BY DEF ParentsAlive
  <2>1. PICK r \in Pids : r = proc'[q].parent
    OBVIOUS
  <2>2. r # Auth!Launchd
    BY TreeNames
  <2>3. proc[q].status # "none" /\ proc[q].parent = r /\ proc'[q].tree = proc[q].tree
    BY <2>1, <2>2, EndedIs DEF Auth!Alive
  <2>4. r # p
    <3>1. CASE q = p
      BY <1>1, <2>3, <3>1 DEF ParentsAlive
    <3>2. CASE q # p
      BY <2>1, <2>2, <2>3, <3>2, EndedIs
    <3> QED BY <3>1, <3>2
  <2>5. Auth!Alive(r) /\ r # q /\ proc[r].tree = proc[q].tree
    BY <1>1, <2>3 DEF ParentsAlive
  <2>6. Auth!Alive(r)' /\ proc'[r].tree = proc'[q].tree
    BY <1>3, <2>3, <2>4, <2>5
  <2> QED BY <2>1, <2>5, <2>6 DEF Auth!Alive
<1>8. StartsArePast'
  <2> SUFFICES ASSUME NEW q \in Pids PROVE proc'[q].start < starts
    BY DEF StartsArePast
  <2>1. proc'[q].start = proc[q].start \/ proc'[q].start = 0
    BY EndedIs
  <2> QED BY <1>1, <2>1 DEF StartsArePast
<1>9. LeaderKeepsPid'
  <2>1. \A q \in Pids \ {Leader} : proc'[q].parent # Auth!Vaire
    BY <1>1, TreeNames, EndedIs DEF LeaderKeepsPid
  <2>2. CASE cleaner.at = "end"
    <3>1. proc[Leader].status = "none" \/ proc[Leader].start > 0
      BY <1>1, <2>2 DEF LeaderKeepsPid
    <3>2. proc'[Leader].status = "none" \/ proc'[Leader].start > 0
      BY <3>1, TreeNames, EndedIs DEF Auth!Alive
    <3> QED BY <2>1, <2>2, <3>2 DEF LeaderKeepsPid
  <2>3. CASE cleaner.at # "end"
    <3>1. proc[Leader].status # "none" /\ proc[Leader].parent = Auth!Vaire
          /\ proc[Leader].start = 0 /\ proc[Leader].tree
      BY <1>1, <2>3 DEF LeaderKeepsPid
    <3>2. proc'[Leader].status # "none" /\ proc'[Leader].parent = Auth!Vaire
          /\ proc'[Leader].start = 0 /\ proc'[Leader].tree
      BY <3>1, TreeNames, EndedIs DEF Auth!Alive
    <3> QED BY <2>1, <2>3, <3>2 DEF LeaderKeepsPid
  <2> QED BY <2>2, <2>3
<1> QED BY <1>4, <1>5, <1>6, <1>7, <1>8, <1>9

\* A type for the processes after a step that leaves the cleanup alone.
LEMMA TypeStays ==
  ASSUME TreeInv, cleaner' = cleaner, proc' \in [Pids -> Process],
         starts' \in Nat \ {0}, continued' \in BOOLEAN
  PROVE  TreeTypeOK'
BY DEF TreeInv, TreeTypeOK

\* A new process on a free pid.
LEMMA NewbornKeeps ==
  ASSUME TreeInv, NEW q \in Pids, Auth!FreePid(q), cleaner' = cleaner, continued' = continued,
         victims' = victims,
         starts' = starts + 1, NEW new \in Process,
         proc' = [proc EXCEPT ![q] = new],
         new.start = starts, new.status \in {"run", "stopped"}, new.parent # Auth!Vaire,
         new.parent \in Pids =>
           /\ proc[new.parent].status = "run" /\ new.tree = proc[new.parent].tree,
         new.tree => new.status = "run" /\ ~new.stopping /\ ~new.bereft
  PROVE  TreeInv'
<1>1. /\ proc \in [Pids -> Process] /\ starts \in Nat \ {0} /\ continued \in BOOLEAN
      /\ ParentsAlive /\ StartsArePast /\ LeaderKeepsPid
  BY DEF TreeInv, TreeTypeOK
<1>2. proc[q].status = "none" /\ cleaner.at # "kill"
  BY DEF Auth!FreePid
<1>3. \A p \in Pids : proc'[p] = IF p = q THEN new ELSE proc[p]
  BY <1>1
<1>4. TreeTypeOK'
  BY <1>1, TypeStays
<1>5. \A p \in Pids : SameOrNew(p) /\ StaysStopped(p) /\ NotDisturbed(p)
  BY <1>2, <1>3 DEF SameOrNew, StaysStopped, NotDisturbed, Auth!Alive
<1>6. \A p \in Pids : NoNewChild(p)
  BY <1>2, <1>3 DEF NoNewChild, Auth!Alive
<1>7. ParentsAlive'
  <2> SUFFICES ASSUME NEW p \in Pids, proc'[p].status # "none", proc'[p].parent \in Pids
               PROVE  (/\ Auth!Alive(proc[p].parent) /\ proc[p].parent # p
                       /\ proc[proc[p].parent].tree = proc[p].tree)'
    BY DEF ParentsAlive
  <2>1. PICK r \in Pids : r = proc'[p].parent
    OBVIOUS
  <2>2. r # p /\ Auth!Alive(r) /\ proc[r].tree = proc'[p].tree
    BY <1>1, <1>2, <1>3, <2>1 DEF ParentsAlive, Auth!Alive
  <2>3. proc'[r] = proc[r]
    BY <1>2, <1>3, <2>2 DEF Auth!Alive
  <2> QED BY <2>1, <2>2, <2>3 DEF Auth!Alive
<1>8. StartsArePast'
  BY <1>1, <1>3 DEF StartsArePast, Process
<1>9. LeaderKeepsPid'
  BY <1>1, <1>2, <1>3, TreeNames DEF LeaderKeepsPid
<1> QED BY <1>1, <1>4, <1>5, <1>6, <1>7, <1>8, <1>9, ProcessesMove

\* A process forks, or somebody else's takes a free pid.
LEMMA ForkKeeps ==
  ASSUME TreeInv, NEW p \in Pids, Auth!Fork(p) \/ Auth!Stranger(p)
  PROVE  TreeInv'
<1>1. /\ proc[p] \in Process /\ starts \in Nat
      /\ starts' = starts + 1 /\ cleaner' = cleaner /\ victims' = victims
         /\ continued' = continued
  BY DEF TreeInv, TreeTypeOK, Auth!Fork, Auth!Stranger
<1>2. ASSUME NEW parent \in Pids \cup {Auth!Launchd}, NEW status \in {"run", "stopped"},
             NEW tree \in BOOLEAN
      PROVE  /\ Auth!Newborn(parent, status, tree) \in Process
             /\ Auth!Newborn(parent, status, tree).start = starts
             /\ Auth!Newborn(parent, status, tree).status = status
             /\ Auth!Newborn(parent, status, tree).parent = parent
             /\ Auth!Newborn(parent, status, tree).tree = tree
             /\ ~Auth!Newborn(parent, status, tree).stopping
             /\ ~Auth!Newborn(parent, status, tree).bereft
  BY <1>1 DEF Auth!Newborn, Auth!Free, Process
<1>3. CASE Auth!Fork(p)
  <2>1. PICK q \in Pids :
          Auth!FreePid(q) /\ proc' = [proc EXCEPT ![q] = Auth!Newborn(p, "run", proc[p].tree)]
    BY <1>3 DEF Auth!Fork
  <2>2. proc[p].status = "run" /\ proc[p].tree \in BOOLEAN
    BY <1>1, <1>3 DEF Auth!Fork, Process
  <2>3. PICK new : new = Auth!Newborn(p, "run", proc[p].tree)
    OBVIOUS
  <2>4. /\ new \in Process /\ new.start = starts /\ new.status = "run" /\ new.parent = p
        /\ new.tree = proc[p].tree /\ ~new.stopping /\ ~new.bereft
    BY <1>2, <2>2, <2>3
  <2>5. new.parent # Auth!Vaire
    BY <2>4, TreeNames
  <2> QED BY <1>1, <2>1, <2>2, <2>3, <2>4, <2>5, NewbornKeeps
<1>4. CASE Auth!Stranger(p)
  <2>1. PICK status \in {"run", "stopped"} :
          Auth!FreePid(p) /\ proc' = [proc EXCEPT ![p] = Auth!Newborn(Auth!Launchd, status,
            FALSE)]
    BY <1>4 DEF Auth!Stranger
  <2>3. PICK new : new = Auth!Newborn(Auth!Launchd, status, FALSE)
    OBVIOUS
  <2>4. /\ new \in Process /\ new.start = starts /\ new.status = status
        /\ new.parent = Auth!Launchd /\ ~new.tree
    BY <1>2, <2>1, <2>3
  <2>5. new.parent # Auth!Vaire /\ new.parent \notin Pids
    BY <2>4, TreeNames
  <2> QED BY <1>1, <2>1, <2>3, <2>4, <2>5, NewbornKeeps
<1> QED BY <1>3, <1>4

\* A process of the tree ends by itself.
LEMMA ExitKeeps ==
  ASSUME TreeInv, NEW p \in Pids, Auth!Exit(p)
  PROVE  TreeInv'
<1>1. /\ Auth!Alive(p) /\ proc[p].status = "run" /\ proc' = Auth!Ended(p, FALSE)
      /\ cleaner' = cleaner /\ victims' = victims /\ starts' = starts /\ continued' = continued
  BY DEF Auth!Exit, Auth!Alive
<1>2. TreeTypeOK'
  BY <1>1, EndedIs, TypeStays DEF TreeInv, TreeTypeOK
<1>3. \A q \in Pids : StaysStopped(q)
  <2> SUFFICES ASSUME NEW q \in Pids, proc[q].status = "stopped"
               PROVE  /\ proc'[q].status = "stopped" /\ proc'[q].start = proc[q].start
                      /\ proc'[q].tree = proc[q].tree
                      /\ \/ proc'[q].parent = proc[q].parent
                         \/ proc[q].parent \in Pids /\ proc[proc[q].parent].status = "run"
    BY DEF StaysStopped
  <2>1. q # p
    BY <1>1
  <2> QED BY <1>1, <2>1, EndedIs
<1>4. \A q \in Pids : NotDisturbed(q)
  <2> SUFFICES ASSUME NEW q \in Pids, Auth!Alive(q)', proc'[q].tree
               PROVE  /\ Auth!Alive(q) /\ proc[q].tree /\ (proc'[q].bereft => proc[q].bereft)
                      /\ (proc'[q].stopping \/ proc'[q].status # "run") =>
                           proc[q].stopping \/ proc[q].status # "run"
    BY DEF NotDisturbed
  <2>1. q # p /\ Auth!Alive(q)
    BY <1>1, EndedKeeps
  <2>2. \/ proc'[q] = proc[q]
        \/ /\ proc'[q].tree = proc[q].tree /\ proc'[q].bereft = FALSE
           /\ proc'[q].stopping = proc[q].stopping /\ proc'[q].status = proc[q].status
    BY <1>1, <2>1, EndedIs DEF Auth!Alive
  <2> QED BY <2>1, <2>2
<1>5. /\ ParentsAlive' /\ StartsArePast' /\ LeaderKeepsPid'
      /\ \A q \in Pids : SameOrNew(q) /\ NoNewChild(q)
  BY <1>1, EndedKeeps
<1>6. starts <= starts'
  BY <1>1 DEF TreeInv, TreeTypeOK
<1> QED BY <1>1, <1>2, <1>3, <1>4, <1>5, <1>6, ProcessesMove

\* A parent reaps what has ended.
LEMMA ReapedKeeps ==
  ASSUME TreeInv, NEW p \in Pids, proc[p].status = "zombie",
         proc' = [proc EXCEPT ![p] = Auth!Free], starts' = starts,
         cleaner'.at # "end" => p # Leader
  PROVE  /\ proc' \in [Pids -> Process]
         /\ ParentsAlive' /\ StartsArePast'
         /\ cleaner'.at = "end" /\ p = Leader => LeaderKeepsPid'
         /\ p # Leader /\ (cleaner'.at = "end" <=> cleaner.at = "end") => LeaderKeepsPid'
         /\ \A q \in Pids : SameOrNew(q) /\ StaysStopped(q) /\ NoNewChild(q) /\ NotDisturbed(q)
<1>1. /\ Auth!Free \in Process /\ Auth!Free.status = "none"
         /\ Auth!Free.parent = Auth!Launchd /\ Auth!Free.start = 0
  BY DEF Auth!Free, Process
<1>2. /\ proc \in [Pids -> Process] /\ starts \in Nat \ {0}
      /\ ParentsAlive /\ StartsArePast /\ LeaderKeepsPid
  BY DEF TreeInv, TreeTypeOK
<1>3. \A q \in Pids : proc'[q] = IF q = p THEN Auth!Free ELSE proc[q]
  BY <1>2
<1>4. ~Auth!Alive(p) /\ ~Auth!Alive(p)' /\ \A q \in Pids \ {p} : Auth!Alive(q)' <=> Auth!Alive(q)
  BY <1>1, <1>3 DEF Auth!Alive
<1>5. \A q \in Pids : SameOrNew(q) /\ StaysStopped(q) /\ NoNewChild(q) /\ NotDisturbed(q)
  BY <1>1, <1>3, <1>4 DEF SameOrNew, StaysStopped, NoNewChild, NotDisturbed
<1>6. ParentsAlive'
  <2> SUFFICES ASSUME NEW q \in Pids, proc'[q].status # "none", proc'[q].parent \in Pids
               PROVE  (/\ Auth!Alive(proc[q].parent) /\ proc[q].parent # q
                       /\ proc[proc[q].parent].tree = proc[q].tree)'
    BY DEF ParentsAlive
  <2>1. PICK r \in Pids : r = proc'[q].parent
    OBVIOUS
  <2>2. r # q /\ Auth!Alive(r) /\ proc[r].tree = proc'[q].tree
    BY <1>1, <1>2, <1>3, <2>1 DEF ParentsAlive
  <2>3. Auth!Alive(r)' /\ proc'[r].tree = proc'[q].tree
    BY <1>3, <1>4, <2>2
  <2> QED BY <2>1, <2>2, <2>3 DEF Auth!Alive
<1>7. StartsArePast'
  BY <1>1, <1>2, <1>3 DEF StartsArePast
<1>8. cleaner'.at = "end" /\ p = Leader => LeaderKeepsPid'
  BY <1>1, <1>2, <1>3 DEF LeaderKeepsPid
<1>9. p # Leader /\ (cleaner'.at = "end" <=> cleaner.at = "end") => LeaderKeepsPid'
  BY <1>1, <1>2, <1>3, TreeNames DEF LeaderKeepsPid
<1> QED BY <1>1, <1>2, <1>5, <1>6, <1>7, <1>8, <1>9

\* A zombie is reaped by its parent.
LEMMA ParentReapsKeeps ==
  ASSUME TreeInv, NEW p \in Pids, Auth!ParentReaps(p)
  PROVE  TreeInv'
<1>1. /\ proc[p].status = "zombie" /\ proc[p].parent \in Pids
      /\ proc' = [proc EXCEPT ![p] = Auth!Free]
      /\ cleaner' = cleaner /\ victims' = victims /\ starts' = starts /\ continued' = continued
  BY DEF Auth!ParentReaps
<1>2. CASE p # Leader
  <2>1. TreeTypeOK'
    BY <1>1, <1>2, ReapedKeeps, TypeStays DEF TreeInv, TreeTypeOK
  <2>2. starts \in Nat
    BY DEF TreeInv, TreeTypeOK
  <2>3. /\ ParentsAlive' /\ StartsArePast' /\ LeaderKeepsPid'
        /\ \A q \in Pids : SameOrNew(q) /\ StaysStopped(q) /\ NoNewChild(q) /\ NotDisturbed(q)
    BY <1>1, <1>2, ReapedKeeps
  <2> QED BY <1>1, <2>1, <2>2, <2>3, ProcessesMove
<1>3. CASE p = Leader
  <2>1. cleaner.at = "end"
    BY <1>1, <1>3, TreeNames DEF TreeInv, LeaderKeepsPid
  <2>2. TreeTypeOK'
    BY <1>1, <2>1, ReapedKeeps, TypeStays DEF TreeInv, TreeTypeOK
  <2>3. starts \in Nat
    BY DEF TreeInv, TreeTypeOK
  <2>4. /\ ParentsAlive' /\ StartsArePast' /\ LeaderKeepsPid'
        /\ \A q \in Pids : SameOrNew(q) /\ StaysStopped(q) /\ NoNewChild(q) /\ NotDisturbed(q)
    BY <1>1, <1>3, <2>1, ReapedKeeps
  <2> QED BY <1>1, <2>2, <2>3, <2>4, ProcessesMove
<1> QED BY <1>2, <1>3

\* A stop takes effect, or job control sets the tree going.
LEMMA StopsKeep ==
  ASSUME TreeInv, NEW p \in Pids, Auth!Stops(p)
  PROVE  TreeInv'
<1>1. /\ proc[p].status = "run" /\ proc[p].stopping
      /\ proc' = [proc EXCEPT ![p].status = "stopped", ![p].stopping = FALSE]
      /\ cleaner' = cleaner /\ victims' = victims /\ starts' = starts /\ continued' = continued
      /\ proc \in [Pids -> Process] /\ starts \in Nat \ {0} /\ continued \in BOOLEAN
  BY DEF Auth!Stops, TreeInv, TreeTypeOK
<1> DEFINE new == [proc[p] EXCEPT !.status = "stopped", !.stopping = FALSE]
<1>2. /\ new \in Process /\ new.status = "stopped" /\ new.parent = proc[p].parent
      /\ new.start = proc[p].start /\ new.tree = proc[p].tree /\ new.bereft = proc[p].bereft
  BY <1>1 DEF Process
<1>3. \A q \in Pids : proc'[q] = IF q = p THEN new ELSE proc[q]
  BY <1>1
<1> HIDE DEF new
<1>4. proc' \in [Pids -> Process]
  <2>1. proc' = [q \in Pids |-> proc'[q]] /\ \A q \in Pids : proc'[q] \in Process
    BY <1>1, <1>2, <1>3
  <2> QED BY <2>1
<1>5. \A q \in Pids : (Auth!Alive(q)' <=> Auth!Alive(q))
        /\ proc'[q].parent = proc[q].parent /\ proc'[q].start = proc[q].start
        /\ proc'[q].tree = proc[q].tree /\ proc'[q].bereft = proc[q].bereft
        /\ (proc'[q].status = "none" <=> proc[q].status = "none")
  BY <1>1, <1>2, <1>3 DEF Auth!Alive
<1>6. \A q \in Pids : StaysStopped(q) /\ NoNewChild(q) /\ NotDisturbed(q)
  BY <1>1, <1>2, <1>3, <1>5 DEF StaysStopped, NoNewChild, NotDisturbed
<1>7. TreeTypeOK'
  BY <1>1, <1>4, TypeStays
<1>8. ParentsAlive' /\ StartsArePast' /\ LeaderKeepsPid' /\ \A q \in Pids : SameOrNew(q)
  BY <1>1, <1>4, <1>5, OnlyStatusChanges
<1> QED BY <1>1, <1>6, <1>7, <1>8, ProcessesMove

\* What is continued is the process it was.
LEMMA ContinuedIs ==
  ASSUME TreeInv, NEW ps \in SUBSET Pids, proc' = Auth!Continued(ps), starts' = starts,
         cleaner'.at = "end" <=> cleaner.at = "end"
  PROVE  /\ proc' \in [Pids -> Process]
         /\ \A q \in Pids \ ps : proc'[q] = proc[q]
         /\ \A q \in Pids : (Auth!Alive(q)' <=> Auth!Alive(q))
              /\ proc'[q].parent = proc[q].parent /\ proc'[q].start = proc[q].start
              /\ proc'[q].tree = proc[q].tree /\ proc'[q].bereft = proc[q].bereft
              /\ (proc'[q].status = "none" <=> proc[q].status = "none")
         /\ ParentsAlive' /\ StartsArePast' /\ LeaderKeepsPid'
         /\ \A q \in Pids : SameOrNew(q)
<1> DEFINE new(q) == [proc[q] EXCEPT !.status = "run", !.stopping = FALSE]
<1>1. proc \in [Pids -> Process]
  BY DEF TreeInv, TreeTypeOK
<1>2. \A q \in Pids : /\ new(q) \in Process /\ new(q).status = "run"
                      /\ new(q).parent = proc[q].parent /\ new(q).start = proc[q].start
                      /\ new(q).tree = proc[q].tree /\ new(q).bereft = proc[q].bereft
  BY <1>1 DEF Process
<1>3. /\ \A q \in Pids : proc'[q] = IF q \in ps /\ Auth!Alive(q) THEN new(q) ELSE proc[q]
      /\ proc' = [q \in Pids |-> proc'[q]]
  BY DEF Auth!Continued
<1> HIDE DEF new
<1>4. proc' \in [Pids -> Process]
  <2>1. \A q \in Pids : proc'[q] \in Process
    BY <1>1, <1>2, <1>3
  <2> QED BY <1>3, <2>1
<1>5. \A q \in Pids : (Auth!Alive(q)' <=> Auth!Alive(q))
        /\ proc'[q].parent = proc[q].parent /\ proc'[q].start = proc[q].start
        /\ proc'[q].tree = proc[q].tree /\ proc'[q].bereft = proc[q].bereft
        /\ (proc'[q].status = "none" <=> proc[q].status = "none")
  BY <1>1, <1>2, <1>3 DEF Auth!Alive
<1>6. ParentsAlive' /\ StartsArePast' /\ LeaderKeepsPid' /\ \A q \in Pids : SameOrNew(q)
  BY <1>4, <1>5, OnlyStatusChanges
<1> QED BY <1>3, <1>4, <1>5, <1>6

\* Job control continues the tree: nothing that needs it stopped is claimed any more.
LEMMA JobControlKeeps ==
  ASSUME TreeInv, Auth!JobControl
  PROVE  TreeInv'
<1>1. /\ proc' = Auth!Continued({p \in Pids : proc[p].tree}) /\ continued' = TRUE
      /\ cleaner' = cleaner /\ victims' = victims /\ starts' = starts
  BY DEF Auth!JobControl
<1>2. {p \in Pids : proc[p].tree} \in SUBSET Pids
  OBVIOUS
<1>3. proc' \in [Pids -> Process]
  BY <1>1, <1>2, ContinuedIs
<1>4. starts' \in Nat \ {0} /\ starts <= starts' /\ continued' \in BOOLEAN
  <2>1. starts \in Nat \ {0} /\ starts' = starts
    BY <1>1 DEF TreeInv, TreeTypeOK
  <2>2. starts' \in Nat \ {0} /\ starts <= starts'
    BY <2>1
  <2> QED BY <1>1, <2>2
<1>5. TreeTypeOK'
  BY <1>1, <1>3, <1>4, TypeStays
<1>6. ParentsAlive' /\ StartsArePast' /\ LeaderKeepsPid' /\ \A q \in Pids : SameOrNew(q)
  BY <1>1, <1>2, ContinuedIs
<1> QED BY <1>1, <1>4, <1>5, <1>6, ProcessesMove

\* What a sequence of pins holds once one is added to it, or taken from it.
LEMMA PinAdded ==
  ASSUME NEW s \in Seq(PinType), NEW x \in PinType
  PROVE  /\ Append(s, x) \in Seq(PinType) /\ Append(s, x) # <<>>
         /\ Len(s) \in Nat /\ DOMAIN s = 1 .. Len(s)
         /\ DOMAIN Append(s, x) = 1 .. Len(s) + 1
         /\ Append(s, x)[Len(s) + 1] = x /\ \A m \in 1 .. Len(s) : Append(s, x)[m] = s[m]
         /\ PidsOf(Append(s, x)) = PidsOf(s) \cup {x.pid}
         /\ Auth!Range(Append(s, x)) = Auth!Range(s) \cup {x}
<1>1. /\ Append(s, x) \in Seq(PinType) /\ Append(s, x) # <<>>
      /\ Len(s) \in Nat /\ DOMAIN s = 1 .. Len(s)
      /\ DOMAIN Append(s, x) = 1 .. Len(s) + 1
      /\ Append(s, x)[Len(s) + 1] = x /\ \A m \in 1 .. Len(s) : Append(s, x)[m] = s[m]
  OBVIOUS
<1> DEFINE t == Append(s, x)
<1> HIDE DEF t
<1>2. PidsOf(t) = PidsOf(s) \cup {x.pid}
  BY <1>1 DEF PidsOf, t
<1>3. Auth!Range(t) = Auth!Range(s) \cup {x}
  BY <1>1 DEF Auth!Range, t
<1> QED BY <1>1, <1>2, <1>3 DEF t

\* What is left of a sequence of pins once the first is taken.
LEMMA PinTaken ==
  ASSUME NEW s \in Seq(PinType), s # <<>>
  PROVE  /\ Head(s) \in PinType /\ Head(s) \in Auth!Range(s) /\ Head(s) = s[1]
         /\ Tail(s) \in Seq(PinType) /\ Len(s) \in Nat \ {0} /\ Len(Tail(s)) = Len(s) - 1
         /\ DOMAIN s = 1 .. Len(s) /\ DOMAIN Tail(s) = 1 .. Len(s) - 1
         /\ \A m \in 1 .. Len(s) - 1 : Tail(s)[m] = s[m + 1]
         /\ Auth!Range(s) = Auth!Range(Tail(s)) \cup {Head(s)}
         /\ PidsOf(s) = PidsOf(Tail(s)) \cup {Head(s).pid}
<1>1. /\ Head(s) \in PinType /\ Head(s) = s[1]
      /\ Tail(s) \in Seq(PinType) /\ Len(s) \in Nat \ {0} /\ Len(Tail(s)) = Len(s) - 1
      /\ DOMAIN s = 1 .. Len(s) /\ DOMAIN Tail(s) = 1 .. Len(s) - 1
      /\ \A m \in 1 .. Len(s) - 1 : Tail(s)[m] = s[m + 1]
  BY HeadTailProperties
<1> DEFINE h == Head(s)  t == Tail(s)
<1> HIDE DEF h, t
<1>2. \A m \in 1 .. Len(s) : m = 1 \/ (m - 1 \in 1 .. Len(s) - 1 /\ s[m] = t[m - 1])
  <2> SUFFICES ASSUME NEW m \in 1 .. Len(s), m # 1
               PROVE  m - 1 \in 1 .. Len(s) - 1 /\ s[m] = t[m - 1]
    OBVIOUS
  <2>1. m - 1 \in 1 .. Len(s) - 1 /\ (m - 1) + 1 = m
    BY <1>1
  <2>2. t[m - 1] = s[(m - 1) + 1]
    BY <1>1, <2>1 DEF t
  <2> QED BY <2>1, <2>2
<1>3. \A m \in 1 .. Len(s) - 1 : m + 1 \in 1 .. Len(s)
  BY <1>1
<1>4. /\ h = s[1] /\ 1 \in 1 .. Len(s) /\ DOMAIN t = 1 .. Len(s) - 1
      /\ \A m \in 1 .. Len(s) - 1 : t[m] = s[m + 1]
  BY <1>1 DEF h, t
<1>5. Auth!Range(s) = Auth!Range(t) \cup {h}
  <2>1. \A y \in Auth!Range(s) : y \in Auth!Range(t) \cup {h}
    BY <1>1, <1>2, <1>4 DEF Auth!Range
  <2>2. \A y \in Auth!Range(t) \cup {h} : y \in Auth!Range(s)
    BY <1>1, <1>3, <1>4 DEF Auth!Range
  <2> QED BY <2>1, <2>2
<1>6. PidsOf(s) = PidsOf(t) \cup {h.pid}
  <2>1. \A y \in PidsOf(s) : y \in PidsOf(t) \cup {h.pid}
    BY <1>1, <1>2, <1>4 DEF PidsOf
  <2>2. \A y \in PidsOf(t) \cup {h.pid} : y \in PidsOf(s)
    BY <1>1, <1>3, <1>4 DEF PidsOf
  <2> QED BY <2>1, <2>2
<1>7. h \in Auth!Range(s)
  BY <1>5
<1> QED BY <1>1, <1>5, <1>6, <1>7 DEF h, t

\* What a cleanup's step may do to the process it has in hand.
OnlyPinChanges ==
  /\ proc' \in [Pids -> Process] /\ starts' = starts /\ continued' = continued
  /\ victims' = victims
  /\ \A p \in Pids \ {cleaner.pin.pid} : proc'[p] = proc[p]
  /\ \A p \in Pids :
       /\ proc'[p].parent = proc[p].parent /\ proc'[p].start = proc[p].start
       /\ proc'[p].tree = proc[p].tree /\ (Auth!Alive(p)' <=> Auth!Alive(p))
       /\ proc'[p].bereft = proc[p].bereft
       /\ proc'[p].status = "none" <=> proc[p].status = "none"

\* What the invariant says that does not depend on the cleanup's place.
LEMMA TreeBasics ==
  ASSUME TreeInv
  PROVE  /\ proc \in [Pids -> Process] /\ cleaner \in CleanerType
         /\ starts \in Nat \ {0} /\ continued \in BOOLEAN
         /\ cleaner.pin \in PinType /\ cleaner.pin.pid \in Pids /\ cleaner.failed \in BOOLEAN
         /\ cleaner.pinned \in Seq(PinType) /\ cleaner.parents \in Seq(PinType)
         /\ cleaner.siblings \in Seq(PinType) /\ cleaner.todo \in SUBSET Pids
         /\ PidsOf(cleaner.pinned) \subseteq Pids
         /\ \A m \in DOMAIN cleaner.pinned :
              cleaner.pinned[m] \in PinType /\ cleaner.pinned[m].pid \in Pids
         /\ cleaner.at # "end" => cleaner.result # "cancelled"
<1>1. /\ proc \in [Pids -> Process] /\ cleaner \in CleanerType
      /\ starts \in Nat \ {0} /\ continued \in BOOLEAN
  BY DEF TreeInv, TreeTypeOK
<1>2. /\ cleaner.pin \in PinType /\ cleaner.failed \in BOOLEAN
      /\ cleaner.pinned \in Seq(PinType) /\ cleaner.parents \in Seq(PinType)
      /\ cleaner.siblings \in Seq(PinType) /\ cleaner.todo \in SUBSET Pids
  BY <1>1 DEF CleanerType
<1>3. \A x \in PinType : x.pid \in Pids
  BY DEF PinType
<1>4. \A m \in DOMAIN cleaner.pinned :
        cleaner.pinned[m] \in PinType /\ cleaner.pinned[m].pid \in Pids
  BY <1>2, <1>3
<1>5. PidsOf(cleaner.pinned) \subseteq Pids
  BY <1>4 DEF PidsOf
<1>6. cleaner.at # "end" => cleaner.result # "cancelled"
  BY DEF TreeInv, WhatIsLeft
<1> QED BY <1>1, <1>2, <1>3, <1>4, <1>5, <1>6

\* A process that could not be pinned: the cleanup goes on, and reports a failure.
LEMMA NotPinnedKeeps ==
  ASSUME TreeInv, Pinning, cleaner' = Auth!NotPinned(cleaner), OnlyPinChanges
  PROVE  TreeInv'
<1>1. /\ cleaner' \in CleanerType /\ cleaner'.failed = TRUE
      /\ cleaner'.at = IF Auth!IsLeader(cleaner) THEN "leader" ELSE "next"
      /\ cleaner'.pin = cleaner.pin /\ cleaner'.parents = cleaner.parents
      /\ cleaner'.todo = cleaner.todo /\ cleaner'.siblings = cleaner.siblings
      /\ cleaner'.pinned = cleaner.pinned /\ cleaner'.result = cleaner.result
  BY TreeBasics DEF Auth!NotPinned, CleanerType
<1>2. cleaner.at # "end" /\ cleaner'.at # "end" /\ Collecting
  BY <1>1 DEF Pinning, Collecting
<1>3. ParentsAlive' /\ StartsArePast' /\ LeaderKeepsPid' /\ \A p \in Pids : SameOrNew(p)
  BY <1>2, OnlyStatusChanges DEF OnlyPinChanges
<1>4. TreeTypeOK'
  BY <1>1, TreeBasics DEF TreeTypeOK, OnlyPinChanges
<1>5. PinnedOfTheTree'
  BY <1>1, <1>3, TreeBasics, StaysOfTheTree DEF OnlyPinChanges
<1>6. WhatIsPinned /\ WhatIsLeft /\ PinnedInOrder /\ PinnedIsStopped
  BY DEF TreeInv
<1>7. ~Auth!IsLeader(cleaner) =>
        /\ cleaner.pin.parent \in PidsOf(cleaner.pinned)
        /\ cleaner.pin.pid \notin PidsOf(cleaner.pinned) /\ cleaner.pinned # <<>>
  BY <1>6 DEF WhatIsPinned, PidsOf
<1>8. WhatIsPinned'
  BY <1>1, <1>7 DEF WhatIsPinned, Pinning, PidsOf
<1>9. WhatIsLeft'
  BY <1>1, <1>2, <1>6, TreeBasics DEF WhatIsLeft, Collecting, Pinning, Killing, Unlisted
<1>10. PinnedInOrder'
  BY <1>1, <1>6 DEF PinnedInOrder
<1>11. PinnedIsStopped'
  <2> SUFFICES ASSUME ~continued, ~Auth!IsLeader(cleaner), NEW m \in DOMAIN cleaner.pinned
               PROVE  (Auth!StillStopped(cleaner.pinned[m]) /\ proc[cleaner.pinned[m].pid].tree)'
    BY <1>1 DEF PinnedIsStopped, Collecting, Pinning, OnlyPinChanges
  <2>1. PICK i \in PinType : i = cleaner.pinned[m] /\ i.pid \in Pids
    BY TreeBasics
  <2>2. i.pid # cleaner.pin.pid
    BY <1>7, <2>1 DEF PidsOf
  <2>3. proc'[i.pid] = proc[i.pid]
    BY <2>1, <2>2 DEF OnlyPinChanges
  <2> QED BY <1>1, <1>2, <1>6, <2>1, <2>3 DEF PinnedIsStopped, Auth!StillStopped, Auth!Identity
<1>12. ~Sound'
  BY <1>1 DEF Sound
<1>13. Auth!KillsOnlyTheTree'
  BY DEF TreeInv, Auth!KillsOnlyTheTree, OnlyPinChanges
<1> QED
  BY <1>3, <1>4, <1>5, <1>8, <1>9, <1>10, <1>11, <1>12, <1>13
  DEF TreeInv, NothingIsLeftStopped, ChildrenArePinned, LeafFirst

\* A process that is found stopped, with the parent it was listed for, is pinned: it is of the
\* tree, as that parent is.
LEMMA PinnedKeeps ==
  ASSUME TreeInv, Pinning, NEW p \in Pids, p = cleaner.pin.pid, proc[p].status = "stopped",
         proc[p].parent = cleaner.pin.parent, cleaner' = Auth!Pinned(cleaner, Auth!Identity(p)),
         proc' = proc, starts' = starts, continued' = continued, victims' = victims
  PROVE  TreeInv'
<1>1. PICK i : i = Auth!Identity(p)
  OBVIOUS
<1>2. /\ i \in PinType /\ i.pid = p /\ i.parent = cleaner.pin.parent
      /\ i.parent = proc[p].parent /\ i.start = proc[p].start
  <2>1. proc[p] \in Process
    BY TreeBasics
  <2> QED BY <1>1, <2>1 DEF Auth!Identity, PinType, Process
<1>3. /\ cleaner'.pinned = Append(cleaner.pinned, i) /\ cleaner'.todo = cleaner.todo
      /\ cleaner'.failed = cleaner.failed /\ cleaner'.result = cleaner.result
      /\ cleaner'.pin = cleaner.pin
      /\ Auth!IsLeader(cleaner) => /\ cleaner'.at = "list" /\ cleaner'.parents = <<i>>
                              /\ cleaner'.siblings = cleaner.siblings
      /\ ~Auth!IsLeader(cleaner) => /\ cleaner'.at = "next" /\ cleaner'.parents = cleaner.parents
                               /\ cleaner'.siblings = Append(cleaner.siblings, i)
  <2>1. cleaner \in CleanerType
    BY TreeBasics
  <2>2. CASE Auth!IsLeader(cleaner)
    BY <1>1, <2>1, <2>2 DEF Auth!Pinned, CleanerType
  <2>3. CASE ~Auth!IsLeader(cleaner)
    BY <1>1, <2>1, <2>3 DEF Auth!Pinned, CleanerType
  <2> QED BY <2>2, <2>3
<1>4. /\ <<i>> \in Seq(PinType) /\ Append(cleaner.siblings, i) \in Seq(PinType)
      /\ Append(cleaner.pinned, i) \in Seq(PinType)
      /\ Auth!Range(<<i>>) = {i}
  BY <1>2, TreeBasics, PinAdded DEF Auth!Range
<1>5. cleaner' \in CleanerType
  <2>1. cleaner \in CleanerType
    BY TreeBasics
  <2>2. CASE Auth!IsLeader(cleaner)
    BY <1>1, <1>4, <2>1, <2>2 DEF Auth!Pinned, CleanerType
  <2>3. CASE ~Auth!IsLeader(cleaner)
    BY <1>1, <1>4, <2>1, <2>3 DEF Auth!Pinned, CleanerType
  <2> QED BY <2>2, <2>3
<1>6. PICK k \in Nat : k = Len(cleaner.pinned)
  BY TreeBasics
<1>7. /\ DOMAIN cleaner.pinned = 1 .. k /\ DOMAIN cleaner'.pinned = 1 .. k + 1
      /\ cleaner'.pinned[k + 1] = i
      /\ \A m \in 1 .. k : cleaner'.pinned[m] = cleaner.pinned[m]
      /\ PidsOf(cleaner'.pinned) = PidsOf(cleaner.pinned) \cup {p}
      /\ Auth!Range(cleaner'.pinned) = Auth!Range(cleaner.pinned) \cup {i}
      /\ cleaner'.pinned # <<>>
  BY <1>2, <1>3, <1>6, TreeBasics, PinAdded
<1>8. Auth!Range(Append(cleaner.siblings, i)) = Auth!Range(cleaner.siblings) \cup {i}
  BY <1>2, TreeBasics, PinAdded
<1>9. \A m \in 1 .. k + 1 : m \in 1 .. k \/ m = k + 1
  BY <1>6
<1>10. /\ cleaner.at # "end" /\ cleaner'.at \in {"list", "next"} /\ Collecting
       /\ ParentsAlive /\ StartsArePast /\ LeaderKeepsPid /\ WhatIsPinned /\ WhatIsLeft
       /\ PinnedInOrder /\ PinnedOfTheTree /\ PinnedIsStopped
  BY <1>3 DEF TreeInv, Pinning, Collecting
<1>11. /\ Auth!IsLeader(cleaner) => /\ p = Leader /\ cleaner.pinned = <<>> /\ k = 0
                               /\ cleaner.siblings = <<>> /\ cleaner.todo = {}
       /\ ~Auth!IsLeader(cleaner) => /\ i.parent \in PidsOf(cleaner.pinned) /\ i.parent \in Pids
                                /\ p \notin PidsOf(cleaner.pinned)
  BY <1>2, <1>6, <1>10, TreeBasics DEF WhatIsPinned
<1>12. proc[p].tree \/ (continued /\ i.parent \notin {Auth!Vaire, Leader})
  <2>1. CASE Auth!IsLeader(cleaner)
    BY <1>10, <1>11, <2>1 DEF LeaderKeepsPid
  <2>2. CASE ~Auth!IsLeader(cleaner)
    <3>1. proc[i.parent].tree = proc[p].tree /\ i.parent # Auth!Vaire
      BY <1>2, <1>10, <1>11, <2>2, TreeNames DEF ParentsAlive
    <3>2. CASE i.parent = Leader
      BY <1>10, <3>1, <3>2 DEF LeaderKeepsPid
    <3>3. CASE ~continued
      BY <1>10, <1>11, <2>2, <3>1, <3>3 DEF PinnedIsStopped, PidsOf
    <3> QED BY <3>1, <3>2, <3>3
  <2> QED BY <2>1, <2>2
<1>13. TreeTypeOK'
  BY <1>5, TreeBasics DEF TreeTypeOK
<1>14. ParentsAlive' /\ StartsArePast'
  BY <1>10 DEF ParentsAlive, StartsArePast, Auth!Alive
<1>15. LeaderKeepsPid'
  BY <1>10 DEF LeaderKeepsPid
<1>16. WhatIsPinned'
  BY <1>2, <1>3, <1>7, <1>10, <1>11 DEF WhatIsPinned, Pinning
<1>17. Unlisted' \subseteq Unlisted \cup {i} /\ i \in Unlisted'
       /\ (~Auth!IsLeader(cleaner) => Unlisted \subseteq Unlisted')
  <2>1. CASE Auth!IsLeader(cleaner)
    BY <1>3, <1>4, <2>1 DEF Unlisted
  <2>2. CASE ~Auth!IsLeader(cleaner)
    BY <1>3, <1>8, <2>2 DEF Unlisted
  <2> QED BY <2>1, <2>2
<1>18. WhatIsLeft'
  <2>1. Unlisted' \subseteq Auth!Range(cleaner'.pinned)
    BY <1>7, <1>10, <1>17 DEF WhatIsLeft
  <2>2. cleaner'.result # "cancelled"
    BY <1>3, <1>10, TreeBasics
  <2> QED BY <1>10, <2>1, <2>2 DEF WhatIsLeft, Killing
<1>19. PinnedInOrder'
  <2> SUFFICES ASSUME NEW m \in 1 .. k + 1
               PROVE  /\ \A n \in 1 .. k + 1 :
                           cleaner'.pinned[m].pid = cleaner'.pinned[n].pid => m = n
                      /\ IF m = 1 THEN cleaner'.pinned[m].parent = Auth!Vaire
                         ELSE \E n \in 1 .. m - 1 :
                                cleaner'.pinned[m].parent = cleaner'.pinned[n].pid
    <3>1. PICK s : s = cleaner'.pinned /\ DOMAIN s = 1 .. k + 1
      BY <1>7
    <3> QED BY <3>1 DEF PinnedInOrder
  <2>1. CASE Auth!IsLeader(cleaner)
    <3>1. k = 0 /\ m = 1 /\ i.parent = Auth!Vaire
      BY <1>2, <1>11, <2>1 DEF Auth!IsLeader
    <3> QED BY <1>7, <3>1
  <2>2. CASE ~Auth!IsLeader(cleaner)
    <3>1. PICK l \in 1 .. k : cleaner.pinned[l].pid = i.parent
      BY <1>7, <1>11, <2>2 DEF PidsOf
    <3>2. \A n \in 1 .. k : cleaner'.pinned[n].pid # p
      <4>1. p \notin PidsOf(cleaner.pinned) /\ DOMAIN cleaner.pinned = 1 .. k
        BY <1>7, <1>11, <2>2
      <4>2. \A n \in 1 .. k : cleaner.pinned[n].pid # p
        BY <4>1 DEF PidsOf
      <4> QED BY <1>7, <4>2
    <3>3. CASE m = k + 1
      <4>1. cleaner'.pinned[m] = i /\ m # 1 /\ l \in 1 .. m - 1 /\ m - 1 = k
        BY <1>7, <3>1, <3>3
      <4>2. \A n \in 1 .. k + 1 : cleaner'.pinned[n].pid = p => n = m
        BY <1>9, <3>2, <3>3
      <4>3. cleaner'.pinned[l].pid = i.parent
        BY <1>7, <3>1
      <4> QED BY <1>2, <4>1, <4>2, <4>3
    <3>4. CASE m \in 1 .. k
      <4>1. \A n \in 1 .. k : cleaner.pinned[m].pid = cleaner.pinned[n].pid => m = n
        BY <1>7, <1>10, <3>4 DEF PinnedInOrder
      <4>2. \A n \in 1 .. k + 1 : cleaner'.pinned[m].pid = cleaner'.pinned[n].pid => m = n
        <5>1. cleaner'.pinned[m].pid = cleaner.pinned[m].pid /\ cleaner'.pinned[m].pid # p
          BY <1>7, <3>2, <3>4
        <5>2. \A n \in 1 .. k : cleaner'.pinned[n].pid = cleaner.pinned[n].pid
          BY <1>7
        <5>3. cleaner'.pinned[k + 1].pid = p
          BY <1>2, <1>7
        <5> QED BY <1>9, <4>1, <5>1, <5>2, <5>3
      <4>3. CASE m = 1
        BY <1>7, <1>10, <3>4, <4>2, <4>3 DEF PinnedInOrder
      <4>4. CASE m # 1
        <5>1. PICK n \in 1 .. m - 1 : cleaner.pinned[m].parent = cleaner.pinned[n].pid
          <6>1. PICK s : s = cleaner.pinned /\ m \in DOMAIN s
            BY <1>7, <3>4
          <6>2. \E n \in 1 .. m - 1 : s[m].parent = s[n].pid
            BY <1>10, <4>4, <6>1 DEF PinnedInOrder
          <6> QED BY <6>1, <6>2
        <5>2. n \in 1 .. k
          BY <3>4, <5>1
        <5> QED BY <1>7, <3>4, <4>2, <4>4, <5>1, <5>2
      <4> QED BY <4>3, <4>4
    <3> QED BY <1>9, <3>3, <3>4
  <2> QED BY <2>1, <2>2
<1>20. PinnedOfTheTree'
  <2>1. \A m \in 1 .. k : OfTheTree(cleaner.pinned[m])'
    <3> SUFFICES ASSUME NEW m \in 1 .. k PROVE OfTheTree(cleaner.pinned[m])'
      OBVIOUS
    <3>1. PICK x : x = cleaner.pinned[m] /\ x = cleaner'.pinned[m]
      BY <1>7
    <3>2. OfTheTree(x)
      BY <1>7, <1>10, <3>1 DEF PinnedOfTheTree
    <3> QED BY <3>1, <3>2 DEF OfTheTree, Auth!SameInstance, Auth!Identity
  <2>2. OfTheTree(i)'
    BY <1>2, <1>10, <1>12 DEF OfTheTree, StartsArePast
  <2>3. \A m \in 1 .. k + 1 : OfTheTree(cleaner.pinned[m])'
    BY <1>7, <1>9, <2>1, <2>2 DEF OfTheTree, Auth!SameInstance
  <2> QED BY <1>7, <2>3 DEF PinnedOfTheTree
<1>21. PinnedIsStopped'
  <2> SUFFICES ASSUME ~continued, NEW m \in 1 .. k + 1
               PROVE  (Auth!StillStopped(cleaner.pinned[m]) /\ proc[cleaner.pinned[m].pid].tree)'
    BY <1>7 DEF PinnedIsStopped
  <2>1. PICK x : x = cleaner'.pinned[m]
    OBVIOUS
  <2>2. Auth!StillStopped(x) /\ proc[x.pid].tree
    <3>1. CASE m \in 1 .. k
      BY <1>7, <1>10, <2>1, <3>1 DEF PinnedIsStopped
    <3>2. CASE m = k + 1
      <4>1. x = Auth!Identity(p) /\ x.pid = p
        BY <1>1, <1>2, <1>7, <2>1, <3>2
      <4> QED BY <1>12, <4>1 DEF Auth!StillStopped
    <3> QED BY <1>9, <3>1, <3>2
  <2> QED BY <2>1, <2>2 DEF Auth!StillStopped, Auth!Identity
<1>22. NothingIsLeftStopped'
  <2>1. Held \subseteq Held'
    BY <1>7, <1>10 DEF Held, Collecting
  <2> QED BY <1>3, <2>1 DEF TreeInv, NothingIsLeftStopped, Sound, Auth!Alive
<1>23. ChildrenArePinned'
  <2> SUFFICES ASSUME Sound, NEW m \in 1 .. k + 1, cleaner'.pinned[m] \notin Unlisted',
                      NEW q \in Pids, Auth!Alive(q), proc[q].parent = cleaner'.pinned[m].pid
               PROVE  \/ q \in PidsOf(cleaner'.pinned)
                      \/ /\ cleaner'.pin.parent = cleaner'.pinned[m].pid
                         /\ q \in cleaner'.todo
    BY <1>3, <1>7 DEF ChildrenArePinned, Sound, Auth!Alive
  <2>1. m \in 1 .. k /\ ~Auth!IsLeader(cleaner)
    BY <1>6, <1>7, <1>9, <1>11, <1>17
  <2>2. cleaner.pinned[m] = cleaner'.pinned[m] /\ cleaner.pinned[m] \notin Unlisted
    BY <1>7, <1>17, <2>1
  <2>3. \/ q \in PidsOf(cleaner.pinned)
        \/ /\ cleaner.pin.parent = cleaner.pinned[m].pid
           /\ q \in cleaner.todo \/ (Pinning /\ q = cleaner.pin.pid)
    <3>1. ChildrenArePinned
      BY DEF TreeInv
    <3>2. PICK x : x = cleaner.pinned[m] /\ m \in DOMAIN cleaner.pinned /\ x \notin Unlisted
                   /\ proc[q].parent = x.pid
      BY <1>7, <2>1, <2>2
    <3>3. \/ q \in PidsOf(cleaner.pinned)
          \/ /\ cleaner.pin.parent = x.pid
             /\ q \in cleaner.todo \/ (Pinning /\ q = cleaner.pin.pid)
      BY <1>10, <3>1, <3>2 DEF ChildrenArePinned
    <3> QED BY <3>2, <3>3
  <2> QED BY <1>3, <1>7, <2>2, <2>3
<1>24. LeafFirst' /\ Auth!KillsOnlyTheTree'
  BY <1>10 DEF TreeInv, LeafFirst, Killing, Auth!KillsOnlyTheTree
<1> QED BY <1>13, <1>14, <1>15, <1>16, <1>18, <1>19, <1>20, <1>21, <1>22, <1>23, <1>24
        DEF TreeInv

\* The process in hand is to be stopped: nothing of the tree is left behind, since it is in hand
\* by the time it may stop.
LEMMA PinningGoesOn ==
  ASSUME TreeInv, cleaner.at \in {"inspect", "stop"}, cleaner'.at \in {"stop", "await"},
         cleaner' \in CleanerType, OnlyPinChanges,
         cleaner'.pin.pid = cleaner.pin.pid, cleaner'.pin.parent = cleaner.pin.parent,
         cleaner'.pinned = cleaner.pinned, cleaner'.parents = cleaner.parents,
         cleaner'.siblings = cleaner.siblings, cleaner'.todo = cleaner.todo,
         cleaner'.failed = cleaner.failed, cleaner'.result = cleaner.result,
         \A p \in Pids : proc'[p].status = proc[p].status,
         cleaner'.at = "stop" => proc' = proc
  PROVE  TreeInv'
<1>1. /\ Pinning /\ Pinning' /\ Collecting /\ Collecting'
         /\ Auth!IsLeader(cleaner)' = Auth!IsLeader(cleaner)
      /\ cleaner.at # "end" /\ cleaner'.at # "end" /\ Unlisted' = Unlisted
      /\ PidsOf(cleaner.pinned)' = PidsOf(cleaner.pinned)
  BY DEF Pinning, Collecting, Auth!IsLeader, Unlisted, PidsOf
<1>2. ParentsAlive' /\ StartsArePast' /\ LeaderKeepsPid' /\ \A p \in Pids : SameOrNew(p)
  BY <1>1, OnlyStatusChanges DEF OnlyPinChanges
<1>3. TreeTypeOK'
  BY TreeBasics DEF TreeTypeOK, OnlyPinChanges
<1>4. PinnedOfTheTree'
  BY <1>2, TreeBasics, StaysOfTheTree DEF OnlyPinChanges
<1>5. WhatIsPinned /\ WhatIsLeft /\ PinnedInOrder /\ PinnedIsStopped
      /\ NothingIsLeftStopped /\ ChildrenArePinned
  BY DEF TreeInv
<1>6. WhatIsPinned'
  BY <1>1, <1>5 DEF WhatIsPinned
<1>7. WhatIsLeft'
  BY <1>1, <1>5, TreeBasics DEF WhatIsLeft, Killing
<1>8. PinnedInOrder'
  BY <1>5 DEF PinnedInOrder
<1>9. PinnedIsStopped'
  <2> SUFFICES ASSUME ~continued, NEW m \in DOMAIN cleaner.pinned
               PROVE  (Auth!StillStopped(cleaner.pinned[m]) /\ proc[cleaner.pinned[m].pid].tree)'
    BY <1>1 DEF PinnedIsStopped, OnlyPinChanges
  <2>1. PICK x : x = cleaner.pinned[m] /\ x.pid \in Pids
    BY TreeBasics
  <2>2. Auth!StillStopped(x) /\ proc[x.pid].tree
    BY <1>1, <1>5, <2>1 DEF PinnedIsStopped
  <2> QED BY <2>1, <2>2 DEF Auth!StillStopped, Auth!Identity, OnlyPinChanges
<1>10. NothingIsLeftStopped'
  <2> SUFFICES ASSUME Sound, NEW p \in Pids, Auth!Alive(p)', proc'[p].tree
               PROVE  /\ ~proc'[p].bereft
                      /\ (proc'[p].stopping \/ proc'[p].status # "run") => p \in Held'
    BY DEF NothingIsLeftStopped, Sound, OnlyPinChanges
  <2>1. /\ Held = PidsOf(cleaner.pinned) /\ Held \subseteq Held'
        /\ cleaner'.at = "await" => cleaner.pin.pid \in Held'
    BY <1>1 DEF Held
  <2>2. Auth!Alive(p) /\ proc[p].tree
    BY DEF OnlyPinChanges
  <2>3. ~proc'[p].bereft
    BY <1>5, <2>2 DEF NothingIsLeftStopped, OnlyPinChanges
  <2>4. ASSUME proc'[p].stopping \/ proc'[p].status # "run"
        PROVE  p \in Held'
    <3>1. CASE p = cleaner.pin.pid /\ cleaner'.at = "await"
      BY <2>1, <3>1
    <3>2. CASE p # cleaner.pin.pid \/ cleaner'.at = "stop"
      <4>1. proc'[p] = proc[p]
        BY <3>2 DEF OnlyPinChanges
      <4> QED BY <1>5, <2>1, <2>2, <2>4, <4>1 DEF NothingIsLeftStopped
    <3> QED BY <3>1, <3>2
  <2> QED BY <2>3, <2>4
<1>11. ChildrenArePinned'
  BY <1>1, <1>5 DEF ChildrenArePinned, Sound, OnlyPinChanges
<1>12. LeafFirst' /\ Auth!KillsOnlyTheTree'
  <2>1. ~Killing'
    BY DEF Killing
  <2> QED BY <2>1 DEF TreeInv, LeafFirst, Auth!KillsOnlyTheTree, OnlyPinChanges
<1> QED BY <1>2, <1>3, <1>4, <1>6, <1>7, <1>8, <1>9, <1>10, <1>11, <1>12 DEF TreeInv

\* What is only looked at does not change.
LEMMA OnlyLooks ==
  ASSUME TreeInv, proc' = proc, starts' = starts, continued' = continued, victims' = victims
  PROVE  OnlyPinChanges
BY TreeBasics DEF OnlyPinChanges, Auth!Alive

\* The inspection before the signal.
LEMMA InspectKeeps ==
  ASSUME TreeInv, Auth!Inspect
  PROVE  TreeInv'
<1>1. /\ proc' = proc /\ starts' = starts /\ continued' = continued /\ victims' = victims
      /\ cleaner.at = "inspect" /\ Pinning
  BY DEF Auth!Inspect, Auth!Only, Pinning
<1>2. OnlyPinChanges
  BY <1>1, OnlyLooks
<1>3. PICK p \in Pids : p = cleaner.pin.pid
  BY TreeBasics
<1>4. CASE cleaner' = Auth!NotPinned(cleaner)
  BY <1>1, <1>2, <1>4, NotPinnedKeeps
<1>5. CASE /\ Auth!Alive(p) /\ proc[p].parent = cleaner.pin.parent
           /\ proc[p].status = "stopped" /\ cleaner' = Auth!Pinned(cleaner, Auth!Identity(p))
  BY <1>1, <1>3, <1>5, PinnedKeeps
<1>6. CASE /\ Auth!Alive(p) /\ proc[p].parent = cleaner.pin.parent
           /\ cleaner' = [cleaner EXCEPT !.at = "stop", !.pin = Auth!Identity(p)]
  <2>1. Auth!Identity(p) \in PinType /\ Auth!Identity(p).pid = p
        /\ Auth!Identity(p).parent = proc[p].parent
    <3>1. proc[p] \in Process
      BY TreeBasics
    <3> QED BY <3>1 DEF Auth!Identity, PinType, Process
  <2>2. /\ cleaner' \in CleanerType /\ cleaner'.at = "stop" /\ cleaner'.pin = Auth!Identity(p)
        /\ cleaner'.pinned = cleaner.pinned /\ cleaner'.parents = cleaner.parents
        /\ cleaner'.siblings = cleaner.siblings /\ cleaner'.todo = cleaner.todo
        /\ cleaner'.failed = cleaner.failed /\ cleaner'.result = cleaner.result
    BY <1>6, <2>1, TreeBasics DEF CleanerType
  <2>3. cleaner'.pin.pid = cleaner.pin.pid /\ cleaner'.pin.parent = cleaner.pin.parent
    BY <1>3, <1>6, <2>1, <2>2
  <2> QED BY <1>1, <1>2, <2>2, <2>3, PinningGoesOn
<1> QED BY <1>3, <1>4, <1>5, <1>6 DEF Auth!Inspect

\* SIGSTOP is sent to the pid.
LEMMA SendStopKeeps ==
  ASSUME TreeInv, Auth!SendStop
  PROVE  TreeInv'
<1>1. PICK p \in Pids : p = cleaner.pin.pid
  BY TreeBasics
<1>2. /\ starts' = starts /\ continued' = continued /\ victims' = victims
      /\ cleaner.at = "stop" /\ Pinning
      /\ cleaner' = IF proc[p].status = "none" THEN Auth!NotPinned(cleaner)
                    ELSE [cleaner EXCEPT !.at = "await"]
      /\ proc' = [proc EXCEPT ![p].stopping = proc[p].status = "run"]
  BY <1>1 DEF Auth!SendStop, Auth!Only, Pinning
<1> DEFINE new == [proc[p] EXCEPT !.stopping = proc[p].status = "run"]
<1>3. /\ new \in Process /\ new.status = proc[p].status /\ new.parent = proc[p].parent
      /\ new.start = proc[p].start /\ new.tree = proc[p].tree /\ new.bereft = proc[p].bereft
  <2>1. proc[p] \in Process
    BY TreeBasics
  <2> QED BY <2>1 DEF Process
<1>4. proc' = [proc EXCEPT ![p] = new]
  BY <1>2
<1> HIDE DEF new
<1>5. /\ proc' \in [Pids -> Process] /\ proc'[p] = new
      /\ \A q \in Pids \ {p} : proc'[q] = proc[q]
  BY <1>3, <1>4, TreeBasics
<1>6. \A q \in Pids : /\ proc'[q].status = proc[q].status /\ proc'[q].parent = proc[q].parent
                      /\ proc'[q].start = proc[q].start /\ proc'[q].tree = proc[q].tree
                      /\ proc'[q].bereft = proc[q].bereft
  BY <1>3, <1>5
<1>7. OnlyPinChanges
  BY <1>1, <1>2, <1>5, <1>6 DEF OnlyPinChanges, Auth!Alive
<1>8. CASE proc[p].status = "none"
  BY <1>2, <1>7, <1>8, NotPinnedKeeps
<1>9. CASE proc[p].status # "none"
  <2>1. /\ cleaner' \in CleanerType /\ cleaner'.at = "await" /\ cleaner'.pin = cleaner.pin
        /\ cleaner'.pinned = cleaner.pinned /\ cleaner'.parents = cleaner.parents
        /\ cleaner'.siblings = cleaner.siblings /\ cleaner'.todo = cleaner.todo
        /\ cleaner'.failed = cleaner.failed /\ cleaner'.result = cleaner.result
    BY <1>2, <1>9, TreeBasics DEF CleanerType
  <2> QED BY <1>2, <1>6, <1>7, <2>1, PinningGoesOn
<1> QED BY <1>8, <1>9

\* The inspections after the signal.
LEMMA AwaitStopKeeps ==
  ASSUME TreeInv, Auth!AwaitStop
  PROVE  TreeInv'
<1>1. PICK p \in Pids : p = cleaner.pin.pid
  BY TreeBasics
<1>2. /\ starts' = starts /\ continued' = continued /\ victims' = victims
      /\ cleaner.at = "await" /\ Pinning
  BY DEF Auth!AwaitStop, Auth!Only, Pinning
<1>3. \/ cleaner' = Auth!NotPinned(cleaner) /\ (proc' = proc \/ proc' = Auth!Continued({p}))
      \/ /\ proc[p].status = "stopped" /\ proc[p].parent = cleaner.pin.parent
         /\ cleaner' = Auth!Pinned(cleaner, Auth!Identity(p)) /\ proc' = proc
  BY <1>1 DEF Auth!AwaitStop
<1>4. CASE cleaner' = Auth!NotPinned(cleaner) /\ (proc' = proc \/ proc' = Auth!Continued({p}))
  <2>1. CASE proc' = proc
    BY <1>2, <1>4, <2>1, OnlyLooks, NotPinnedKeeps
  <2>2. CASE proc' = Auth!Continued({p})
    <3>1. cleaner'.at # "end" /\ cleaner.at # "end"
      <4>1. cleaner'.at = IF Auth!IsLeader(cleaner) THEN "leader" ELSE "next"
        BY <1>4, TreeBasics DEF Auth!NotPinned, CleanerType
      <4> QED BY <1>2, <4>1
    <3>2. OnlyPinChanges
      BY <1>1, <1>2, <2>2, <3>1, ContinuedIs DEF OnlyPinChanges
    <3> QED BY <1>2, <1>4, <3>2, NotPinnedKeeps
  <2> QED BY <1>4, <2>1, <2>2
<1>5. CASE /\ proc[p].status = "stopped" /\ proc[p].parent = cleaner.pin.parent
           /\ cleaner' = Auth!Pinned(cleaner, Auth!Identity(p)) /\ proc' = proc
  BY <1>1, <1>2, <1>5, PinnedKeeps
<1> QED BY <1>3, <1>4, <1>5

\* A step of the cleanup that touches no process and pins none.
LEMMA CleanerMoves ==
  ASSUME TreeInv, proc' = proc, starts' = starts, continued' = continued, victims' = victims,
         cleaner' \in CleanerType, cleaner'.pinned = cleaner.pinned,
         cleaner'.at = "end" <=> cleaner.at = "end"
  PROVE  /\ TreeTypeOK' /\ ParentsAlive' /\ StartsArePast' /\ LeaderKeepsPid'
         /\ PinnedInOrder' /\ PinnedOfTheTree' /\ Auth!KillsOnlyTheTree'
         /\ (Collecting' => Collecting) => PinnedIsStopped'
<1>1. TreeTypeOK'
  BY TreeBasics DEF TreeTypeOK
<1>2. ParentsAlive' /\ StartsArePast' /\ LeaderKeepsPid' /\ \A p \in Pids : SameOrNew(p)
  BY TreeBasics, OnlyLooks, OnlyStatusChanges DEF OnlyPinChanges
<1>3. PinnedOfTheTree'
  BY <1>2, TreeBasics, StaysOfTheTree
<1>4. PinnedInOrder' /\ Auth!KillsOnlyTheTree'
  BY DEF TreeInv, PinnedInOrder, Auth!KillsOnlyTheTree
<1>5. ASSUME Collecting' => Collecting
      PROVE  PinnedIsStopped'
  <2> SUFFICES ASSUME ~continued, Collecting, NEW m \in DOMAIN cleaner.pinned
               PROVE  (Auth!StillStopped(cleaner.pinned[m]) /\ proc[cleaner.pinned[m].pid].tree)'
    BY <1>5 DEF PinnedIsStopped
  <2>1. PICK x : x = cleaner.pinned[m]
    OBVIOUS
  <2>2. Auth!StillStopped(x) /\ proc[x.pid].tree
    BY <2>1 DEF TreeInv, PinnedIsStopped
  <2> QED BY <2>1, <2>2 DEF Auth!StillStopped, Auth!Identity
<1> QED BY <1>1, <1>2, <1>3, <1>4, <1>5

\* It goes on collecting, and forgets no parent.
LEMMA CollectingMoves ==
  ASSUME TreeInv, proc' = proc, starts' = starts, continued' = continued, victims' = victims,
         cleaner.at \in {"list", "next"}, cleaner'.at \in {"list", "next", "inspect"},
         cleaner' \in CleanerType, cleaner'.pinned = cleaner.pinned,
         cleaner'.result = cleaner.result, cleaner.failed => cleaner'.failed,
         Unlisted' \subseteq Unlisted, WhatIsPinned', ~cleaner'.failed => ChildrenArePinned'
  PROVE  TreeInv'
<1>1. /\ Collecting /\ Collecting' /\ ~Killing'
         /\ PidsOf(cleaner.pinned)' = PidsOf(cleaner.pinned)
      /\ cleaner.at # "end" /\ cleaner'.at # "end" /\ Held = PidsOf(cleaner.pinned)
  BY DEF Collecting, Pinning, Killing, PidsOf, Held
<1>2. WhatIsLeft'
  BY <1>1, TreeBasics DEF TreeInv, WhatIsLeft
<1>3. NothingIsLeftStopped'
  <2>1. Held \subseteq Held'
    BY <1>1 DEF Held
  <2> QED BY <2>1 DEF TreeInv, NothingIsLeftStopped, Sound, Auth!Alive
<1>4. ChildrenArePinned'
  BY DEF ChildrenArePinned, Sound
<1>5. LeafFirst'
  BY <1>1 DEF LeafFirst
<1> QED BY <1>1, <1>2, <1>3, <1>4, <1>5, CleanerMoves DEF TreeInv

\* The module's own name for the cardinality of a set.
LEMMA SameCardinality == ASSUME NEW S PROVE Auth!Cardinality(S) = Cardinality(S)
BY DEF Auth!Cardinality, Cardinality, Auth!IsFiniteSet, IsFiniteSet, Auth!Range

\* The children of the next parent are listed: all that are alive, unless a failure is recorded.
LEMMA ListChildrenKeeps ==
  ASSUME TreeInv, Auth!ListChildren
  PROVE  TreeInv'
<1>1. /\ proc' = proc /\ starts' = starts /\ continued' = continued /\ victims' = victims
      /\ cleaner.at = "list" /\ cleaner.parents # <<>>
  BY DEF Auth!ListChildren, Auth!Only
<1>2. PICK parent : parent = Head(cleaner.parents)
  OBVIOUS
<1>3. PICK rest : rest = Tail(cleaner.parents)
  OBVIOUS
<1>4. /\ parent \in PinType /\ rest \in Seq(PinType) /\ cleaner.parents \in Seq(PinType)
      /\ Auth!Range(cleaner.parents) = Auth!Range(rest) \cup {parent}
  BY <1>1, <1>2, <1>3, TreeBasics, PinTaken
<1>5. /\ cleaner.siblings = <<>> /\ cleaner.todo = {} /\ cleaner.pinned # <<>>
      /\ Unlisted \subseteq Auth!Range(cleaner.pinned) /\ Auth!Range(<<>>) = {}
  BY <1>1 DEF TreeInv, WhatIsPinned, WhatIsLeft, Collecting, Auth!Range
<1>6. /\ Unlisted = Auth!Range(rest) \cup {parent} /\ parent \in Auth!Range(cleaner.pinned)
      /\ parent.pid \in PidsOf(cleaner.pinned) /\ parent.pid \in Pids
  <2>1. parent \in Auth!Range(cleaner.pinned) /\ Unlisted = Auth!Range(rest) \cup {parent}
    BY <1>4, <1>5 DEF Unlisted
  <2> QED BY <1>4, <2>1 DEF Auth!Range, PidsOf, PinType
<1>7. CASE cleaner' = [[cleaner EXCEPT !.parents = Tail(@), !.at = "next"] EXCEPT !.failed = TRUE]
  <2>1. /\ cleaner' \in CleanerType /\ cleaner'.at = "next" /\ cleaner'.failed = TRUE
        /\ cleaner'.parents = rest /\ cleaner'.siblings = cleaner.siblings
        /\ cleaner'.pinned = cleaner.pinned /\ cleaner'.todo = cleaner.todo
        /\ cleaner'.result = cleaner.result
    BY <1>3, <1>4, <1>7, TreeBasics DEF CleanerType
  <2>2. Unlisted' \subseteq Unlisted
    BY <1>5, <1>6, <2>1 DEF Unlisted
  <2>3. WhatIsPinned'
    BY <1>5, <2>1 DEF WhatIsPinned, Pinning
  <2> QED BY <1>1, <2>1, <2>2, <2>3, CollectingMoves
<1>8. CASE \E found \in Auth!Listings(parent.pid) : \E kept \in SUBSET found :
             /\ Auth!Cardinality(kept) = Auth!Smaller(Auth!Allowance, Auth!Cardinality(found))
             /\ cleaner' = [[cleaner EXCEPT !.parents = Tail(@), !.at = "next"]
                            EXCEPT !.todo = kept, !.pin.parent = parent.pid,
                                   !.failed = @ \/ Auth!Overflows(found)]
  <2>1. PICK found \in Auth!Listings(parent.pid), kept \in SUBSET Auth!ChildrenOf(parent.pid) :
             /\ kept \in SUBSET found
             /\ Auth!Cardinality(kept) = Auth!Smaller(Auth!Allowance, Auth!Cardinality(found))
             /\ cleaner' = [[cleaner EXCEPT !.parents = Tail(@), !.at = "next"]
                            EXCEPT !.todo = kept, !.pin.parent = parent.pid,
                                   !.failed = @ \/ Auth!Overflows(found)]
    BY <1>8 DEF Auth!Listings
  <2>2. /\ found \subseteq Pids /\ kept \subseteq Pids
        /\ \A q \in Pids : Auth!Alive(q) /\ proc[q].parent = parent.pid => q \in found
    BY DEF Auth!Listings, Auth!ChildrenOf, Auth!Alive
  <2>3. PICK failed \in BOOLEAN : failed = (cleaner.failed \/ Auth!Overflows(found))
    OBVIOUS
  <2>4. [cleaner.pin EXCEPT !.parent = parent.pid] \in PinType
    BY <1>6, TreeBasics DEF PinType
  <2>5. /\ cleaner' \in CleanerType /\ cleaner'.at = "next"
        /\ cleaner'.failed = failed
        /\ cleaner'.parents = rest /\ cleaner'.siblings = cleaner.siblings
        /\ cleaner'.pinned = cleaner.pinned /\ cleaner'.todo = kept
        /\ cleaner'.result = cleaner.result
        /\ cleaner'.pin = [cleaner.pin EXCEPT !.parent = parent.pid]
    BY <1>3, <1>4, <2>1, <2>2, <2>3, <2>4, TreeBasics DEF CleanerType
  <2>6. cleaner'.pin.parent = parent.pid
    BY <2>5, TreeBasics DEF PinType
  <2>7. Unlisted' = Auth!Range(rest) /\ Unlisted' \subseteq Unlisted
    BY <1>5, <1>6, <2>5 DEF Unlisted
  <2>8. PidsOf(cleaner'.pinned) = PidsOf(cleaner.pinned)
    BY <2>5 DEF PidsOf
  <2>9. WhatIsPinned'
    BY <1>5, <1>6, <2>5, <2>6, <2>8 DEF WhatIsPinned, Pinning
  <2>10. ASSUME ~Auth!Overflows(found)
         PROVE  kept = found
    <3>1. IsFiniteSet(found) /\ Cardinality(found) \in Nat
      BY <2>2, PartsAssumption, FS_Subset, FS_CardinalityType
    <3>2. Auth!Allowance \in Nat
      BY PartsAssumption, TreeBasics DEF Auth!Allowance
    <3>3. Auth!Cardinality(kept) = Cardinality(kept)
          /\ Auth!Cardinality(found) = Cardinality(found)
      BY SameCardinality
    <3>4. Cardinality(kept) = Cardinality(found)
      BY <2>1, <2>10, <3>1, <3>2, <3>3 DEF Auth!Overflows, Auth!Smaller
    <3> QED BY <2>1, <3>1, <3>4, FS_Subset
  <2>11. ASSUME ~cleaner'.failed
         PROVE  ChildrenArePinned'
    <3>1. kept = found /\ ~cleaner.failed
      BY <2>3, <2>5, <2>10, <2>11
    <3> SUFFICES ASSUME ~continued, NEW m \in DOMAIN cleaner.pinned,
                        cleaner.pinned[m] \notin Unlisted',
                        NEW q \in Pids, Auth!Alive(q), proc[q].parent = cleaner.pinned[m].pid
                 PROVE  \/ q \in PidsOf(cleaner.pinned)
                        \/ parent.pid = cleaner.pinned[m].pid /\ q \in kept
      BY <1>1, <2>5, <2>6, <2>8 DEF ChildrenArePinned, Sound, Auth!Alive
    <3>2. CASE cleaner.pinned[m] = parent
      BY <2>2, <3>1, <3>2
    <3>3. CASE cleaner.pinned[m] # parent
      <4>1. cleaner.pinned[m] \notin Unlisted /\ Sound /\ Collecting /\ ~Pinning
        BY <1>1, <1>6, <2>7, <3>1, <3>3 DEF Sound, Collecting, Pinning
      <4> QED BY <1>5, <4>1 DEF TreeInv, ChildrenArePinned
    <3> QED BY <3>2, <3>3
  <2>12. cleaner.failed => cleaner'.failed
    BY <2>3, <2>5
  <2> QED BY <1>1, <2>5, <2>7, <2>9, <2>11, <2>12, CollectingMoves
<1> QED BY <1>2, <1>7, <1>8 DEF Auth!ListChildren

\* The next child of the list is taken in hand.
LEMMA NextChildKeeps ==
  ASSUME TreeInv, Auth!NextChild
  PROVE  TreeInv'
<1>1. /\ proc' = proc /\ starts' = starts /\ continued' = continued /\ victims' = victims
      /\ cleaner.at = "next" /\ Collecting
  BY DEF Auth!NextChild, Auth!Only, Collecting
<1>2. PICK p \in cleaner.todo :
        LET c == [cleaner EXCEPT !.todo = @ \ {p}] IN
        cleaner' = IF \E identity \in Auth!Range(cleaner.pinned) : identity.pid = p
                   THEN [c EXCEPT !.failed = TRUE]
                   ELSE [c EXCEPT !.at = "inspect", !.pin.pid = p]
  BY DEF Auth!NextChild
<1>3. /\ p \in Pids /\ cleaner.pin.parent \in PidsOf(cleaner.pinned) /\ cleaner.pinned # <<>>
      /\ cleaner.pin.parent \in Pids /\ WhatIsPinned
  BY <1>1, TreeBasics DEF TreeInv, WhatIsPinned
<1>4. CASE \E identity \in Auth!Range(cleaner.pinned) : identity.pid = p
  <2>1. /\ cleaner' \in CleanerType /\ cleaner'.at = "next" /\ cleaner'.failed = TRUE
        /\ cleaner'.parents = cleaner.parents /\ cleaner'.siblings = cleaner.siblings
        /\ cleaner'.pinned = cleaner.pinned /\ cleaner'.pin = cleaner.pin
        /\ cleaner'.result = cleaner.result
    <3>1. cleaner' = [[cleaner EXCEPT !.todo = @ \ {p}] EXCEPT !.failed = TRUE]
      BY <1>2, <1>4
    <3>2. [cleaner EXCEPT !.todo = @ \ {p}] \in CleanerType
      BY TreeBasics DEF CleanerType
    <3> QED BY <1>1, <3>1, <3>2, TreeBasics DEF CleanerType
  <2>2. Unlisted' \subseteq Unlisted /\ PidsOf(cleaner'.pinned) = PidsOf(cleaner.pinned)
    BY <2>1 DEF Unlisted, PidsOf
  <2>3. WhatIsPinned'
    BY <1>3, <2>1, <2>2 DEF WhatIsPinned, Pinning
  <2> QED BY <1>1, <2>1, <2>2, <2>3, CollectingMoves
<1>5. CASE ~\E identity \in Auth!Range(cleaner.pinned) : identity.pid = p
  <2>1. [cleaner.pin EXCEPT !.pid = p] \in PinType
    BY <1>3, TreeBasics DEF PinType
  <2>2. /\ cleaner' \in CleanerType /\ cleaner'.at = "inspect"
        /\ cleaner'.pin = [cleaner.pin EXCEPT !.pid = p]
        /\ cleaner'.failed = cleaner.failed /\ cleaner'.todo = cleaner.todo \ {p}
        /\ cleaner'.parents = cleaner.parents /\ cleaner'.siblings = cleaner.siblings
        /\ cleaner'.pinned = cleaner.pinned /\ cleaner'.result = cleaner.result
    BY <1>2, <1>5, <2>1, TreeBasics DEF CleanerType
  <2>3. cleaner'.pin.pid = p /\ cleaner'.pin.parent = cleaner.pin.parent
    BY <2>2, TreeBasics DEF PinType
  <2>4. Unlisted' = Unlisted /\ PidsOf(cleaner'.pinned) = PidsOf(cleaner.pinned)
    BY <2>2 DEF Unlisted, PidsOf
  <2>5. p \notin PidsOf(cleaner.pinned)
    BY <1>5 DEF PidsOf, Auth!Range
  <2>6. WhatIsPinned'
    BY <1>3, <2>2, <2>3, <2>4, <2>5, TreeNames DEF WhatIsPinned, Pinning, Auth!IsLeader
  <2>7. ChildrenArePinned'
    <3> SUFFICES ASSUME Sound, NEW m \in DOMAIN cleaner.pinned, cleaner.pinned[m] \notin Unlisted,
                        NEW q \in Pids, Auth!Alive(q), proc[q].parent = cleaner.pinned[m].pid
                 PROVE  \/ q \in PidsOf(cleaner.pinned)
                        \/ /\ cleaner.pin.parent = cleaner.pinned[m].pid
                           /\ q \in cleaner.todo \ {p} \/ q = p
      BY <1>1, <2>2, <2>3, <2>4 DEF ChildrenArePinned, Sound, Auth!Alive, Pinning
    <3>1. ~Pinning
      BY <1>1 DEF Pinning
    <3> QED BY <1>1, <3>1 DEF TreeInv, ChildrenArePinned
  <2> QED BY <1>1, <2>2, <2>4, <2>6, <2>7, CollectingMoves
<1> QED BY <1>4, <1>5

\* The siblings join the parents whose children are still to be looked for.
LEMMA SiblingsDoneKeeps ==
  ASSUME TreeInv, Auth!SiblingsDone
  PROVE  TreeInv'
<1>1. /\ proc' = proc /\ starts' = starts /\ continued' = continued /\ victims' = victims
      /\ cleaner.at = "next" /\ cleaner.todo = {} /\ Collecting /\ ~Pinning
      /\ cleaner' = [cleaner EXCEPT !.parents = @ \o cleaner.siblings, !.siblings = <<>>,
                                    !.at = "list"]
  BY DEF Auth!SiblingsDone, Auth!Only, Collecting, Pinning
<1>2. PICK both : both = cleaner.parents \o cleaner.siblings
  OBVIOUS
<1>3. both \in Seq(PinType) /\ <<>> \in Seq(PinType) /\ Auth!Range(<<>>) = {}
  BY <1>2, TreeBasics DEF Auth!Range
<1>4. Auth!Range(both) = Auth!Range(cleaner.parents) \cup Auth!Range(cleaner.siblings)
  <2>1. PICK s, t \in Seq(PinType) : s = cleaner.parents /\ t = cleaner.siblings
    BY TreeBasics
  <2>2. /\ Len(s) \in Nat /\ Len(t) \in Nat /\ DOMAIN s = 1 .. Len(s) /\ DOMAIN t = 1 .. Len(t)
        /\ DOMAIN both = 1 .. Len(s) + Len(t)
        /\ \A n \in 1 .. Len(s) : both[n] = s[n]
        /\ \A n \in Len(s) + 1 .. Len(s) + Len(t) : both[n] = t[n - Len(s)]
    <3>1. Len(s) \in Nat /\ Len(t) \in Nat /\ DOMAIN s = 1 .. Len(s) /\ DOMAIN t = 1 .. Len(t)
      OBVIOUS
    <3>2. both = s \o t
      BY <1>2, <2>1
    <3>3. /\ both \in Seq(PinType) /\ Len(both) = Len(s) + Len(t)
          /\ \A n \in 1 .. Len(s) + Len(t) :
               both[n] = IF n <= Len(s) THEN s[n] ELSE t[n - Len(s)]
      BY <3>2, ConcatProperties
    <3>4. DOMAIN both = 1 .. Len(s) + Len(t)
      BY <3>3
    <3> QED BY <3>1, <3>3, <3>4
  <2>3. \A n \in 1 .. Len(t) : Len(s) + n \in 1 .. Len(s) + Len(t) /\ both[Len(s) + n] = t[n]
    BY <2>2
  <2>4. \A n \in 1 .. Len(s) + Len(t) : n \in 1 .. Len(s) \/ n - Len(s) \in 1 .. Len(t)
    BY <2>2
  <2>5. Auth!Range(both) \subseteq Auth!Range(s) \cup Auth!Range(t)
    BY <2>2, <2>4 DEF Auth!Range
  <2>6. \A n \in 1 .. Len(s) : n \in 1 .. Len(s) + Len(t)
    BY <2>2
  <2>7. Auth!Range(s) \cup Auth!Range(t) \subseteq Auth!Range(both)
    <3>1. \A y \in Auth!Range(s) : y \in Auth!Range(both)
      BY <2>2, <2>6 DEF Auth!Range
    <3>2. \A y \in Auth!Range(t) : y \in Auth!Range(both)
      BY <2>2, <2>3 DEF Auth!Range
    <3> QED BY <3>1, <3>2
  <2> QED BY <2>1, <2>5, <2>7
<1>5. /\ cleaner' \in CleanerType /\ cleaner'.at = "list" /\ cleaner'.parents = both
      /\ cleaner'.siblings = <<>> /\ cleaner'.pinned = cleaner.pinned
      /\ cleaner'.pin = cleaner.pin /\ cleaner'.todo = cleaner.todo
      /\ cleaner'.failed = cleaner.failed /\ cleaner'.result = cleaner.result
  BY <1>1, <1>2, <1>3, TreeBasics DEF CleanerType
<1>6. Unlisted' = Unlisted /\ PidsOf(cleaner'.pinned) = PidsOf(cleaner.pinned)
  BY <1>3, <1>4, <1>5 DEF Unlisted, PidsOf
<1>7. WhatIsPinned'
  BY <1>1, <1>5 DEF TreeInv, WhatIsPinned, Pinning
<1>8. ChildrenArePinned'
  BY <1>1, <1>5, <1>6 DEF TreeInv, ChildrenArePinned, Sound, Auth!Alive
<1> QED BY <1>1, <1>5, <1>6, <1>7, <1>8, CollectingMoves

\* The collecting ends without a failure when no parent is left: then every child of a pinned
\* process is pinned after it.
LEMMA CollectingEndsKeeps ==
  ASSUME TreeInv, Auth!CollectingEnds
  PROVE  TreeInv'
<1>1. /\ proc' = proc /\ starts' = starts /\ continued' = continued /\ victims' = victims
      /\ cleaner.at \in {"list", "next"} /\ Collecting /\ ~Pinning
      /\ cleaner' = [cleaner EXCEPT !.at = "check", !.todo = {}, !.siblings = <<>>,
                       !.parents = Auth!Reverse(cleaner.pinned),
                       !.failed = @ \/ cleaner.parents # <<>> \/ cleaner.todo # {}]
      /\ cleaner.at = "list" \/ cleaner.todo # {}
  BY DEF Auth!CollectingEnds, Auth!Only, Collecting, Pinning
<1>2. PICK k \in Nat, back \in {Auth!Reverse(cleaner.pinned)} : k = Len(cleaner.pinned)
  BY TreeBasics
<1>3. /\ back \in Seq(PinType) /\ Len(back) = k /\ DOMAIN back = 1 .. k
      /\ DOMAIN cleaner.pinned = 1 .. k
      /\ \A j \in 1 .. k : back[j] = cleaner.pinned[k - j + 1]
  <2>1. /\ DOMAIN cleaner.pinned = 1 .. k /\ \A j \in 1 .. k : k - j + 1 \in 1 .. k
    BY <1>2, TreeBasics
  <2>2. back = [j \in 1 .. k |-> cleaner.pinned[k - j + 1]]
    BY <1>2 DEF Auth!Reverse
  <2>3. \A j \in 1 .. k : cleaner.pinned[k - j + 1] \in PinType
    BY <2>1, TreeBasics
  <2>4. back \in [1 .. k -> PinType]
    BY <2>2, <2>3
  <2>5. back \in Seq(PinType)
    BY <2>4, SeqDef
  <2> QED BY <2>1, <2>2, <2>4, <2>5
<1>4. PICK failed \in BOOLEAN :
        failed = (cleaner.failed \/ cleaner.parents # <<>> \/ cleaner.todo # {})
  OBVIOUS
<1>5. /\ cleaner' \in CleanerType /\ cleaner'.at = "check" /\ cleaner'.pinned = cleaner.pinned
      /\ cleaner'.parents = back /\ cleaner'.failed = failed /\ cleaner'.pin = cleaner.pin
      /\ cleaner'.result = cleaner.result
  <2>1. {} \in SUBSET Pids /\ <<>> \in Seq(PinType)
    OBVIOUS
  <2> QED BY <1>1, <1>2, <1>3, <1>4, <2>1, TreeBasics DEF CleanerType
<1>6. ~Collecting' /\ Killing' /\ cleaner.at # "end" /\ cleaner'.at # "end"
  BY <1>1, <1>5 DEF Collecting, Pinning, Killing
<1>7. WhatIsPinned'
  BY <1>5 DEF WhatIsPinned, Pinning
<1>8. WhatIsLeft'
  <2>1. /\ Len(cleaner'.parents) <= Len(cleaner'.pinned)
        /\ \A j \in DOMAIN cleaner'.parents :
             cleaner'.parents[j] = cleaner'.pinned[Len(cleaner'.parents) - j + 1]
    <3>1. Len(back) <= Len(cleaner.pinned)
      BY <1>2, <1>3
    <3>2. \A j \in DOMAIN back : back[j] = cleaner.pinned[Len(back) - j + 1]
      BY <1>3
    <3> QED BY <1>5, <3>1, <3>2
  <2>2. cleaner'.result # "cancelled"
    BY <1>5, <1>6, TreeBasics
  <2> QED BY <1>5, <1>6, <2>1, <2>2 DEF WhatIsLeft
<1>9. PidsOf(cleaner.pinned) = PidsOf(back)
  <2>1. \A n \in 1 .. k : k - n + 1 \in 1 .. k /\ k - (k - n + 1) + 1 = n
    BY <1>2
  <2>2. \A y \in PidsOf(cleaner.pinned) : y \in PidsOf(back)
    <3> SUFFICES ASSUME NEW n \in 1 .. k PROVE cleaner.pinned[n].pid \in PidsOf(back)
      BY <1>3 DEF PidsOf
    <3>1. k - n + 1 \in 1 .. k /\ back[k - n + 1] = cleaner.pinned[n]
      BY <1>3, <2>1
    <3> QED BY <1>3, <3>1 DEF PidsOf
  <2>3. \A y \in PidsOf(back) : y \in PidsOf(cleaner.pinned)
    <3> SUFFICES ASSUME NEW n \in 1 .. k PROVE back[n].pid \in PidsOf(cleaner.pinned)
      BY <1>3 DEF PidsOf
    <3>1. k - n + 1 \in 1 .. k /\ back[n] = cleaner.pinned[k - n + 1]
      BY <1>3, <2>1
    <3> QED BY <1>3, <3>1 DEF PidsOf
  <2> QED BY <2>2, <2>3
<1>10. Sound' => /\ Sound /\ cleaner.parents = <<>> /\ cleaner.siblings = <<>>
                 /\ cleaner.todo = {}
  BY <1>1, <1>4, <1>5 DEF TreeInv, Sound, WhatIsPinned
<1>11. NothingIsLeftStopped'
  <2>1. Held \subseteq Held'
    BY <1>1, <1>5, <1>6, <1>9 DEF Held
  <2> QED BY <1>1, <1>10, <2>1 DEF TreeInv, NothingIsLeftStopped, Auth!Alive
<1>12. LeafFirst'
  <2> SUFFICES ASSUME Sound', NEW m \in 1 .. k
               PROVE  /\ proc[cleaner.pinned[m].pid].status = "stopped"
                      /\ \A p \in Pids : Auth!Alive(p)
                         /\ proc[p].parent = cleaner.pinned[m].pid =>
                           \E n \in m + 1 .. k : p = cleaner.pinned[n].pid
    BY <1>1, <1>3, <1>5 DEF LeafFirst, Auth!Alive
  <2>1. ~continued /\ Sound /\ Unlisted = {} /\ PinnedIsStopped /\ ChildrenArePinned
        /\ PinnedInOrder
    BY <1>10 DEF TreeInv, Sound, Unlisted, Auth!Range
  <2>2. proc[cleaner.pinned[m].pid].status = "stopped"
    BY <1>1, <1>3, <2>1 DEF PinnedIsStopped, Auth!StillStopped
  <2>3. ASSUME NEW p \in Pids, Auth!Alive(p), proc[p].parent = cleaner.pinned[m].pid
        PROVE  \E n \in m + 1 .. k : p = cleaner.pinned[n].pid
    <3>1. p \in PidsOf(cleaner.pinned)
      BY <1>1, <1>3, <1>10, <2>1, <2>3 DEF ChildrenArePinned
    <3>2. PICK n \in 1 .. k : p = cleaner.pinned[n].pid
      BY <1>3, <3>1 DEF PidsOf
    <3>3. PICK x \in PinType : x = cleaner.pinned[n]
      BY <1>3, TreeBasics
    <3>4. Auth!StillStopped(x) /\ x.pid = p
      BY <1>1, <1>3, <2>1, <3>2, <3>3 DEF PinnedIsStopped
    <3>5. x.parent = proc[p].parent /\ x.parent \in Pids
      BY <1>3, <2>3, <3>4, TreeBasics DEF Auth!StillStopped, Auth!Identity
    <3>6. n # 1
      BY <1>3, <2>1, <3>3, <3>5, TreeNames DEF PinnedInOrder
    <3>7. PICK l \in 1 .. n - 1 : x.parent = cleaner.pinned[l].pid
      <4>1. n \in DOMAIN cleaner.pinned /\ cleaner.pinned[n] = x /\ PinnedInOrder
        BY <1>3, <2>1, <3>3
      <4> QED BY <3>6, <4>1 DEF PinnedInOrder
    <3>8. l \in 1 .. k /\ cleaner.pinned[l].pid = cleaner.pinned[m].pid
      BY <2>3, <3>2, <3>5, <3>7
    <3>9. l = m
      BY <1>3, <2>1, <3>8 DEF PinnedInOrder
    <3> QED BY <3>2, <3>7, <3>9
  <2> QED BY <2>2, <2>3
<1>13. PinnedIsStopped' /\ ChildrenArePinned'
  BY <1>6 DEF PinnedIsStopped, ChildrenArePinned
<1> QED BY <1>1, <1>5, <1>6, <1>7, <1>8, <1>11, <1>12, <1>13, CleanerMoves DEF TreeInv

\* The one to be killed next is the last pinned of those that are left.
LEMMA NextToKill ==
  ASSUME TreeInv, Killing, cleaner.parents # <<>>
  PROVE  /\ Head(cleaner.parents) \in PinType /\ Head(cleaner.parents).pid \in Pids
         /\ Len(cleaner.parents) \in DOMAIN cleaner.pinned
         /\ Head(cleaner.parents) = cleaner.pinned[Len(cleaner.parents)]
         /\ DOMAIN cleaner.pinned = 1 .. Len(cleaner.pinned)
         /\ Len(cleaner.pinned) \in Nat /\ Len(cleaner.parents) \in Nat \ {0}
         /\ Len(cleaner.parents) <= Len(cleaner.pinned)
<1>1. PICK k : k = Len(cleaner.parents)
  OBVIOUS
<1>2. /\ k \in Nat \ {0} /\ Head(cleaner.parents) = cleaner.parents[1]
      /\ Head(cleaner.parents) \in PinType /\ DOMAIN cleaner.parents = 1 .. k
      /\ Len(cleaner.pinned) \in Nat /\ DOMAIN cleaner.pinned = 1 .. Len(cleaner.pinned)
  BY <1>1, TreeBasics, PinTaken
<1>3. /\ k <= Len(cleaner.pinned)
      /\ \A j \in 1 .. k : cleaner.parents[j] = cleaner.pinned[k - j + 1]
  BY <1>1, <1>2 DEF TreeInv, WhatIsLeft
<1>4. 1 \in 1 .. k /\ k - 1 + 1 = k /\ k \in 1 .. Len(cleaner.pinned)
  BY <1>2, <1>3
<1> QED BY <1>1, <1>2, <1>3, <1>4 DEF PinType

\* One of those that are to be killed is done with.
LEMMA KillingGoesOn ==
  ASSUME TreeInv, Killing, cleaner.parents # <<>>,
         cleaner' = Auth!Killed(cleaner) \/ cleaner' = Auth!NotKilled(cleaner),
         proc' \in [Pids -> Process], starts' = starts, continued' = continued,
         ParentsAlive', StartsArePast', LeaderKeepsPid', \A p \in Pids : SameOrNew(p),
         Auth!KillsOnlyTheTree', Sound' => NothingIsLeftStopped' /\ LeafFirst'
  PROVE  TreeInv'
<1>1. PICK rest : rest = Tail(cleaner.parents)
  OBVIOUS
<1>2. PICK k : k = Len(cleaner.parents)
  OBVIOUS
<1>3. /\ rest \in Seq(PinType) /\ k \in Nat \ {0} /\ Len(rest) = k - 1
      /\ DOMAIN cleaner.parents = 1 .. k /\ DOMAIN rest = 1 .. k - 1
      /\ \A j \in 1 .. k - 1 : rest[j] = cleaner.parents[j + 1]
  BY <1>1, <1>2, TreeBasics, PinTaken
<1>4. /\ cleaner' \in CleanerType /\ cleaner'.at = "check" /\ cleaner'.parents = rest
      /\ cleaner'.pinned = cleaner.pinned /\ cleaner'.result = cleaner.result
      /\ cleaner'.pin = cleaner.pin
  BY <1>1, <1>3, TreeBasics DEF Auth!Killed, Auth!NotKilled, CleanerType
<1>5. TreeTypeOK'
  BY <1>4, TreeBasics DEF TreeTypeOK
<1>6. PinnedOfTheTree'
  BY <1>4, TreeBasics, StaysOfTheTree
<1>7. WhatIsPinned' /\ PinnedInOrder'
  BY <1>4 DEF TreeInv, WhatIsPinned, PinnedInOrder, Pinning
<1>8. WhatIsLeft'
  <2>1. /\ k <= Len(cleaner.pinned) /\ Len(cleaner.pinned) \in Nat
        /\ \A j \in 1 .. k : cleaner.parents[j] = cleaner.pinned[k - j + 1]
    <3>1. WhatIsLeft
      BY DEF TreeInv
    <3> QED BY <1>2, <1>3, <3>1, NextToKill DEF WhatIsLeft
  <2>2. \A j \in 1 .. k - 1 : rest[j] = cleaner.pinned[(k - 1) - j + 1]
    <3> SUFFICES ASSUME NEW j \in 1 .. k - 1
                 PROVE  rest[j] = cleaner.pinned[(k - 1) - j + 1]
      OBVIOUS
    <3>1. j + 1 \in 1 .. k /\ k - (j + 1) + 1 = (k - 1) - j + 1
      BY <1>3
    <3> QED BY <1>3, <2>1, <3>1
  <2>3. Len(rest) <= Len(cleaner.pinned)
    BY <1>3, <2>1
  <2>4. cleaner.at # "end"
    BY DEF Killing
  <2>5. ~Collecting' /\ cleaner'.result # "cancelled"
    BY <1>4, <2>4, TreeBasics DEF Collecting, Pinning
  <2> QED BY <1>3, <1>4, <2>2, <2>3, <2>5 DEF WhatIsLeft
<1>9. PinnedIsStopped' /\ ChildrenArePinned'
  BY <1>4 DEF PinnedIsStopped, ChildrenArePinned, Collecting, Pinning
<1>10. NothingIsLeftStopped' /\ LeafFirst'
  BY DEF NothingIsLeftStopped, LeafFirst
<1> QED BY <1>5, <1>6, <1>7, <1>8, <1>9, <1>10 DEF TreeInv

\* The inspection before the signal: what has vanished was not pinned soundly, what is not as it
\* was is a failure.
LEMMA CheckBeforeKillKeeps ==
  ASSUME TreeInv, Auth!CheckBeforeKill
  PROVE  TreeInv'
<1>1. PICK i : i = Head(cleaner.parents)
  OBVIOUS
<1>2. /\ starts' = starts /\ continued' = continued /\ victims' = victims
      /\ cleaner.at = "check" /\ cleaner.parents # <<>> /\ Killing
  BY DEF Auth!CheckBeforeKill, Auth!Only, Killing
<1>3. /\ i.pid \in Pids /\ i = cleaner.pinned[Len(cleaner.parents)]
      /\ Len(cleaner.parents) \in Nat \ {0}
  BY <1>1, <1>2, NextToKill
<1>4. \/ cleaner' = Auth!NotKilled(cleaner) /\ (proc' = proc \/ proc' = Auth!Continued({i.pid}))
      \/ cleaner' = Auth!Killed(cleaner) /\ proc' = proc /\ ~Auth!Alive(i.pid)
      \/ Auth!StillStopped(i) /\ cleaner' = [cleaner EXCEPT !.at = "kill"] /\ proc' = proc
  BY <1>1 DEF Auth!CheckBeforeKill, Auth!MayKill
<1>5. CASE cleaner' = Auth!NotKilled(cleaner) \/ (cleaner' = Auth!Killed(cleaner)
           /\ ~Auth!Alive(i.pid))
  <2>1. cleaner'.at # "end" /\ cleaner.at # "end"
    BY <1>2, <1>5, TreeBasics DEF Auth!NotKilled, Auth!Killed, CleanerType
  <2>2. proc' = proc \/ proc' = Auth!Continued({i.pid})
    <3>1. Auth!Killed(cleaner).at = "check" /\ Auth!NotKilled(cleaner).at = "check"
      BY TreeBasics DEF Auth!NotKilled, Auth!Killed, CleanerType
    <3>2. cleaner'.at = "check"
      BY <1>5, <3>1
    <3>3. cleaner' # [cleaner EXCEPT !.at = "kill"]
      BY <3>2, TreeBasics DEF CleanerType
    <3> QED BY <1>4, <3>3
  <2>3. /\ proc' \in [Pids -> Process] /\ ParentsAlive' /\ StartsArePast' /\ LeaderKeepsPid'
        /\ \A p \in Pids : SameOrNew(p)
    <3>1. CASE proc' = proc
      BY <1>2, <2>1, <3>1, TreeBasics, OnlyLooks, OnlyStatusChanges DEF OnlyPinChanges
    <3>2. CASE proc' = Auth!Continued({i.pid})
      BY <1>2, <1>3, <2>1, <3>2, ContinuedIs
    <3> QED BY <2>2, <3>1, <3>2
  <2>4. ~Sound'
    <3>1. CASE cleaner' = Auth!NotKilled(cleaner)
      BY <3>1, TreeBasics DEF Sound, Auth!NotKilled, Auth!Killed, CleanerType
    <3>2. CASE cleaner' = Auth!Killed(cleaner) /\ ~Auth!Alive(i.pid)
      <4>1. cleaner'.failed = cleaner.failed
        BY <3>2, TreeBasics DEF Auth!Killed, CleanerType
      <4>2. ~Sound
        BY <1>2, <1>3, <3>2 DEF TreeInv, LeafFirst, Auth!Alive
      <4> QED BY <1>2, <4>1, <4>2 DEF Sound
    <3> QED BY <1>5, <3>1, <3>2
  <2>5. Auth!KillsOnlyTheTree'
    BY <1>2 DEF TreeInv, Auth!KillsOnlyTheTree
  <2> QED BY <1>2, <1>5, <2>3, <2>4, <2>5, KillingGoesOn
<1>6. CASE Auth!StillStopped(i) /\ cleaner' = [cleaner EXCEPT !.at = "kill"] /\ proc' = proc
  <2>1. /\ cleaner' \in CleanerType /\ cleaner'.at = "kill" /\ cleaner'.pin = cleaner.pin
        /\ cleaner'.pinned = cleaner.pinned /\ cleaner'.parents = cleaner.parents
        /\ cleaner'.failed = cleaner.failed /\ cleaner'.result = cleaner.result
    BY <1>6, TreeBasics DEF CleanerType
  <2>2. ~Collecting /\ ~Collecting' /\ Killing' /\ cleaner'.at # "end" /\ cleaner.at # "end"
    BY <1>2, <2>1 DEF Collecting, Pinning, Killing
  <2>3. proc[i.pid].start = i.start
    <3>1. i \in PinType
      BY <1>1, <1>2, NextToKill
    <3> QED BY <1>6, <3>1 DEF Auth!StillStopped, Auth!Identity
  <2>4. WhatIsLeft'
    <3>1. /\ Len(cleaner.parents) <= Len(cleaner.pinned)
          /\ \A j \in DOMAIN cleaner.parents :
               cleaner.parents[j] = cleaner.pinned[Len(cleaner.parents) - j + 1]
      BY <1>2 DEF TreeInv, WhatIsLeft
    <3>2. cleaner'.result # "cancelled"
      BY <1>2, <2>1, TreeBasics
    <3> QED BY <1>1, <1>2, <1>6, <2>1, <2>2, <2>3, <3>1, <3>2
            DEF WhatIsLeft, Auth!SameInstance, Auth!Alive
  <2>5. WhatIsPinned'
    BY <2>1 DEF WhatIsPinned, Pinning
  <2>6. NothingIsLeftStopped'
    <3>1. Held' = Held
      BY <1>2, <2>1, <2>2 DEF Held
    <3> QED BY <1>2, <1>6, <2>1, <3>1 DEF TreeInv, NothingIsLeftStopped, Sound, Auth!Alive
  <2>7. ChildrenArePinned'
    BY <2>2 DEF ChildrenArePinned
  <2>8. LeafFirst'
    BY <1>2, <1>6, <2>1 DEF TreeInv, LeafFirst, Sound, Auth!Alive
  <2> QED BY <1>2, <1>6, <2>1, <2>2, <2>4, <2>5, <2>6, <2>7, <2>8, CleanerMoves DEF TreeInv
<1> QED BY <1>4, <1>5, <1>6

\* SIGKILL: a descendant ends that has no child left; under job control it can be a stranger
\* that was pinned, and nothing else.
LEMMA KillKeeps ==
  ASSUME TreeInv, Auth!Kill
  PROVE  TreeInv'
<1>1. PICK i : i = Head(cleaner.parents)
  OBVIOUS
<1>2. PICK k : k = Len(cleaner.parents)
  OBVIOUS
<1>3. PICK rest : rest = Tail(cleaner.parents)
  OBVIOUS
<1>4. /\ starts' = starts /\ continued' = continued /\ cleaner.at = "kill" /\ Killing
      /\ cleaner' = Auth!Killed(cleaner)
  BY DEF Auth!Kill, Auth!Only, Killing
<1>5. cleaner.parents # <<>> /\ (Auth!Alive(i.pid) => proc[i.pid].start = i.start)
  BY <1>1, <1>4 DEF TreeInv, WhatIsLeft, Auth!SameInstance
<1>6. /\ i \in PinType /\ i.pid \in Pids /\ i = cleaner.pinned[k] /\ k \in DOMAIN cleaner.pinned
      /\ DOMAIN cleaner.pinned = 1 .. Len(cleaner.pinned) /\ Len(cleaner.pinned) \in Nat
      /\ k \in Nat \ {0} /\ k <= Len(cleaner.pinned)
  BY <1>1, <1>2, <1>4, <1>5, NextToKill
<1>7. /\ Len(rest) = k - 1 /\ PidsOf(cleaner.parents) = PidsOf(rest) \cup {i.pid}
  BY <1>1, <1>2, <1>3, <1>5, TreeBasics, PinTaken
<1>8. /\ cleaner'.at = "check" /\ cleaner'.parents = rest /\ cleaner'.pinned = cleaner.pinned
      /\ cleaner'.failed = cleaner.failed
  BY <1>3, <1>4, TreeBasics DEF Auth!Killed, CleanerType
<1>9. Sound' => Sound /\ Auth!Alive(i.pid)
  BY <1>2, <1>4, <1>6, <1>8 DEF TreeInv, LeafFirst, Sound, Auth!Alive
<1>10. CASE ~Auth!Alive(i.pid)
  <2>1. proc' = proc /\ victims' = victims
    BY <1>1, <1>10 DEF Auth!Kill
  <2>2. /\ proc' \in [Pids -> Process] /\ ParentsAlive' /\ StartsArePast' /\ LeaderKeepsPid'
        /\ \A p \in Pids : SameOrNew(p)
    BY <1>4, <1>8, <2>1, TreeBasics, OnlyLooks, OnlyStatusChanges DEF OnlyPinChanges
  <2>3. Auth!KillsOnlyTheTree'
    BY <1>4, <2>1 DEF TreeInv, Auth!KillsOnlyTheTree
  <2> QED BY <1>4, <1>5, <1>9, <1>10, <2>2, <2>3, KillingGoesOn
<1>11. CASE Auth!Alive(i.pid)
  <2>1. /\ proc' = Auth!Ended(i.pid, TRUE)
        /\ victims' = IF ~proc[i.pid].tree THEN victims \cup {i} ELSE victims
    BY <1>1, <1>11 DEF Auth!Kill
  <2>2. cleaner'.at # "end" /\ cleaner.at # "end"
    BY <1>4, <1>8
  <2>3. /\ proc' \in [Pids -> Process] /\ ParentsAlive' /\ StartsArePast' /\ LeaderKeepsPid'
        /\ \A p \in Pids : SameOrNew(p)
        /\ \A p \in Pids : NoNewChild(p) /\ (Auth!Alive(p)' => Auth!Alive(p) /\ p # i.pid)
    BY <1>4, <1>6, <1>11, <2>1, <2>2, EndedIs, EndedKeeps
  <2>4. Auth!KillsOnlyTheTree'
    <3>1. ~proc[i.pid].tree => continued /\ i.parent \notin {Auth!Vaire, Leader}
      BY <1>5, <1>6, <1>11 DEF TreeInv, PinnedOfTheTree, OfTheTree, Auth!SameInstance, Auth!Alive
    <3> QED BY <1>4, <2>1, <3>1 DEF TreeInv, Auth!KillsOnlyTheTree
  <2>5. ASSUME Sound'
        PROVE  NothingIsLeftStopped' /\ LeafFirst'
    <3>1. Sound /\ NothingIsLeftStopped /\ LeafFirst /\ PinnedInOrder
      BY <1>9, <2>5 DEF TreeInv
    <3>2. \A m \in 1 .. k :
            /\ proc[cleaner.pinned[m].pid].status = "stopped"
            /\ \A p \in Pids : Auth!Alive(p) /\ proc[p].parent = cleaner.pinned[m].pid =>
                 \E n \in m + 1 .. k : p = cleaner.pinned[n].pid
      BY <1>2, <1>4, <3>1 DEF LeafFirst
    <3>3. \A p \in Pids : Auth!Alive(p) => proc[p].parent # i.pid
      <4>1. \A n \in k + 1 .. k : FALSE
        BY <1>6
      <4> QED BY <1>6, <3>2, <4>1
    <3>4. \A p \in Pids \ {i.pid} : Auth!Alive(p) => proc'[p] = proc[p]
      <4> SUFFICES ASSUME NEW p \in Pids \ {i.pid}, Auth!Alive(p) PROVE proc'[p] = proc[p]
        OBVIOUS
      <4>1. PICK q \in Pids : q = i.pid
        BY <1>6
      <4>2. proc' = Auth!Ended(q, TRUE) /\ Auth!Alive(q) /\ p \in Pids \ {q}
        BY <1>11, <2>1, <4>1
      <4>3. proc'[p] = proc[p] \/ proc[p].parent = q
        <5>1. TRUE \in BOOLEAN
          OBVIOUS
        <5> HIDE <4>1
        <5> QED BY <4>2, <5>1, EndedIs
      <4> QED BY <3>3, <4>1, <4>3
    <3>5. NothingIsLeftStopped'
      <4>1. Held = PidsOf(cleaner.parents) /\ Held' = PidsOf(rest)
        BY <1>4, <1>8 DEF Held, Collecting, Pinning
      <4>2. Held \subseteq Held' \cup {i.pid}
        BY <1>7, <4>1
      <4> QED BY <2>3, <3>1, <3>4, <4>2 DEF NothingIsLeftStopped
    <3>6. LeafFirst'
      <4> SUFFICES ASSUME NEW m \in 1 .. k - 1
                   PROVE  /\ proc'[cleaner.pinned[m].pid].status = "stopped"
                          /\ \A p \in Pids : Auth!Alive(p)'
                             /\ proc'[p].parent = cleaner.pinned[m].pid
                               => \E n \in m + 1 .. k - 1 : p = cleaner.pinned[n].pid
        BY <1>7, <1>8 DEF LeafFirst
      <4>1. /\ m \in 1 .. k /\ m # k /\ m \in DOMAIN cleaner.pinned
            /\ m + 1 \in Nat /\ \A n \in m + 1 .. k : n = k \/ n \in m + 1 .. k - 1
        BY <1>6
      <4>2. PICK q \in Pids : q = cleaner.pinned[m].pid
        BY <4>1, TreeBasics
      <4>3. q # i.pid
        BY <1>6, <3>1, <4>1, <4>2 DEF PinnedInOrder
      <4>4. proc[q].status = "stopped"
        BY <3>2, <4>1, <4>2
      <4>5. proc'[q].status = "stopped"
        BY <3>4, <4>3, <4>4 DEF Auth!Alive
      <4>6. ASSUME NEW p \in Pids, Auth!Alive(p)', proc'[p].parent = q
            PROVE  \E n \in m + 1 .. k - 1 : p = cleaner.pinned[n].pid
        <5>1. Auth!Alive(p) /\ proc[p].parent = q /\ p # i.pid
          BY <2>3, <4>4, <4>6 DEF NoNewChild
        <5>2. PICK n \in m + 1 .. k : p = cleaner.pinned[n].pid
          BY <3>2, <4>1, <4>2, <5>1
        <5>3. n # k
          BY <1>6, <5>1, <5>2
        <5> QED BY <4>1, <5>2, <5>3
      <4> QED BY <4>2, <4>5, <4>6
    <3> QED BY <3>5, <3>6
  <2> QED BY <1>4, <1>5, <2>3, <2>4, <2>5, KillingGoesOn
<1> QED BY <1>10, <1>11

\* The cleanup is over: what it had failed to do it has recorded.
LEMMA CleanupLeaves ==
  ASSUME TreeInv, ~Collecting, cleaner'.at \in {"reap", "end"}, cleaner' \in CleanerType,
         cleaner'.pinned = cleaner.pinned, cleaner'.parents = cleaner.parents,
         cleaner'.failed = cleaner.failed, ~cleaner.failed => cleaner.parents = <<>>,
         cleaner'.result = "cancelled" => cleaner'.at = "end" /\ ~cleaner.failed,
         starts' = starts, continued' = continued, victims' = victims,
         proc' \in [Pids -> Process], ParentsAlive', StartsArePast', LeaderKeepsPid',
         \A p \in Pids : SameOrNew(p), ~cleaner.failed => \A p \in Pids : NotDisturbed(p)
  PROVE  TreeInv'
<1>1. ~Collecting' /\ ~Killing' /\ ~Pinning'
  BY DEF Collecting, Pinning, Killing
<1>2. TreeTypeOK'
  BY TreeBasics DEF TreeTypeOK
<1>3. PinnedOfTheTree'
  BY TreeBasics, StaysOfTheTree
<1>4. WhatIsPinned' /\ PinnedInOrder' /\ Auth!KillsOnlyTheTree'
  BY <1>1 DEF TreeInv, WhatIsPinned, PinnedInOrder, Auth!KillsOnlyTheTree
<1>5. WhatIsLeft'
  BY <1>1 DEF WhatIsLeft
<1>6. PinnedIsStopped' /\ ChildrenArePinned' /\ LeafFirst'
  BY <1>1 DEF PinnedIsStopped, ChildrenArePinned, LeafFirst
<1>7. NothingIsLeftStopped'
  <2>1. Held \subseteq Held' \cup IF cleaner.at = "await" THEN {cleaner.pin.pid} ELSE {}
    BY <1>1 DEF Held
  <2>2. cleaner.at # "await"
    BY DEF Collecting, Pinning
  <2> QED BY <2>1, <2>2 DEF TreeInv, NothingIsLeftStopped, NotDisturbed, Sound
<1> QED BY <1>2, <1>3, <1>4, <1>5, <1>6, <1>7 DEF TreeInv

\* What is as it was is not disturbed.
LEMMA NothingMoves ==
  ASSUME TreeInv, proc' = proc
  PROVE  \A p \in Pids : NotDisturbed(p)
BY DEF NotDisturbed, Auth!Alive

\* start_kill reaches the command itself, which keeps its pid.
LEMMA KillLeaderKeeps ==
  ASSUME TreeInv, Auth!KillLeader
  PROVE  TreeInv'
<1>1. /\ starts' = starts /\ continued' = continued
      /\ cleaner.at = "leader" \/ (cleaner.at = "check" /\ cleaner.parents = <<>>)
      /\ cleaner' = [cleaner EXCEPT !.at = "reap"]
      /\ proc' = IF cleaner.failed /\ Auth!Alive(Leader) THEN Auth!Ended(Leader, TRUE) ELSE proc
  BY DEF Auth!KillLeader, Auth!Only
<1>2. /\ cleaner' \in CleanerType /\ cleaner'.at = "reap" /\ cleaner'.pinned = cleaner.pinned
      /\ cleaner'.parents = cleaner.parents /\ cleaner'.failed = cleaner.failed
      /\ cleaner'.result = cleaner.result
  BY <1>1, TreeBasics DEF CleanerType
<1>3. /\ ~Collecting /\ cleaner.at # "end" /\ cleaner'.at # "end"
      /\ cleaner'.result # "cancelled"
  BY <1>1, <1>2, TreeBasics DEF Collecting, Pinning
<1>4. ~cleaner.failed => cleaner.parents = <<>>
  BY <1>1 DEF TreeInv, WhatIsLeft
<1>5. proc[Leader].tree
  BY <1>3 DEF TreeInv, LeaderKeepsPid
<1>6. victims' = victims
  BY <1>5 DEF Auth!KillLeader
<1>7. CASE cleaner.failed /\ Auth!Alive(Leader)
  <2>1. /\ proc' \in [Pids -> Process] /\ ParentsAlive' /\ StartsArePast' /\ LeaderKeepsPid'
        /\ \A p \in Pids : SameOrNew(p)
    BY <1>1, <1>3, <1>7, TreeNames, EndedIs, EndedKeeps
  <2> QED BY <1>1, <1>2, <1>3, <1>4, <1>6, <1>7, <2>1, CleanupLeaves
<1>8. CASE ~(cleaner.failed /\ Auth!Alive(Leader))
  <2>1. proc' = proc
    BY <1>1, <1>8
  <2>2. /\ proc' \in [Pids -> Process] /\ ParentsAlive' /\ StartsArePast' /\ LeaderKeepsPid'
        /\ \A p \in Pids : SameOrNew(p)
    BY <1>1, <1>3, <1>6, <2>1, TreeBasics, OnlyLooks, OnlyStatusChanges DEF OnlyPinChanges
  <2> QED BY <1>1, <1>2, <1>3, <1>4, <1>6, <2>1, <2>2, NothingMoves, CleanupLeaves
<1> QED BY <1>7, <1>8

\* The command is reaped, by the cleanup or without one.
LEMMA LeaderReapedKeeps ==
  ASSUME TreeInv, Auth!Reap \/ Auth!Waits
  PROVE  TreeInv'
<1>1. /\ starts' = starts /\ continued' = continued /\ victims' = victims
      /\ cleaner.at \in {"reap", "wait"} /\ proc[Leader].status = "zombie"
      /\ proc' = [proc EXCEPT ![Leader] = Auth!Free]
  BY DEF Auth!Reap, Auth!Waits, Auth!Only
<1>2. PICK outcome \in {"ok", "failed", "cancelled"} :
        /\ cleaner' = [cleaner EXCEPT !.at = "end", !.result = outcome]
        /\ outcome = "cancelled" => ~cleaner.failed
  <2>1. CASE Auth!Reap
    BY <2>1 DEF Auth!Reap
  <2>2. CASE Auth!Waits
    BY <2>2 DEF Auth!Waits
  <2> QED BY <2>1, <2>2
<1>3. /\ cleaner' \in CleanerType /\ cleaner'.at = "end" /\ cleaner'.pinned = cleaner.pinned
      /\ cleaner'.parents = cleaner.parents /\ cleaner'.failed = cleaner.failed
      /\ cleaner'.result = outcome
  BY <1>2, TreeBasics DEF CleanerType
<1>4. ~Collecting
  BY <1>1 DEF Collecting, Pinning
<1>5. ~cleaner.failed => cleaner.parents = <<>>
  BY <1>1 DEF TreeInv, WhatIsLeft
<1>6. /\ proc' \in [Pids -> Process] /\ ParentsAlive' /\ StartsArePast' /\ LeaderKeepsPid'
      /\ \A p \in Pids : SameOrNew(p) /\ NotDisturbed(p)
  BY <1>1, <1>3, TreeNames, ReapedKeeps
<1> QED BY <1>1, <1>2, <1>3, <1>4, <1>5, <1>6, CleanupLeaves

\* The cleanup begins with the command itself.
LEMMA CancelKeeps ==
  ASSUME TreeInv, Auth!Cancel
  PROVE  TreeInv'
<1>1. /\ proc' = proc /\ starts' = starts /\ continued' = continued /\ victims' = victims
      /\ cleaner.at = "wait" /\ cleaner' = [cleaner EXCEPT !.at = "inspect"]
  BY DEF Auth!Cancel, Auth!Only
<1>2. /\ cleaner' \in CleanerType /\ cleaner'.at = "inspect" /\ cleaner'.pin = cleaner.pin
      /\ cleaner'.pinned = cleaner.pinned /\ cleaner'.parents = cleaner.parents
      /\ cleaner'.siblings = cleaner.siblings /\ cleaner'.todo = cleaner.todo
      /\ cleaner'.failed = cleaner.failed /\ cleaner'.result = cleaner.result
  BY <1>1, TreeBasics DEF CleanerType
<1>3. /\ cleaner.pin.pid = Leader /\ cleaner.pin.parent = Auth!Vaire
      /\ cleaner.pinned = <<>> /\ cleaner.parents = <<>> /\ cleaner.siblings = <<>>
      /\ cleaner.todo = {}
  BY <1>1 DEF TreeInv, WhatIsPinned
<1>4. Pinning' /\ Collecting' /\ ~Killing' /\ Auth!IsLeader(cleaner)' /\ ~Collecting
  BY <1>1, <1>2, <1>3 DEF Pinning, Collecting, Killing, Auth!IsLeader
<1>5. WhatIsPinned'
  BY <1>2, <1>3, <1>4 DEF WhatIsPinned
<1>6. WhatIsLeft'
  <2>1. Unlisted' \subseteq Auth!Range(cleaner'.pinned)
    BY <1>2, <1>3 DEF Unlisted
  <2>2. cleaner'.result # "cancelled"
    BY <1>1, <1>2, TreeBasics
  <2> QED BY <1>2, <1>4, <2>1, <2>2 DEF WhatIsLeft
<1>7. PinnedIsStopped' /\ ChildrenArePinned' /\ LeafFirst'
  BY <1>2, <1>3, <1>4 DEF PinnedIsStopped, ChildrenArePinned, LeafFirst
<1>8. NothingIsLeftStopped'
  <2>1. Held \subseteq Held'
    BY <1>1, <1>2, <1>3, <1>4 DEF Held
  <2> QED BY <1>1, <1>2, <2>1 DEF TreeInv, NothingIsLeftStopped, Sound, Auth!Alive
<1>9. /\ TreeTypeOK' /\ ParentsAlive' /\ StartsArePast' /\ LeaderKeepsPid'
      /\ PinnedInOrder' /\ PinnedOfTheTree' /\ Auth!KillsOnlyTheTree'
  BY <1>1, <1>2, CleanerMoves
<1> QED BY <1>5, <1>6, <1>7, <1>8, <1>9 DEF TreeInv

\* Every step keeps the invariant.
LEMMA TreeStep ==
  ASSUME TreeInv, [Auth!Next]_(Auth!vars)
  PROVE  TreeInv'
<1>1. CASE \E p \in Pids : Auth!Fork(p) \/ Auth!Stranger(p) \/ Auth!Exit(p)
           \/ Auth!ParentReaps(p) \/ Auth!Stops(p)
  BY <1>1, ForkKeeps, ExitKeeps, ParentReapsKeeps, StopsKeep
<1>2. CASE Auth!JobControl
  BY <1>2, JobControlKeeps
<1>3. CASE Auth!Waits \/ Auth!Reap
  BY <1>3, LeaderReapedKeeps
<1>4. CASE Auth!Cancel
  BY <1>4, CancelKeeps
<1>5. CASE Auth!Inspect
  BY <1>5, InspectKeeps
<1>6. CASE Auth!SendStop
  BY <1>6, SendStopKeeps
<1>7. CASE Auth!AwaitStop
  BY <1>7, AwaitStopKeeps
<1>8. CASE Auth!ListChildren
  BY <1>8, ListChildrenKeeps
<1>9. CASE Auth!NextChild
  BY <1>9, NextChildKeeps
<1>10. CASE Auth!SiblingsDone
  BY <1>10, SiblingsDoneKeeps
<1>11. CASE Auth!CollectingEnds
  BY <1>11, CollectingEndsKeeps
<1>12. CASE Auth!CheckBeforeKill
  BY <1>12, CheckBeforeKillKeeps
<1>13. CASE Auth!Kill
  BY <1>13, KillKeeps
<1>14. CASE Auth!KillLeader
  BY <1>14, KillLeaderKeeps
<1>15. CASE UNCHANGED Auth!vars
  <2>1. /\ proc' = proc /\ cleaner' = cleaner /\ starts' = starts /\ continued' = continued
        /\ victims' = victims
    BY <1>15 DEF Auth!vars
  <2>2. /\ TreeTypeOK' /\ ParentsAlive' /\ StartsArePast' /\ LeaderKeepsPid'
        /\ PinnedInOrder' /\ Auth!KillsOnlyTheTree'
    BY <2>1 DEF TreeInv, TreeTypeOK, ParentsAlive, StartsArePast, LeaderKeepsPid,
                PinnedInOrder, Auth!KillsOnlyTheTree, Auth!Alive
  <2>3. WhatIsPinned' /\ WhatIsLeft'
    BY <2>1 DEF TreeInv, WhatIsPinned, WhatIsLeft, Pinning, Collecting, Killing, Unlisted,
                Auth!IsLeader, Auth!Alive, Auth!SameInstance, Auth!Identity
  <2>4. PinnedOfTheTree' /\ PinnedIsStopped'
    BY <2>1 DEF TreeInv, PinnedOfTheTree, PinnedIsStopped, OfTheTree, Pinning, Collecting,
                Auth!SameInstance, Auth!StillStopped, Auth!Identity
  <2>5. NothingIsLeftStopped'
    BY <2>1 DEF TreeInv, NothingIsLeftStopped, Sound, Held, Pinning, Collecting, Auth!Alive
  <2>6. ChildrenArePinned' /\ LeafFirst'
    BY <2>1 DEF TreeInv, ChildrenArePinned, LeafFirst, Sound, Unlisted, Pinning, Collecting,
                Killing, Auth!Alive
  <2> QED BY <2>2, <2>3, <2>4, <2>5, <2>6 DEF TreeInv
<1> QED BY <1>1, <1>2, <1>3, <1>4, <1>5, <1>6, <1>7, <1>8, <1>9, <1>10, <1>11, <1>12, <1>13,
           <1>14, <1>15 DEF Auth!Next

\* What the invariant says of a cancelled action.
LEMMA TreeIsEnded == TreeInv => Auth!KillsOnlyTheTree /\ Auth!CancelledMeansGone
  /\ Auth!LeaderIsReaped
<1> SUFFICES ASSUME TreeInv PROVE Auth!KillsOnlyTheTree /\ Auth!CancelledMeansGone
                    /\ Auth!LeaderIsReaped
  OBVIOUS
<1>1. Auth!KillsOnlyTheTree /\ Auth!LeaderIsReaped
  BY DEF TreeInv, LeaderKeepsPid, Auth!LeaderIsReaped
<1>2. Auth!CancelledMeansGone
  <2> SUFFICES ASSUME cleaner.result = "cancelled", ~continued,
                      NEW p \in Pids, Auth!Alive(p), proc[p].tree
               PROVE  ~proc[p].bereft /\ ~proc[p].stopping /\ proc[p].status = "run"
    BY DEF Auth!CancelledMeansGone
  <2>1. cleaner.at = "end" /\ ~cleaner.failed /\ cleaner.parents = <<>>
    BY DEF TreeInv, WhatIsLeft
  <2>2. Held = {} /\ Sound
    BY <2>1 DEF Held, Collecting, Pinning, PidsOf, Sound
  <2> QED BY <2>2 DEF TreeInv, NothingIsLeftStopped
<1> QED BY <1>1, <1>2

\* The cleanup of a cancelled action ends the tree of the command or reports a failure, and
\* reaches nothing else unless job control has set the tree going.
THEOREM TreeSafety == Auth!Spec => [](Auth!KillsOnlyTheTree /\ Auth!CancelledMeansGone
  /\ Auth!LeaderIsReaped)
<1>1. Auth!Init => TreeInv
  BY TreeInit
<1>2. TreeInv /\ [Auth!Next]_(Auth!vars) => TreeInv'
  BY TreeStep
<1> QED BY <1>1, <1>2, TreeIsEnded, PTL DEF Auth!Spec
=============================================================================
