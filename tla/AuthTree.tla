------------------------------ MODULE AuthTree ------------------------------
(* The native `claude auth` command and what becomes of its processes when   *)
(* the user cancels it (claude/process.rs).  The command shares the          *)
(* terminal's process group, so that no signal to a group can end it: the    *)
(* cleanup stops the leader, then its children, then theirs, keeps the       *)
(* identity of each, and kills them leaf first.  Meanwhile what is not yet   *)
(* stopped goes on forking and exiting, and pids are used again.             *)
EXTENDS Integers, Sequences, FiniteSets, SequencesExt

CONSTANTS Pids,        \* the pids the kernel hands out
          Leader,      \* the pid of the command
          Limit,       \* MAX_AUTH_DESCENDANTS
          MaxStarts,   \* bounds the processes ever started
          MaxFaults    \* bounds the inspections that fail

VARIABLES proc,        \* the kernel's processes, by pid
          starts,      \* how many were started: the start time of the next
          cleaner,     \* run_claude_auth_action
          continued,   \* job control has continued the tree during the cleanup
          victims,     \* the strangers that a SIGKILL of Vaire reached, as identified
          faults

vars == <<proc, starts, cleaner, continued, victims, faults>>

Vaire == "vaire"
Launchd == "launchd"

(* A process is an instance on a pid.  tree: it descends from the command.   *)
(* bereft: Vaire's SIGKILL ended its parent while it was alive.              *)
Free == [status |-> "none", stopping |-> FALSE, parent |-> Launchd, start |-> 0,
         tree |-> FALSE, bereft |-> FALSE]
Alive(p) == proc[p].status \in {"run", "stopped"}
Newborn(parent, status, tree) ==
  [Free EXCEPT !.status = status, !.parent = parent, !.start = starts, !.tree = tree]

(* AuthProcessIdentity.  An inspection does not tell a zombie from nothing,  *)
(* or shows it as SZOMB; it can also fail.                                   *)
Identity(p) == [pid |-> p, parent |-> proc[p].parent, start |-> proc[p].start]
SameInstance(p, identity) == proc[p].start = identity.start
CannotInspect == faults < MaxFaults /\ faults' = faults + 1
-----------------------------------------------------------------------------
(* The kernel and the command.                                               *)

\* p ends.  launchd reaps its own at once and adopts the children of p.
Ended(p, killedByVaire) ==
  [q \in Pids |->
     IF q = p
     THEN IF proc[p].parent = Launchd THEN Free
          ELSE [proc[p] EXCEPT !.status = "zombie", !.stopping = FALSE]
     ELSE IF proc[q].status = "none" \/ proc[q].parent # p THEN proc[q]
     ELSE IF proc[q].status = "zombie" THEN Free
     ELSE [proc[q] EXCEPT !.parent = Launchd, !.bereft = killedByVaire]]

\* The kernel does not hand a pid out again between two adjacent system calls.
FreePid(q) == /\ proc[q].status = "none" /\ starts < MaxStarts
              /\ cleaner.at # "kill"

Fork(p) ==
  /\ proc[p].status = "run"
  /\ \E q \in Pids :
       /\ FreePid(q)
       /\ proc' = [proc EXCEPT ![q] = Newborn(p, "run", proc[p].tree)]
  /\ starts' = starts + 1
  /\ UNCHANGED <<cleaner, continued, victims, faults>>

\* Somebody else's process takes a free pid.
Stranger(q) ==
  /\ FreePid(q)
  /\ \E status \in {"run", "stopped"} :
       proc' = [proc EXCEPT ![q] = Newborn(Launchd, status, FALSE)]
  /\ starts' = starts + 1
  /\ UNCHANGED <<cleaner, continued, victims, faults>>

Exit(p) ==
  /\ proc[p].status = "run" /\ proc[p].tree
  /\ proc' = Ended(p, FALSE)
  /\ UNCHANGED <<starts, cleaner, continued, victims, faults>>

ParentReaps(p) ==
  /\ proc[p].status = "zombie" /\ proc[p].parent \in Pids
  /\ proc[proc[p].parent].status = "run"
  /\ proc' = [proc EXCEPT ![p] = Free]
  /\ UNCHANGED <<starts, cleaner, continued, victims, faults>>

\* A SIGSTOP takes effect.
Stops(p) ==
  /\ proc[p].status = "run" /\ proc[p].stopping
  /\ proc' = [proc EXCEPT ![p].status = "stopped", ![p].stopping = FALSE]
  /\ UNCHANGED <<starts, cleaner, continued, victims, faults>>

Continued(ps) ==
  [p \in Pids |-> IF p \in ps /\ Alive(p)
                  THEN [proc[p] EXCEPT !.status = "run", !.stopping = FALSE]
                  ELSE proc[p]]

\* The shell's `fg` continues the whole foreground group.
JobControl ==
  /\ ~continued /\ cleaner.at \notin {"wait", "end"}
  /\ proc' = Continued({p \in Pids : proc[p].tree})
  /\ continued' = TRUE
  /\ UNCHANGED <<starts, cleaner, victims, faults>>
-----------------------------------------------------------------------------
(* run_claude_auth_action and the cleanup.  at: what it does next; pin: the   *)
(* process being pinned; parents: stopped, and their children not yet looked *)
(* for; todo: the children of one parent still to be pinned; siblings: those *)
(* already pinned; pinned: all of them, the leader first; failed:            *)
(* cleanup_failed.                                                           *)

Init ==
  /\ proc = [p \in Pids |-> IF p = Leader
                            THEN [Free EXCEPT !.status = "run", !.parent = Vaire,
                                              !.tree = TRUE]
                            ELSE Free]
  /\ cleaner = [at |-> "wait", pin |-> [pid |-> Leader, parent |-> Vaire, start |-> 0],
                parents |-> <<>>, todo |-> {}, siblings |-> <<>>, pinned |-> <<>>,
                failed |-> FALSE, result |-> "none"]
  /\ starts = 1 /\ continued = FALSE /\ victims = {} /\ faults = 0

Only(what) == UNCHANGED <<starts, continued>> /\ UNCHANGED what

\* The command ends by itself and is reaped.
Waits ==
  /\ cleaner.at = "wait" /\ proc[Leader].status = "zombie"
  /\ proc' = [proc EXCEPT ![Leader] = Free]
  /\ \E result \in {"ok", "failed"} :
       cleaner' = [cleaner EXCEPT !.at = "end", !.result = result]
  /\ Only(<<victims, faults>>)

\* The user cancels, and the leader is the first to be pinned.
Cancel ==
  /\ cleaner.at = "wait"
  /\ cleaner' = [cleaner EXCEPT !.at = "inspect"]
  /\ Only(<<proc, victims, faults>>)

\* The leader becomes the first parent; a child joins its siblings.
IsLeader(c) == c.pin.parent = Vaire
Pinned(c, identity) ==
  LET found == [c EXCEPT !.pinned = Append(@, identity)] IN
  IF IsLeader(c) THEN [found EXCEPT !.at = "list", !.parents = <<identity>>]
  ELSE [found EXCEPT !.at = "next", !.siblings = Append(@, identity)]

\* Nothing there, or an error: without its leader the tree is not looked at.
NotPinned(c) ==
  [c EXCEPT !.at = IF IsLeader(c) THEN "leader" ELSE "next", !.failed = TRUE]

\* stop_and_pin_auth_process: the inspection before the signal, unless the
\* deadline has passed.
Inspect ==
  LET p == cleaner.pin.pid IN
  /\ cleaner.at = "inspect"
  /\ \/ cleaner' = NotPinned(cleaner) /\ UNCHANGED faults
     \/ cleaner' = NotPinned(cleaner) /\ CannotInspect
     \/ /\ cleaner' = IF ~Alive(p) \/ proc[p].parent # cleaner.pin.parent
                      THEN NotPinned(cleaner)
                      ELSE IF proc[p].status = "stopped"
                      THEN Pinned(cleaner, Identity(p))
                      ELSE [cleaner EXCEPT !.at = "stop", !.pin = Identity(p)]
        /\ UNCHANGED faults
  /\ Only(<<proc, victims>>)

SendStop ==
  LET p == cleaner.pin.pid IN
  /\ cleaner.at = "stop"
  /\ cleaner' = IF proc[p].status = "none" THEN NotPinned(cleaner)
                ELSE [cleaner EXCEPT !.at = "await"]
  /\ proc' = [proc EXCEPT ![p].stopping = proc[p].status = "run"]
  /\ Only(<<victims, faults>>)

\* Inspected again until it is stopped.  Past the deadline it is continued only
\* if it is stopped by then: a stop still under way is not taken back.
AwaitStop ==
  LET p    == cleaner.pin.pid
      Same == SameInstance(p, cleaner.pin) /\ proc[p].parent = cleaner.pin.parent
  IN
  /\ cleaner.at = "await"
  /\ \/ /\ CannotInspect
        /\ cleaner' = NotPinned(cleaner) /\ proc' = Continued({p})
     \/ /\ ~Alive(p)
        /\ cleaner' = NotPinned(cleaner) /\ UNCHANGED <<proc, faults>>
     \/ /\ Alive(p) /\ ~Same
        /\ cleaner' = NotPinned(cleaner)
        /\ proc' = IF proc[p].status = "stopped" THEN Continued({p}) ELSE proc
        /\ UNCHANGED faults
     \/ /\ proc[p].status = "stopped" /\ Same
        /\ cleaner' = Pinned(cleaner, Identity(p)) /\ UNCHANGED <<proc, faults>>
     \/ /\ proc[p].status = "run" /\ Same
        /\ cleaner' = NotPinned(cleaner) /\ proc' \in {proc, Continued({p})}
        /\ UNCHANGED faults
  /\ Only(victims)

\* list_stopped_auth_children lists between two inspections that find the
\* parent stopped: the list is that of one moment.  Zombies may be listed.
StillStopped(identity) ==
  proc[identity.pid].status = "stopped" /\ Identity(identity.pid) = identity
ChildrenOf(p) == {q \in Pids : proc[q].status # "none" /\ proc[q].parent = p}
Allowance == IF Limit >= Len(cleaner.pinned) THEN Limit + 1 - Len(cleaner.pinned) ELSE 0
Smaller(a, b) == IF a < b THEN a ELSE b
Listings(p) == {ChildrenOf(p), {q \in ChildrenOf(p) : Alive(q)}}

\* Mutant: the sentinel beyond the allowance is taken for a child that fits.
OverflowsLate(listing) == Cardinality(listing) > Allowance + 1
Overflows(listing) == Cardinality(listing) > Allowance

ListChildren ==
  LET parent == Head(cleaner.parents)
      rest   == [cleaner EXCEPT !.parents = Tail(@), !.at = "next"]
  IN
  /\ cleaner.at = "list" /\ cleaner.parents # <<>>
  /\ \/ cleaner' = [rest EXCEPT !.failed = TRUE] /\ CannotInspect
     \/ /\ ~StillStopped(parent)
        /\ cleaner' = [rest EXCEPT !.failed = TRUE] /\ UNCHANGED faults
     \/ /\ StillStopped(parent)
        /\ \E listing \in Listings(parent.pid) : \E kept \in SUBSET listing :
             /\ Cardinality(kept) = Smaller(Allowance, Cardinality(listing))
             /\ cleaner' = [rest EXCEPT !.todo = kept, !.pin.parent = parent.pid,
                                        !.failed = @ \/ Overflows(listing)]
        /\ UNCHANGED faults
  /\ Only(<<proc, victims>>)

\* The next child of the list; one whose pid was pinned before is skipped.
NextChild ==
  /\ cleaner.at = "next"
  /\ \E p \in cleaner.todo :
       LET c == [cleaner EXCEPT !.todo = @ \ {p}] IN
       cleaner' = IF \E identity \in Range(cleaner.pinned) : identity.pid = p
                  THEN [c EXCEPT !.failed = TRUE]
                  ELSE [c EXCEPT !.at = "inspect", !.pin.pid = p]
  /\ Only(<<proc, victims, faults>>)

\* All siblings are stopped, and only then are their children looked for.
SiblingsDone ==
  /\ cleaner.at = "next" /\ cleaner.todo = {}
  /\ cleaner' = [cleaner EXCEPT !.parents = @ \o cleaner.siblings, !.siblings = <<>>,
                                !.at = "list"]
  /\ Only(<<proc, victims, faults>>)

\* No parent is left, or the deadline has passed before one or a child of one.
\* "parents" now holds what is to be killed, leaf first and the leader last.
CollectingEnds ==
  /\ cleaner.at = "list" \/ (cleaner.at = "next" /\ cleaner.todo # {})
  /\ cleaner' = [cleaner EXCEPT !.at = "check", !.todo = {}, !.siblings = <<>>,
                                !.parents = Reverse(cleaner.pinned),
                                !.failed = @ \/ cleaner.parents # <<>> \/ cleaner.todo # {}]
  /\ Only(<<proc, victims, faults>>)

\* kill_pinned_auth_process: only what is still the pinned instance, stopped,
\* is killed.  What has vanished counts as killed.
Killed(c) == [c EXCEPT !.parents = Tail(@), !.at = "check"]
NotKilled(c) == [Killed(c) EXCEPT !.failed = TRUE]

\* Mutant: only the pid is compared.
MayKillPid(identity) == proc[identity.pid].status = "stopped"
MayKill(identity) == StillStopped(identity)

CheckBeforeKill ==
  LET identity == Head(cleaner.parents)
      p        == identity.pid
  IN
  /\ cleaner.at = "check" /\ cleaner.parents # <<>>
  /\ \/ cleaner' = NotKilled(cleaner) /\ CannotInspect /\ UNCHANGED proc
     \/ /\ ~Alive(p)
        /\ cleaner' = Killed(cleaner)
        /\ UNCHANGED <<proc, faults>>
     \/ /\ proc[p].status # "none" /\ ~MayKill(identity)
        /\ cleaner' = NotKilled(cleaner)
        /\ proc' = IF proc[p].status = "stopped" /\ SameInstance(p, identity)
                   THEN Continued({p}) ELSE proc
        /\ UNCHANGED faults
     \/ /\ MayKill(identity)
        /\ cleaner' = [cleaner EXCEPT !.at = "kill"] /\ UNCHANGED <<proc, faults>>
  /\ Only(victims)

Kill ==
  LET p == Head(cleaner.parents).pid IN
  /\ cleaner.at = "kill"
  /\ proc' = IF Alive(p) THEN Ended(p, TRUE) ELSE proc
  /\ victims' = IF Alive(p) /\ ~proc[p].tree THEN victims \cup {Head(cleaner.parents)} ELSE victims
  /\ cleaner' = Killed(cleaner)
  /\ Only(faults)

\* start_kill when anything has failed.  The leader is not reaped yet, so that
\* its pid is its own.
KillLeader ==
  /\ \/ cleaner.at = "leader"
     \/ cleaner.at = "check" /\ cleaner.parents = <<>>
  /\ proc' = IF cleaner.failed /\ Alive(Leader) THEN Ended(Leader, TRUE) ELSE proc
  /\ victims' = IF cleaner.failed /\ Alive(Leader) /\ ~proc[Leader].tree
                THEN victims \cup {Identity(Leader)} ELSE victims
  /\ cleaner' = [cleaner EXCEPT !.at = "reap"]
  /\ Only(faults)

\* reap_auth_child, in time or not.
Reap ==
  /\ cleaner.at = "reap" /\ proc[Leader].status = "zombie"
  /\ proc' = [proc EXCEPT ![Leader] = Free]
  /\ \E late \in BOOLEAN :
       cleaner' = [cleaner EXCEPT !.at = "end", !.result = IF cleaner.failed \/ late
                                                           THEN "failed" ELSE "cancelled"]
  /\ Only(<<victims, faults>>)

Next ==
  \/ \E p \in Pids : Fork(p) \/ Stranger(p) \/ Exit(p) \/ ParentReaps(p) \/ Stops(p)
  \/ JobControl
  \/ Waits \/ Cancel \/ Inspect \/ SendStop \/ AwaitStop
  \/ ListChildren \/ NextChild \/ SiblingsDone \/ CollectingEnds
  \/ CheckBeforeKill \/ Kill \/ KillLeader \/ Reap

Spec == Init /\ [][Next]_vars
-----------------------------------------------------------------------------
(* Properties.                                                               *)

\* However pids are used again: SIGKILL reaches descendants of the command only.
\* Once job control has set stopped processes going, a pinned parent can exit and
\* its pid be a stranger's by the time its children are pinned, which are known by
\* the pid of their parent (stop_and_pin_auth_process): what is killed in place of
\* a descendant is then such a child, never in place of the command or its children.
KillsOnlyTheTree == \A v \in victims : continued /\ v.parent \notin {Vaire, Leader}

\* When the cleanup reports success nothing is left that its kills have taken
\* the parent from, and nothing it has stopped: with a descendant it did not
\* get at, or more of them than the limit, it reports a failure.  What a parent
\* has left behind by its own exit is out of reach.
CancelledMeansGone ==
  cleaner.result = "cancelled" /\ ~continued =>
    \A p \in Pids : Alive(p) /\ proc[p].tree =>
      ~proc[p].bereft /\ ~proc[p].stopping /\ proc[p].status = "run"

\* The action never returns with its leader unreaped.
LeaderIsReaped ==
  cleaner.at = "end" => proc[Leader].status = "none" \/ proc[Leader].start > 0
=============================================================================
