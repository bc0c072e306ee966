---------------------------- MODULE ProcessGroup ----------------------------
(* The Claude CLI as a process group (ClaudeChild, claude/process.rs): its   *)
(* leader forks and exits as it likes, and every way a turn ends has to end  *)
(* the whole group.  The group's id is that of the leader, and may belong to *)
(* somebody else once the leader is reaped and the group is empty.           *)
EXTENDS Integers

CONSTANTS MaxMembers,   \* bounds the processes of the group beside the leader
          MaxFaults     \* bounds the system calls that fail

VARIABLES leader,      \* "none", "run", "zombie" or "reaped"
          members,     \* how many others of the group are alive
          reused,      \* the group's id belongs to a stranger
          stderr,      \* the stderr task: "reading", "eof", "limit" or "error"
          cancelled,   \* the turn's cancellation token
          child,       \* where spawn, next_event, interrupt and finish are
          stranger,    \* a stranger's group was signalled
          faults

vars == <<leader, members, reused, stderr, cancelled, child, stranger, faults>>
group == <<leader, members, reused>>

Live == leader = "run" \/ members > 0
Fails == faults < MaxFaults /\ faults' = faults + 1
Ended == child.at = "end"

(* at: what is next; error: what the call will return unless the cleanup     *)
(* fails; mode: CleanupMode; unsignalled, undrained, unreaped: the failures  *)
(* of the three parts of cleanup_child.                                      *)
Init ==
  /\ leader = "none" /\ members = 0 /\ reused = FALSE
  /\ stderr = "reading" /\ cancelled = FALSE /\ stranger = FALSE /\ faults = 0
  /\ child = [at |-> "spawn", error |-> "none", mode |-> "none", unsignalled |-> FALSE,
              undrained |-> "none", result |-> "none"]
-----------------------------------------------------------------------------
(* The CLI and whoever it starts.                                            *)
Fork ==
  /\ Live /\ members < MaxMembers
  /\ members' = members + 1
  /\ UNCHANGED <<leader, reused, stderr, cancelled, child, stranger, faults>>

MemberExits ==
  /\ members > 0 /\ members' = members - 1
  /\ UNCHANGED <<leader, reused, stderr, cancelled, child, stranger, faults>>

LeaderExits ==
  /\ leader = "run" /\ leader' = "zombie"
  /\ UNCHANGED <<members, reused, stderr, cancelled, child, stranger, faults>>

\* The stderr task reads the end, or more than its limit, or cannot read.
StderrEnds ==
  /\ leader # "none" /\ stderr = "reading" /\ stderr' \in {"eof", "limit", "error"}
  /\ UNCHANGED <<group, cancelled, child, stranger, faults>>

Reused ==
  /\ leader = "reaped" /\ members = 0 /\ ~reused
  /\ reused' = TRUE
  /\ UNCHANGED <<leader, members, stderr, cancelled, child, stranger, faults>>

Cancel ==
  /\ ~cancelled /\ cancelled' = TRUE
  /\ UNCHANGED <<group, stderr, child, stranger, faults>>
-----------------------------------------------------------------------------
(* ClaudeChild.                                                              *)
Returns(result) == child' = [child EXCEPT !.at = "end", !.result = result]
Gracefully(error) ==
  child' = [child EXCEPT !.at = "SIGINT", !.error = error, !.mode = "graceful"]
Only(what) == UNCHANGED <<cancelled, stderr>> /\ UNCHANGED what

\* A prompt that is empty or too long, a cancelled token and a failed exec
\* return before there is a process.
Spawn ==
  /\ child.at = "spawn"
  /\ \/ Returns("Stdin") /\ UNCHANGED group
     \/ cancelled /\ Returns("Interrupted") /\ UNCHANGED group
     \/ ~cancelled /\ Returns("Spawn") /\ UNCHANGED group
     \/ /\ ~cancelled
        /\ leader' = "run" /\ child' = [child EXCEPT !.at = "stdin"]
        /\ UNCHANGED <<members, reused>>
  /\ Only(<<stranger, faults>>)

\* The prompt is delivered, unless the turn is cancelled (which comes first),
\* the pipe is closed or the write takes too long.
WritePrompt ==
  /\ child.at = "stdin"
  /\ \/ cancelled /\ Gracefully("InterruptedAfterSpawn")
     \/ ~cancelled /\ Gracefully("Stdin")
     \/ ~cancelled /\ child' = [child EXCEPT !.at = "stream"]
  /\ Only(<<group, stranger, faults>>)

\* next_event: the stream ends, by its end or an error, or the turn's task
\* interrupts the child, for a cancellation or a failure of its own.
StreamEnds ==
  /\ child.at = "stream"
  /\ \/ child' = [child EXCEPT !.at = "exit"]
     \/ Gracefully("none")
     \/ stderr = "limit" /\ Gracefully("StderrLimit")
  /\ Only(<<group, stranger, faults>>)

\* Mutant: the exit is seen by collecting it.
SeenByReaping == leader' = "reaped"

\* leader_exit_ready: the leader's exit is seen (WNOWAIT) and not collected, so
\* that the group's id stays its own.
SeenExit == UNCHANGED leader

\* finish, after the end of the output: wait for the leader's exit.
ObserveExit ==
  /\ child.at = "exit"
  /\ \/ cancelled /\ Gracefully("Interrupted") /\ UNCHANGED <<leader, faults>>
     \/ /\ ~cancelled /\ leader = "zombie" /\ SeenExit
        /\ child' = [child EXCEPT !.at = "SIGKILL", !.mode = "exited"]
        /\ UNCHANGED faults
     \/ /\ ~cancelled /\ Fails
        /\ child' = [child EXCEPT !.at = "join", !.mode = "uncertain", !.error = "Reap"]
        /\ UNCHANGED leader
     \/ /\ ~cancelled /\ leader # "zombie"           \* not in FINAL_EXIT_TIMEOUT
        /\ Gracefully("Reap") /\ UNCHANGED <<leader, faults>>
  /\ Only(<<members, reused, stranger>>)

\* Mutant: what SIGTERM has reached is taken to end.
FollowingPolite(signal) == IF signal = "SIGINT" THEN "SIGTERM" ELSE "join"
Following(signal) ==
  CASE signal = "SIGINT" -> "SIGTERM" [] signal = "SIGTERM" -> "SIGKILL" [] OTHER -> "join"

\* What a signal to the group does: the first two leave alive what ignores
\* them.  A group of one zombie cannot be signalled, which is no failure.
Signalled(signal) ==
  /\ stranger' = (stranger \/ reused)
  /\ IF signal = "SIGKILL" THEN members' = 0 ELSE members' \in 0 .. members
  /\ IF leader # "run" THEN leader' = leader
     ELSE leader' \in IF signal = "SIGKILL" THEN {"zombie"} ELSE {"run", "zombie"}

Signal(signal) ==
  /\ child.at = signal
  /\ \/ /\ Signalled(signal)
        /\ child' = [child EXCEPT !.at = Following(signal)] /\ UNCHANGED faults
     \/ /\ Fails
        /\ child' = [child EXCEPT !.at = Following(signal), !.unsignalled = TRUE]
        /\ UNCHANGED <<leader, members, stranger>>
  /\ Only(reused)

\* join_stderr_task: what the task says, or that it does not end in time (a
\* process that has left the group may hold the pipe), or, in finish only, the
\* cancellation.
JoinStderr ==
  /\ child.at = "join"
  /\ \E said \in {"none", "StderrLimit", "Stdout", "Reap", "Interrupted"} :
       /\ said = "none" => stderr = "eof"
       /\ said = "StderrLimit" => stderr = "limit"
       /\ said = "Stdout" => stderr = "error"
       /\ said = "Interrupted" => cancelled /\ child.mode = "exited"
       /\ cancelled /\ child.mode = "exited" => said = "Interrupted"
       /\ child' = [child EXCEPT !.at = "reap", !.undrained = said]
  /\ Only(<<group, stranger, faults>>)

\* What cleanup_child, and then its caller, return.
Outcome(unreaped, exit) ==
  CASE child.unsignalled -> "Reap"
    [] ~child.unsignalled /\ child.undrained # "none" -> child.undrained
    [] ~child.unsignalled /\ child.undrained = "none" /\ unreaped -> "Reap"
    [] OTHER -> IF child.mode = "exited" THEN exit ELSE child.error

\* reap_leader, from where on the group is not signalled; a leader that does
\* not end in time is killed with its handle (kill_on_drop).
Reap ==
  /\ child.at = "reap"
  /\ \/ /\ leader = "zombie" /\ leader' = "reaped"
        /\ \E exit \in {"none", "NonZeroExit"} : Returns(Outcome(FALSE, exit))
     \/ /\ leader' = (IF leader = "run" THEN "zombie" ELSE leader)
        /\ Returns(Outcome(TRUE, "none"))
  /\ Only(<<members, reused, stranger, faults>>)

\* The runtime reaps the child whose handle was dropped.
OrphanReaped ==
  /\ Ended /\ leader = "zombie" /\ leader' = "reaped"
  /\ UNCHANGED <<members, reused, stderr, cancelled, child, stranger, faults>>

Next ==
  \/ Fork \/ MemberExits \/ LeaderExits \/ StderrEnds \/ Reused \/ Cancel
  \/ Spawn \/ WritePrompt \/ StreamEnds \/ ObserveExit
  \/ \E signal \in {"SIGINT", "SIGTERM", "SIGKILL"} : Signal(signal)
  \/ JoinStderr \/ Reap \/ OrphanReaped

Spec == Init /\ [][Next]_vars
-----------------------------------------------------------------------------
(* Properties.                                                               *)

\* A group that is not the child's own is never signalled, although its id is
\* used again as soon as the leader is reaped and the group is empty.
SignalsOnlyItsGroup == ~stranger

\* However a turn ends, with a leader that exits before the others or a group
\* that ignores SIGINT and SIGTERM: nothing of the group is alive afterwards,
\* unless the call says that it could not be reaped, or the leader's exit could
\* not be observed (and then nothing is signalled).
GroupEnds ==
  Ended /\ child.result # "Reap" /\ child.mode # "uncertain" => ~Live

\* Both: the group is ended, and no other is touched.
GroupIsEnded == SignalsOnlyItsGroup /\ GroupEnds
=============================================================================
