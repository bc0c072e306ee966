--------------------------- MODULE ClaudeService ---------------------------
(***************************************************************************)
(* The Claude turn service (src/src/claude/service.rs) together with the   *)
(* session store it writes through (src/src/claude/store.rs).              *)
(*                                                                         *)
(* Three parties run concurrently: the coordinator, which calls the        *)
(* service and is the only reader of its event queue; the task spawned for *)
(* the running turn (run_turn); and the Claude child process.  The store   *)
(* is a file per session: a save renames a new file over the old one and   *)
(* then syncs the directory, so a save can be verified, visible but not    *)
(* known to survive a power loss, or failed.                               *)
(***************************************************************************)
EXTENDS Naturals, Sequences

CONSTANTS
  Sessions,       \* session ids (ClaudeSessionId)
  NoSession,      \* the absence of one
  MaxTurns,       \* turn ids the model hands out: bounds the behaviours
  QueueCapacity,  \* EVENT_QUEUE_CAPACITY
  MaxDeltas       \* text deltas a child may stream: bounds the behaviours

ASSUME SessionsAssumption == NoSession \notin Sessions
ASSUME BoundsAssumption == /\ MaxTurns \in Nat
                           /\ QueueCapacity \in Nat \ {0}
                           /\ MaxDeltas \in Nat

Turns == 1..MaxTurns
NoTurn == 0

Lifecycles == {"Absent", "Fresh", "CreationPending", "Established",
               "CreationUncertain"}
Outcomes == {"InProgress", "Completed", "Interrupted", "Failed"}

\* How a save ends.  Unverified: renamed into place, but the directory sync
\* failed (CommittedUnverified, or Write when the read-back failed as well).
CommitStatuses == {"verified", "unverified", "failed"}

SessionRecord == [lifecycle : Lifecycles,
                  turns : [Turns -> Outcomes \cup {"None"}]]

AbsentRecord == [lifecycle |-> "Absent", turns |-> [t \in Turns |-> "None"]]
FreshRecord == [AbsentRecord EXCEPT !.lifecycle = "Fresh"]

ServiceEvent == [kind : {"TurnStarted", "Initialized", "TextDelta", "TurnFinished"},
                 session : Sessions,
                 turn : Turns,
                 outcome : Outcomes,
                 uncertain : BOOLEAN]

VARIABLES
  disk,         \* what a read of each session file returns
  durable,      \* the contents of it a power loss may leave behind
  registered,   \* session ids ever created (UUIDs are not reused)
  nextTurn,     \* the next turn id
  prepared,     \* the PreparedClaudeTurn the coordinator holds
  coord,        \* the service call the coordinator is inside of
  task,         \* the turn task and its locals; "none" is service.active = None
  events,       \* the bounded event channel
  shuttingDown, \* service.shutting_down
  creations,    \* history: children spawned with --session-id, per session
  stream        \* history: the turn the sent events have open, and the last one

storeVars == <<disk, durable, registered>>
vars == <<disk, durable, registered, nextTurn, prepared, coord, task, events,
          shuttingDown, creations, stream>>

-----------------------------------------------------------------------------
(* The session store.                                                      *)

\* What a read returns once a save of `new` over `old` ended with `status`.
Visible(old, new, status) == IF status = "failed" THEN old ELSE new

\* What a power loss may leave once a save of `new` ended with `status`.
Survivors(old, new, status) ==
  CASE status = "verified"   -> {new}
    [] status = "unverified" -> old \cup {new}
    [] status = "failed"     -> old

Save(s, new, status) ==
  /\ disk' = [disk EXCEPT ![s] = Visible(@, new, status)]
  /\ durable' = [durable EXCEPT ![s] = Survivors(@, new, status)]

\* Mutant: an interrupted or failed turn of any session makes it uncertain.
SettledAlwaysDoubts(r, t, outcome, attempted) ==
  [lifecycle |-> IF attempted /\ outcome # "Completed" THEN "CreationUncertain"
                 ELSE IF r.lifecycle = "CreationPending" THEN "Fresh"
                 ELSE r.lifecycle,
   turns |-> [r.turns EXCEPT ![t] = outcome]]

\* Mutant: settling forgets that creation was attempted.
SettledForgetsAttempt(r, t, outcome, attempted) ==
  [lifecycle |-> IF r.lifecycle = "CreationPending" THEN "Fresh" ELSE r.lifecycle,
   turns |-> [r.turns EXCEPT ![t] = outcome]]

\* settle_record's edit of the session it has loaded.
Settled(r, t, outcome, attempted) ==
  [lifecycle |-> IF r.lifecycle = "CreationPending"
                 THEN IF attempted THEN "CreationUncertain" ELSE "Fresh"
                 ELSE r.lifecycle,
   turns |-> [r.turns EXCEPT ![t] = outcome]]

\* settle_record finds its turn: a deleted session, or a turn whose preparation
\* was never saved, is an error that writes nothing.
Recorded(r, t) == r.turns[t] # "None"

\* settle_record by the coordinator, alone with the store at that moment.
SettleAlone(s, t, status) ==
  IF Recorded(disk[s], t)
  THEN Save(s, Settled(disk[s], t, "Interrupted", FALSE), status)
  ELSE UNCHANGED <<disk, durable>>

\* Mutant: the repair drops the live turn instead of marking it interrupted.
RepairedDropsTurn(r) ==
  [lifecycle |-> IF r.lifecycle = "CreationPending" THEN "CreationUncertain"
                 ELSE r.lifecycle,
   turns |-> [t \in Turns |-> IF r.turns[t] = "InProgress" THEN "None" ELSE r.turns[t]]]

\* load_session's repair of what a prior process left live.
Repaired(r) ==
  [lifecycle |-> IF r.lifecycle = "CreationPending" THEN "CreationUncertain"
                 ELSE r.lifecycle,
   turns |-> [t \in Turns |-> IF r.turns[t] = "InProgress" THEN "Interrupted"
                              ELSE r.turns[t]]]

-----------------------------------------------------------------------------
(* The turn task's locals.                                                 *)

NoPlan == [outcome |-> "Interrupted", attempted |-> FALSE, fallback |-> FALSE,
           sticky |-> FALSE, failed |-> FALSE]

NoReport == [outcome |-> "InProgress", uncertain |-> FALSE]

NoPrepared == [turn |-> NoTurn, session |-> NoSession, new |-> FALSE,
               recovering |-> FALSE, verified |-> FALSE]

NoTask == [pc |-> "none", turn |-> NoTurn, session |-> NoSession, new |-> FALSE,
           recovering |-> FALSE, cancelled |-> FALSE, established |-> FALSE,
           terminal |-> "none", deltas |-> 0, copy |-> AbsentRecord,
           plan |-> NoPlan, report |-> NoReport]

TaskOf(p) == [NoTask EXCEPT !.pc = "start", !.turn = p.turn, !.session = p.session,
                            !.new = p.new, !.recovering = p.recovering]

TaskRunning == task.pc \notin {"none", "done"}

\* creation_requires_establishment && !creation_established
Unestablished == (task.new \/ task.recovering) /\ ~task.established

Event(kind, s, t, outcome, uncertain) ==
  [kind |-> kind, session |-> s, turn |-> t, outcome |-> outcome,
   uncertain |-> uncertain]

Progress(kind) == Event(kind, task.session, task.turn, "InProgress", FALSE)

\* Mutant: an unbounded channel.
SendUnbounded(e) == events' = Append(events, e)

\* A send on the bounded channel waits until there is room.
Send(e) == /\ Len(events) < QueueCapacity
           /\ events' = Append(events, e)

Init ==
  /\ disk = [s \in Sessions |-> AbsentRecord]
  /\ durable = [s \in Sessions |-> {AbsentRecord}]
  /\ registered = {}
  /\ nextTurn = 1
  /\ prepared = NoPrepared
  /\ coord = "idle"
  /\ task = NoTask
  /\ events = <<>>
  /\ shuttingDown = FALSE
  /\ creations = [s \in Sessions |-> 0]
  /\ stream = [open |-> NoTurn, last |-> NoTurn]

-----------------------------------------------------------------------------
(* Calls of the coordinator.                                               *)

CreateSession(s, status) ==
  /\ coord = "idle" /\ prepared = NoPrepared
  /\ s \notin registered
  /\ registered' = registered \cup {s}
  /\ Save(s, FreshRecord, status)
  /\ UNCHANGED <<nextTurn, prepared, coord, task, events, shuttingDown,
                 creations, stream>>

\* The recovery read: it runs under the store's lock, so nothing comes between
\* its read and its write.
LoadSession(s, status) ==
  /\ coord = "idle" /\ prepared = NoPrepared
  /\ disk[s].lifecycle # "Absent"
  /\ Repaired(disk[s]) # disk[s]
  /\ Save(s, Repaired(disk[s]), status)
  /\ UNCHANGED <<registered, nextTurn, prepared, coord, task, events,
                 shuttingDown, creations, stream>>

\* Removal followed by a directory sync that may fail.
DeleteSession(s, synced) ==
  /\ coord = "idle" /\ prepared = NoPrepared
  /\ disk[s].lifecycle # "Absent"
  /\ Save(s, AbsentRecord, IF synced THEN "verified" ELSE "unverified")
  /\ UNCHANGED <<registered, nextTurn, prepared, coord, task, events,
                 shuttingDown, creations, stream>>

\* prepare_turn: reap a finished task, then record the turn as InProgress.  A
\* save that is not verified is rolled back, best effort; only a turn of an
\* uncertain session is still handed out, marked unverified.
PrepareTurn(s, commit, rollback) ==
  /\ coord = "idle" /\ prepared = NoPrepared /\ nextTurn \in Turns
  /\ ~shuttingDown /\ ~TaskRunning
  /\ disk[s].lifecycle \in {"Fresh", "Established", "CreationUncertain"}
  /\ LET was     == disk[s].lifecycle
         pushed  == [lifecycle |-> IF was = "Fresh" THEN "CreationPending" ELSE was,
                     turns |-> [disk[s].turns EXCEPT ![nextTurn] = "InProgress"]]
         undone  == [lifecycle |-> was,
                     turns |-> [disk[s].turns EXCEPT ![nextTurn] = "Interrupted"]]
         verified   == commit = "verified"
         recovering == was = "CreationUncertain"
     IN /\ IF verified
           THEN Save(s, pushed, "verified")
           ELSE /\ disk' = [disk EXCEPT ![s] =
                              Visible(Visible(@, pushed, commit), undone, rollback)]
                /\ durable' = [durable EXCEPT ![s] =
                              Survivors(Survivors(@, pushed, commit), undone, rollback)]
        /\ prepared' = IF verified \/ recovering
                       THEN [turn |-> nextTurn, session |-> s, new |-> was = "Fresh",
                             recovering |-> recovering, verified |-> verified]
                       ELSE NoPrepared
  /\ nextTurn' = nextTurn + 1
  /\ task' = NoTask
  /\ UNCHANGED <<registered, coord, events, shuttingDown, creations, stream>>

\* prepare_turn turned down: the session cannot be read, its creation is still
\* pending, the message is empty, or the service is shutting down.  A finished
\* task has been reaped all the same.
PrepareRefused ==
  /\ coord = "idle" /\ prepared = NoPrepared /\ task.pc = "done"
  /\ task' = NoTask
  /\ UNCHANGED <<storeVars, nextTurn, prepared, coord, events, shuttingDown,
                 creations, stream>>

\* launch_prepared_turn while shutting down abandons the turn.  The record is
\* settled unless it cannot be read back or written.
LaunchRefused(status) ==
  /\ coord = "idle" /\ prepared # NoPrepared /\ shuttingDown
  /\ SettleAlone(prepared.session, prepared.turn, status)
  /\ prepared' = NoPrepared
  /\ UNCHANGED <<registered, nextTurn, coord, task, events, shuttingDown,
                 creations, stream>>

LaunchTask ==
  /\ coord = "idle" /\ prepared # NoPrepared /\ ~shuttingDown
  /\ prepared.verified
  /\ task' = TaskOf(prepared)
  /\ prepared' = NoPrepared
  /\ UNCHANGED <<storeVars, nextTurn, coord, events, shuttingDown, creations, stream>>

\* finish_prepared_before_launch: no child is started; the coordinator itself,
\* which is also the queue's only reader, sends both events of the turn.
LaunchInline ==
  /\ coord = "idle" /\ prepared # NoPrepared /\ ~shuttingDown
  /\ ~prepared.verified
  /\ coord' = "inlineStart"
  /\ UNCHANGED <<storeVars, nextTurn, prepared, task, events, shuttingDown,
                 creations, stream>>

InlineStart ==
  /\ coord = "inlineStart"
  /\ Send(Event("TurnStarted", prepared.session, prepared.turn, "InProgress", FALSE))
  /\ stream' = [open |-> prepared.turn, last |-> prepared.turn]
  /\ coord' = "inlineSettle"
  /\ UNCHANGED <<storeVars, nextTurn, prepared, task, shuttingDown, creations>>

InlineSettle(status) ==
  /\ coord = "inlineSettle"
  /\ SettleAlone(prepared.session, prepared.turn, status)
  /\ coord' = "inlineFinish"
  /\ UNCHANGED <<registered, nextTurn, prepared, task, events, shuttingDown,
                 creations, stream>>

\* Only a recovering turn is launched inline, so creation_uncertain is TRUE
\* whatever the settlement returned.
InlineFinish ==
  /\ coord = "inlineFinish"
  /\ Send(Event("TurnFinished", prepared.session, prepared.turn, "Failed",
                prepared.recovering))
  /\ stream' = [stream EXCEPT !.open = NoTurn]
  /\ prepared' = NoPrepared
  /\ coord' = "idle"
  /\ UNCHANGED <<storeVars, nextTurn, task, shuttingDown, creations>>

NextEvent ==
  /\ coord = "idle" /\ events # <<>>
  /\ events' = Tail(events)
  /\ UNCHANGED <<storeVars, nextTurn, prepared, coord, task, shuttingDown,
                 creations, stream>>

InterruptTurn ==
  /\ coord = "idle" /\ task.pc # "none"
  /\ task' = [task EXCEPT !.cancelled = TRUE]
  /\ UNCHANGED <<storeVars, nextTurn, prepared, coord, events, shuttingDown,
                 creations, stream>>

\* interrupt_and_drain (logout) and shutdown, which also latches shutting_down.
BeginDrain(latch) ==
  /\ coord = "idle"
  /\ coord' = "draining"
  /\ shuttingDown' = (shuttingDown \/ latch)
  /\ task' = IF task.pc = "none" THEN task ELSE [task EXCEPT !.cancelled = TRUE]
  /\ UNCHANGED <<storeVars, nextTurn, prepared, events, creations, stream>>

\* Mutant: the drain awaits the task before it receives anything.
DrainReceiveLate ==
  /\ coord = "draining" /\ task.pc = "done" /\ events # <<>>
  /\ events' = Tail(events)
  /\ UNCHANGED <<storeVars, nextTurn, prepared, coord, task, shuttingDown,
                 creations, stream>>

\* The drain loop reads the queue while it waits for the task, which may be
\* blocked on a full queue.
DrainReceive ==
  /\ coord = "draining" /\ task.pc # "none" /\ events # <<>>
  /\ events' = Tail(events)
  /\ UNCHANGED <<storeVars, nextTurn, prepared, coord, task, shuttingDown,
                 creations, stream>>

DrainJoined ==
  /\ coord = "draining" /\ ~TaskRunning
  /\ events' = <<>>
  /\ task' = NoTask
  /\ coord' = "idle"
  /\ UNCHANGED <<storeVars, nextTurn, prepared, shuttingDown, creations, stream>>

-----------------------------------------------------------------------------
(* run_turn, the task of the running turn.                                 *)

TaskKeeps == UNCHANGED <<registered, nextTurn, prepared, coord, shuttingDown>>

StartTurn ==
  /\ task.pc = "start"
  /\ Send(Progress("TurnStarted"))
  /\ stream' = [open |-> task.turn, last |-> task.turn]
  /\ task' = [task EXCEPT !.pc = "spawn"]
  /\ TaskKeeps /\ UNCHANGED <<disk, durable, creations>>

\* ClaudeChild::spawn ran the child: with --session-id for a new session, with
\* --resume otherwise.
CountCreation ==
  creations' = IF task.new THEN [creations EXCEPT ![task.session] = @ + 1]
               ELSE creations

\* Leave the child for the settlement of the turn.  `sticky` is
\* settle_after_failure's reading of creation_uncertain_on_store_error.
Plan(outcome, attempted, fallback, sticky, failed) ==
  task' = [task EXCEPT !.pc = "settleLoad",
             !.plan = [outcome |-> outcome, attempted |-> attempted,
                       fallback |-> fallback, sticky |-> sticky, failed |-> failed]]

PlanFailure(attempted, fallback) == Plan("Failed", attempted, fallback, TRUE, FALSE)

PlanInterrupted(processFailed) ==
  Plan("Interrupted", TRUE, Unestablished, FALSE, processFailed)

Spawned ==
  /\ task.pc = "spawn" /\ ~task.cancelled
  /\ CountCreation
  /\ task' = [task EXCEPT !.pc = "running"]
  /\ TaskKeeps /\ UNCHANGED <<disk, durable, events, stream>>

\* Cancelled before the child ran (Interrupted), or while its prompt was being
\* written (InterruptedAfterSpawn).
SpawnCancelled(ran) ==
  /\ task.pc = "spawn" /\ task.cancelled
  /\ IF ran THEN CountCreation ELSE UNCHANGED creations
  /\ Plan("Interrupted", ran, task.recovering \/ (task.new /\ ran), FALSE, FALSE)
  /\ TaskKeeps /\ UNCHANGED <<disk, durable, events, stream>>

\* ClaudeProcessError::Spawn means nothing ran.  Every other error counts as an
\* attempt, the refusal of an oversized prompt included.
SpawnFailed(ran, attempted) ==
  /\ task.pc = "spawn"
  /\ ran => attempted
  /\ IF ran THEN CountCreation ELSE UNCHANGED creations
  /\ PlanFailure(attempted, task.recovering \/ (task.new /\ attempted))
  /\ TaskKeeps /\ UNCHANGED <<disk, durable, events, stream>>

\* What the child writes.  The stream parser lets one init line through, then
\* deltas, then one result line.
ChildInitialized ==
  /\ task.pc = "running" /\ ~task.established
  /\ task' = [task EXCEPT !.pc = "initLoad"]
  /\ TaskKeeps /\ UNCHANGED <<disk, durable, events, creations, stream>>

\* Mutant: the parser lets a delta through before the init line.
ChildDeltaEarly ==
  /\ task.pc = "running" /\ task.terminal = "none"
  /\ task.deltas < MaxDeltas
  /\ task' = [task EXCEPT !.pc = "sendDelta", !.deltas = @ + 1]
  /\ TaskKeeps /\ UNCHANGED <<disk, durable, events, creations, stream>>

ChildDelta ==
  /\ task.pc = "running" /\ task.established /\ task.terminal = "none"
  /\ task.deltas < MaxDeltas
  /\ task' = [task EXCEPT !.pc = "sendDelta", !.deltas = @ + 1]
  /\ TaskKeeps /\ UNCHANGED <<disk, durable, events, creations, stream>>

ChildTerminal(result) ==
  /\ task.pc = "running" /\ task.established /\ task.terminal = "none"
  /\ task' = [task EXCEPT !.terminal = result]
  /\ TaskKeeps /\ UNCHANGED <<disk, durable, events, creations, stream>>

\* End of output before the result line is a protocol error (ChildError).
ChildEof ==
  /\ task.pc = "running" /\ task.terminal # "none"
  /\ task' = [task EXCEPT !.pc = "finishing"]
  /\ TaskKeeps /\ UNCHANGED <<disk, durable, events, creations, stream>>

ChildError ==
  /\ task.pc = "running"
  /\ PlanFailure(TRUE, Unestablished)
  /\ TaskKeeps /\ UNCHANGED <<disk, durable, events, creations, stream>>

\* Mutant: cancellation is looked at only until the session is initialized.
CancelRunningEarly(processFailed) ==
  /\ task.pc = "running" /\ task.cancelled /\ ~task.established
  /\ PlanInterrupted(processFailed)
  /\ TaskKeeps /\ UNCHANGED <<disk, durable, events, creations, stream>>

CancelRunning(processFailed) ==
  /\ task.pc = "running" /\ task.cancelled
  /\ PlanInterrupted(processFailed)
  /\ TaskKeeps /\ UNCHANGED <<disk, durable, events, creations, stream>>

\* A full queue holds the task here, where it does not watch its cancellation.
SendDelta ==
  /\ task.pc = "sendDelta"
  /\ Send(Progress("TextDelta"))
  /\ task' = [task EXCEPT !.pc = "running"]
  /\ TaskKeeps /\ UNCHANGED <<disk, durable, creations, stream>>

\* persist_initialized: the read and the write take the store's lock apart.
InitLoad(readable) ==
  /\ task.pc = "initLoad"
  /\ IF readable /\ disk[task.session].lifecycle # "Absent"
     THEN task' = [task EXCEPT !.pc = "initSave", !.copy = disk[task.session]]
     ELSE PlanFailure(TRUE, task.new \/ task.recovering)
  /\ TaskKeeps /\ UNCHANGED <<disk, durable, events, creations, stream>>

InitSave(status) ==
  /\ task.pc = "initSave"
  /\ Save(task.session, [task.copy EXCEPT !.lifecycle = "Established"], status)
  /\ IF status = "verified"
     THEN task' = [task EXCEPT !.pc = "sendInitialized", !.established = TRUE]
     ELSE PlanFailure(TRUE, task.new \/ task.recovering)
  /\ TaskKeeps /\ UNCHANGED <<events, creations, stream>>

SendInitialized ==
  /\ task.pc = "sendInitialized"
  /\ Send(Progress("Initialized"))
  /\ task' = [task EXCEPT !.pc = "running"]
  /\ TaskKeeps /\ UNCHANGED <<disk, durable, creations, stream>>

\* ClaudeChild::finish: the child exits well or badly, or not within its
\* timeout, unless the turn is cancelled first.
ChildExit(ok) ==
  /\ task.pc = "finishing"
  /\ Plan(IF ok /\ task.terminal = "success" THEN "Completed" ELSE "Failed",
          TRUE, Unestablished, FALSE, FALSE)
  /\ TaskKeeps /\ UNCHANGED <<disk, durable, events, creations, stream>>

CancelFinishing ==
  /\ task.pc = "finishing" /\ task.cancelled
  /\ PlanInterrupted(FALSE)
  /\ TaskKeeps /\ UNCHANGED <<disk, durable, events, creations, stream>>

\* Mutant: unwrap_or(false) where the settlement could not be stored.
ReportUnwrapsFalse(stored, lifecycle) ==
  [outcome |-> IF stored /\ ~task.plan.failed THEN task.plan.outcome ELSE "Failed",
   uncertain |-> stored /\ lifecycle = "CreationUncertain"]

\* Mutant: the outcome is announced whether or not it was stored.
ReportIgnoresStore(stored, lifecycle) ==
  [outcome |-> IF task.plan.failed THEN "Failed" ELSE task.plan.outcome,
   uncertain |-> \/ stored /\ lifecycle = "CreationUncertain"
                 \/ (~stored \/ task.plan.sticky) /\ task.plan.fallback]

\* What TurnFinished says once settle_record returned (`stored`: the session it
\* wrote is verified, with that lifecycle).
Report(stored, lifecycle) ==
  [outcome |-> IF stored /\ ~task.plan.failed THEN task.plan.outcome ELSE "Failed",
   uncertain |-> \/ stored /\ lifecycle = "CreationUncertain"
                 \/ (~stored \/ task.plan.sticky) /\ task.plan.fallback]

\* settle_record: the read and the write take the store's lock apart.
SettleLoad(readable) ==
  /\ task.pc = "settleLoad"
  /\ task' = IF readable /\ Recorded(disk[task.session], task.turn)
             THEN [task EXCEPT !.pc = "settleSave", !.copy = disk[task.session]]
             ELSE [task EXCEPT !.pc = "finish", !.report = Report(FALSE, "Absent")]
  /\ TaskKeeps /\ UNCHANGED <<disk, durable, events, creations, stream>>

SettleSave(status) ==
  /\ task.pc = "settleSave"
  /\ LET settled == Settled(task.copy, task.turn, task.plan.outcome,
                            task.plan.attempted)
     IN /\ Save(task.session, settled, status)
        /\ task' = [task EXCEPT !.pc = "finish",
                      !.report = Report(status = "verified", settled.lifecycle)]
  /\ TaskKeeps /\ UNCHANGED <<events, creations, stream>>

FinishTurn ==
  /\ task.pc = "finish"
  /\ Send(Event("TurnFinished", task.session, task.turn, task.report.outcome,
                task.report.uncertain))
  /\ stream' = [stream EXCEPT !.open = NoTurn]
  /\ task' = [task EXCEPT !.pc = "done"]
  /\ TaskKeeps /\ UNCHANGED <<disk, durable, creations>>

-----------------------------------------------------------------------------
(* The end of the process, and the next one's start.  A power loss also     *)
(* takes back what was never known to be synced.                            *)

ProcessDies ==
  /\ prepared' = NoPrepared
  /\ coord' = "idle"
  /\ task' = NoTask
  /\ events' = <<>>
  /\ shuttingDown' = FALSE
  /\ stream' = [stream EXCEPT !.open = NoTurn]
  /\ UNCHANGED <<registered, nextTurn, creations>>

Crash == ProcessDies /\ UNCHANGED <<disk, durable>>

PowerLoss ==
  /\ ProcessDies
  /\ disk' \in [Sessions -> UNION {durable[s] : s \in Sessions}]
  /\ \A s \in Sessions : disk'[s] \in durable[s]
  /\ durable' = [s \in Sessions |-> {disk'[s]}]

CoordinatorStep ==
  \/ \E s \in Sessions, status \in CommitStatuses : CreateSession(s, status)
  \/ \E s \in Sessions, status \in CommitStatuses : LoadSession(s, status)
  \/ \E s \in Sessions, synced \in BOOLEAN : DeleteSession(s, synced)
  \/ \E s \in Sessions, commit, rollback \in CommitStatuses :
       PrepareTurn(s, commit, rollback)
  \/ PrepareRefused
  \/ \E status \in CommitStatuses : LaunchRefused(status)
  \/ LaunchTask
  \/ LaunchInline
  \/ InterruptTurn
  \/ \E latch \in BOOLEAN : BeginDrain(latch)

InlineStep == \/ InlineStart
              \/ \E status \in CommitStatuses : InlineSettle(status)
              \/ InlineFinish

DrainStep == DrainReceive \/ DrainJoined

\* What the child does, when it does it.
ChildStep == \/ ChildInitialized
             \/ ChildDelta
             \/ \E result \in {"success", "failure"} : ChildTerminal(result)
             \/ ChildEof
             \/ ChildError

\* What the task does by itself, or within a timeout.
TaskStep ==
  \/ StartTurn
  \/ Spawned
  \/ \E ran \in BOOLEAN : SpawnCancelled(ran)
  \/ \E ran, attempted \in BOOLEAN : SpawnFailed(ran, attempted)
  \/ \E processFailed \in BOOLEAN : CancelRunning(processFailed)
  \/ SendDelta
  \/ \E readable \in BOOLEAN : InitLoad(readable)
  \/ \E status \in CommitStatuses : InitSave(status)
  \/ SendInitialized
  \/ \E ok \in BOOLEAN : ChildExit(ok)
  \/ CancelFinishing
  \/ \E readable \in BOOLEAN : SettleLoad(readable)
  \/ \E status \in CommitStatuses : SettleSave(status)
  \/ FinishTurn

Next == \/ CoordinatorStep \/ InlineStep \/ DrainStep \/ NextEvent
        \/ ChildStep \/ TaskStep
        \/ Crash \/ PowerLoss

Spec == Init /\ [][Next]_vars

\* The executor runs a ready task and the coordinator returns to its loop.  No
\* fairness on the child: it may stay silent for ever.
Fairness == /\ WF_vars(TaskStep)
            /\ WF_vars(InlineStep)
            /\ WF_vars(DrainStep)
            /\ WF_vars(NextEvent)

FairSpec == Spec /\ Fairness

-----------------------------------------------------------------------------
(* Properties.                                                             *)

TaskPcs == {"none", "start", "spawn", "running", "sendDelta", "initLoad",
            "initSave", "sendInitialized", "finishing", "settleLoad",
            "settleSave", "finish", "done"}

PlanType == [outcome : Outcomes, attempted : BOOLEAN, fallback : BOOLEAN,
             sticky : BOOLEAN, failed : BOOLEAN]

TaskType == [pc : TaskPcs, turn : Turns \cup {NoTurn},
             session : Sessions \cup {NoSession}, new : BOOLEAN,
             recovering : BOOLEAN, cancelled : BOOLEAN, established : BOOLEAN,
             terminal : {"none", "success", "failure"}, deltas : Nat,
             copy : SessionRecord, plan : PlanType,
             report : [outcome : Outcomes, uncertain : BOOLEAN]]

PreparedType == [turn : Turns, session : Sessions, new : BOOLEAN,
                 recovering : BOOLEAN, verified : BOOLEAN]

\* Every variable keeps its type; the queue keeps its capacity, and a task or an
\* inline launch has a turn and a session to work on.
TypeOK ==
  /\ disk \in [Sessions -> SessionRecord]
  /\ durable \in [Sessions -> SUBSET SessionRecord]
  /\ registered \subseteq Sessions
  /\ nextTurn \in Nat \ {0}
  /\ prepared = NoPrepared \/ prepared \in PreparedType
  /\ coord \in {"idle", "inlineStart", "inlineSettle", "inlineFinish", "draining"}
  /\ coord \in {"inlineStart", "inlineSettle", "inlineFinish"} => prepared # NoPrepared
  /\ task \in TaskType
  /\ task.pc # "none" => task.turn \in Turns /\ task.session \in Sessions
  /\ events \in Seq(ServiceEvent)
  /\ Len(events) <= QueueCapacity
  /\ shuttingDown \in BOOLEAN
  /\ creations \in [Sessions -> Nat]
  /\ stream \in [open : Turns \cup {NoTurn}, last : Turns \cup {NoTurn}]

\* A session id is given to the CLI as a new one (--session-id) at most once,
\* through any mix of store failures, crashes, power losses, interrupts and
\* retries: afterwards the service can only resume it.  prepare_turn's
\* CreationPending record, settle_record's choice between Fresh and
\* CreationUncertain and load_session's repair establish it together.
CreatedAtMostOnce == \A s \in Sessions : creations[s] <= 1

NoFresh(s) == /\ disk[s].lifecycle # "Fresh"
              /\ \A r \in durable[s] : r.lifecycle # "Fresh"

Begun(s) == disk[s].lifecycle \notin {"Fresh", "CreationPending"}

\* A created session is known and has no Fresh copy left; an id that was never
\* handed out has no record.
CreatedHasNoFreshCopy ==
  \A s \in Sessions :
    /\ creations[s] \in {0, 1}
    /\ creations[s] = 1 => s \in registered /\ NoFresh(s)
    /\ s \notin registered => /\ disk[s].lifecycle = "Absent"
                              /\ \A r \in durable[s] : r.lifecycle = "Absent"

\* A prepared turn is the only claim on its session.
PreparedMayCreate ==
  prepared # NoPrepared =>
    /\ task.pc = "none"
    /\ prepared.session \in registered
    /\ prepared.new => /\ prepared.verified
                       /\ creations[prepared.session] = 0
                       /\ NoFresh(prepared.session)
    /\ ~prepared.new => Begun(prepared.session)
    /\ coord \in {"inlineStart", "inlineSettle", "inlineFinish"} => ~prepared.verified

\* A task creates its session at most once, before it settles it as attempted;
\* one that resumes works on a record that cannot fall back to Fresh.
TaskMayCreate ==
  TaskRunning =>
    /\ task.session \in registered
    /\ task.new /\ task.pc # "finish" => NoFresh(task.session)
    /\ task.new /\ task.pc \in {"start", "spawn"} => creations[task.session] = 0
    /\ task.new /\ task.pc \in {"settleLoad", "settleSave"} /\ ~task.plan.attempted
         => creations[task.session] = 0
    /\ ~task.new => Begun(task.session)

CopyIsNotFresh ==
  task.pc = "settleSave" =>
    /\ task.copy.lifecycle # "Fresh"
    /\ ~task.new => task.copy.lifecycle # "CreationPending"

\* The inductive strengthening of CreatedAtMostOnce: a creation leaves no Fresh
\* copy behind in any file a crash may leave, and whoever may still create a
\* session is the only one who may, and has not done it yet.
CreationInv == /\ CreatedHasNoFreshCopy
               /\ PreparedMayCreate
               /\ TaskMayCreate
               /\ CopyIsNotFresh

\* When the last turn finishes without reporting creation uncertainty, no child
\* was ever started for its session, or the session is on record as established
\* (or deleted since): the reducer may let the user go on without a recovery.
UncertaintyIsReported ==
  \A i \in 1..Len(events) :
    LET e == events[i]
    IN (e.kind = "TurnFinished" /\ ~e.uncertain /\ e.turn = stream.last
          /\ creations[e.session] > 0)
         => disk[e.session].lifecycle \in {"Established", "Absent"}

\* A turn reported Completed is Completed in every copy of its session a power
\* loss may leave, and its session is established there (or was deleted since).
CompletedIsDurable ==
  \A i \in 1..Len(events) :
    LET e == events[i]
    IN e.kind = "TurnFinished" /\ e.outcome = "Completed"
         => \A r \in durable[e.session] :
              \/ r.lifecycle = "Absent"
              \/ r.lifecycle = "Established" /\ r.turns[e.turn] = "Completed"

\* A turn of the live process is on record until it ends: no recovery read, no
\* other save and no crash makes the record of a running turn forget it, unless
\* its session was deleted.
RunningTurnIsRecorded ==
  TaskRunning => \A r \in durable[task.session] \cup {disk[task.session]} :
                   r.lifecycle = "Absent" \/ r.turns[task.turn] # "None"

\* Neither a turn that runs nor the outcome of one that was announced is lost from
\* the records, by whichever saves, repairs, crashes and power losses come between.
TurnsAreKept == RunningTurnIsRecorded /\ CompletedIsDurable

Confirmed(s) == /\ \E r \in durable[s] : r.lifecycle = "Established"
                /\ \A r \in durable[s] : r.lifecycle \in {"Established", "Absent"}

\* Once every surviving copy of a session says it is established, no settlement,
\* repair, rollback, stale save or power loss takes it back to a lifecycle from
\* which the service would doubt or re-create it.
EstablishedForGood ==
  [][\A s \in Sessions : Confirmed(s) =>
       \A r \in durable'[s] : r.lifecycle \in {"Established", "Absent"}]_vars

\* Nobody waits for ever.  An interrupt is not lost, wherever in run_turn it arrives,
\* also when the child never writes another line; and logout and shutdown come back,
\* also from a task blocked on the full queue, because the drain receives while it
\* waits.
WaitsEnd ==
  task.cancelled \/ coord = "draining" ~> ~TaskRunning /\ coord # "draining"

\* The events queued implement the stream the coordinator is promised.
Stream == INSTANCE TurnStream WITH
  queue <- events,
  current <- stream.open,
  last <- stream.last,
  session <- IF stream.open = NoTurn THEN NoSession
             ELSE IF stream.open = task.turn THEN task.session
             ELSE prepared.session,
  initialized <- /\ stream.open # NoTurn /\ stream.open = task.turn
                 /\ task.established /\ task.pc # "sendInitialized"

\* The queue of a service driven in any way by the coordinator, and by any
\* child, is a well-formed stream of turns (module TurnStream).
ImplementsTurnStream == Stream!Spec
=============================================================================
