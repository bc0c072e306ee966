------------------------ MODULE ClaudeService_proofs ------------------------
(***************************************************************************)
(* Proofs about ClaudeService: its types; that no session is created       *)
(* twice; that what is on record agrees with what runs and with what was   *)
(* announced (HistoryInv), whence TurnsAreKept, UncertaintyIsReported and  *)
(* EstablishedForGood; and that the queue implements TurnStream.           *)
(***************************************************************************)
EXTENDS ClaudeService, TLAPS

-----------------------------------------------------------------------------
(* What the store's operators return.                                      *)

\* What a session's record is, field by field.
LEMMA SessionRecords ==
  /\ AbsentRecord \in SessionRecord
  /\ FreshRecord \in SessionRecord
  /\ AbsentRecord.lifecycle = "Absent"
  /\ FreshRecord.lifecycle = "Fresh"
BY DEF AbsentRecord, FreshRecord, SessionRecord, Lifecycles, Outcomes

\* settle_record returns a session, and takes back Fresh only a session whose
\* creation was pending and not attempted.
LEMMA SettledRecord ==
  ASSUME NEW r \in SessionRecord, NEW t \in Turns, NEW outcome \in Outcomes,
         NEW attempted \in BOOLEAN
  PROVE  /\ Settled(r, t, outcome, attempted) \in SessionRecord
         /\ Settled(r, t, outcome, attempted).lifecycle =
              IF r.lifecycle = "CreationPending"
              THEN IF attempted THEN "CreationUncertain" ELSE "Fresh"
              ELSE r.lifecycle
BY DEF Settled, SessionRecord, Lifecycles, Outcomes

\* The recovery read repairs a record into one (recover_interrupted_turns).
LEMMA RepairedRecord ==
  ASSUME NEW r \in SessionRecord
  PROVE  /\ Repaired(r) \in SessionRecord
         /\ Repaired(r).lifecycle = IF r.lifecycle = "CreationPending"
                                    THEN "CreationUncertain" ELSE r.lifecycle
BY DEF Repaired, SessionRecord, Lifecycles, Outcomes

\* A power loss leaves some copy of a session, of the type it had.
LEMMA SurvivorsType ==
  ASSUME NEW old \in SUBSET SessionRecord, NEW new \in SessionRecord,
         NEW status \in CommitStatuses
  PROVE  Survivors(old, new, status) \in SUBSET SessionRecord
BY DEF Survivors, CommitStatuses

\* A save touches one session, and leaves there only what was there and the
\* session saved.
LEMMA SaveFacts ==
  ASSUME disk \in [Sessions -> SessionRecord],
         durable \in [Sessions -> SUBSET SessionRecord],
         NEW s \in Sessions, NEW new \in SessionRecord,
         NEW status \in CommitStatuses, Save(s, new, status)
  PROVE  /\ disk' \in [Sessions -> SessionRecord]
         /\ durable' \in [Sessions -> SUBSET SessionRecord]
         /\ disk'[s] \in {disk[s], new}
         /\ durable'[s] \subseteq durable[s] \cup {new}
         /\ status = "verified" => disk'[s] = new /\ durable'[s] = {new}
         /\ \A z \in Sessions \ {s} : disk'[z] = disk[z] /\ durable'[z] = durable[z]
<1>1. Visible(disk[s], new, status) \in {disk[s], new}
  BY DEF Visible
<1>2. Survivors(durable[s], new, status) \subseteq durable[s] \cup {new}
  BY DEF Survivors, CommitStatuses
<1>3. status = "verified" => /\ Visible(disk[s], new, status) = new
                             /\ Survivors(durable[s], new, status) = {new}
  BY DEF Visible, Survivors
<1>4. Survivors(durable[s], new, status) \in SUBSET SessionRecord
  BY <1>2
<1> QED
  BY <1>1, <1>2, <1>3, <1>4 DEF Save

-----------------------------------------------------------------------------
(* Types.                                                                  *)

StoreType == /\ disk \in [Sessions -> SessionRecord]
             /\ durable \in [Sessions -> SUBSET SessionRecord]

\* The coordinator's own settlement keeps the files' type.
LEMMA SettleAloneType ==
  ASSUME StoreType, NEW s \in Sessions, NEW t \in Turns,
         NEW status \in CommitStatuses, SettleAlone(s, t, status)
  PROVE  StoreType'
<1>1. Settled(disk[s], t, "Interrupted", FALSE) \in SessionRecord
  BY SettledRecord DEF StoreType, Outcomes
<1>2. CASE Recorded(disk[s], t)
  BY <1>1, <1>2, SaveFacts DEF SettleAlone, StoreType
<1>3. CASE ~Recorded(disk[s], t)
  BY <1>3 DEF SettleAlone, StoreType
<1> QED  BY <1>2, <1>3

\* An event that fits keeps the queue's type and its bound.
LEMMA SendType ==
  ASSUME events \in Seq(ServiceEvent), Len(events) <= QueueCapacity,
         NEW e \in ServiceEvent, Send(e)
  PROVE  events' \in Seq(ServiceEvent) /\ Len(events') <= QueueCapacity
BY BoundsAssumption DEF Send

\* What a turn has shown so far is typed, whatever line the child writes.
LEMMA ProgressType ==
  ASSUME TypeOK, task.pc # "none",
         NEW kind \in {"TurnStarted", "Initialized", "TextDelta"}
  PROVE  Progress(kind) \in ServiceEvent
BY DEF Progress, Event, ServiceEvent, TypeOK, Outcomes

\* The settlement a task is about to save is one.
LEMMA PlanTypeOK ==
  ASSUME TypeOK, task.pc # "none", NEW outcome \in Outcomes,
         NEW attempted \in BOOLEAN, NEW fallback \in BOOLEAN,
         NEW sticky \in BOOLEAN, NEW failed \in BOOLEAN,
         Plan(outcome, attempted, fallback, sticky, failed)
  PROVE  /\ task' \in TaskType
         /\ task'.turn \in Turns /\ task'.session \in Sessions
         /\ task'.pc = "settleLoad" /\ task'.plan.attempted = attempted
         /\ task'.new = task.new /\ task'.session = task.session
<1> DEFINE moved == [task EXCEPT !.pc = "settleLoad"]
           plan == [outcome |-> outcome, attempted |-> attempted, fallback |-> fallback,
                    sticky |-> sticky, failed |-> failed]
<1>1. /\ moved \in TaskType /\ moved.pc = "settleLoad"
      /\ moved.turn = task.turn /\ moved.session = task.session /\ moved.new = task.new
  BY DEF TypeOK, TaskType, TaskPcs
<1>2. plan \in PlanType /\ plan.attempted = attempted
  BY DEF PlanType
<1>3. task' = [moved EXCEPT !.plan = plan]
  BY DEF Plan
<1> HIDE DEF moved, plan
<1>4. /\ task' \in TaskType /\ task'.pc = moved.pc /\ task'.plan = plan
      /\ task'.turn = moved.turn /\ task'.session = moved.session /\ task'.new = moved.new
  BY <1>1, <1>2, <1>3 DEF TaskType
<1> QED
  BY <1>1, <1>2, <1>4 DEF TypeOK

\* What is announced is an outcome the reducer knows (ClaudeTurnOutcome).
LEMMA ReportType ==
  ASSUME TypeOK, NEW stored \in BOOLEAN, NEW lifecycle \in Lifecycles
  PROVE  Report(stored, lifecycle) \in [outcome : Outcomes, uncertain : BOOLEAN]
<1>1. task.plan.outcome \in Outcomes /\ "Failed" \in Outcomes
  BY DEF TypeOK, TaskType, PlanType, Outcomes
<1> DEFINE uncertain == \/ stored /\ lifecycle = "CreationUncertain"
                        \/ (~stored \/ task.plan.sticky) /\ task.plan.fallback
<1>2. task.plan.sticky \in BOOLEAN /\ task.plan.fallback \in BOOLEAN
  BY DEF TypeOK, TaskType, PlanType
<1>3. uncertain \in BOOLEAN
  BY <1>2
<1> QED
  BY <1>1, <1>3 DEF Report

\* The service starts typed.
LEMMA InitType == Init => TypeOK
<1> SUFFICES ASSUME Init PROVE TypeOK
  OBVIOUS
<1>1. NoTask \in TaskType /\ NoTask.pc = "none"
  BY SessionRecords
     DEF NoTask, NoPlan, NoReport, TaskType, TaskPcs, PlanType, Outcomes
<1>2. events \in Seq(ServiceEvent) /\ Len(events) <= QueueCapacity
  BY BoundsAssumption DEF Init
<1>3. disk \in [Sessions -> SessionRecord] /\ durable \in [Sessions -> SUBSET SessionRecord]
  BY SessionRecords DEF Init
<1>4. creations \in [Sessions -> Nat] /\ nextTurn \in Nat \ {0}
  BY DEF Init
<1>5. stream \in [open : Turns \cup {NoTurn}, last : Turns \cup {NoTurn}]
  BY DEF Init
<1> QED
  BY <1>1, <1>2, <1>3, <1>4, <1>5 DEF Init, TypeOK

\* The coordinator's steps keep the types.
LEMMA CoordinatorType == TypeOK /\ CoordinatorStep => TypeOK'
<1> SUFFICES ASSUME TypeOK, CoordinatorStep PROVE TypeOK'
  OBVIOUS
<1> USE DEF vars, storeVars
<1>1. ASSUME NEW s \in Sessions, NEW status \in CommitStatuses, CreateSession(s, status)
      PROVE  TypeOK'
  BY <1>1, SaveFacts, SessionRecords DEF CreateSession, TypeOK
<1>2. ASSUME NEW s \in Sessions, NEW status \in CommitStatuses, LoadSession(s, status)
      PROVE  TypeOK'
  BY <1>2, SaveFacts, RepairedRecord DEF LoadSession, TypeOK
<1>3. ASSUME NEW s \in Sessions, NEW synced \in BOOLEAN, DeleteSession(s, synced)
      PROVE  TypeOK'
  BY <1>3, SaveFacts, SessionRecords DEF DeleteSession, TypeOK, CommitStatuses
<1>4. ASSUME NEW s \in Sessions, NEW commit \in CommitStatuses,
             NEW rollback \in CommitStatuses, PrepareTurn(s, commit, rollback)
      PROVE  TypeOK'
  <2> DEFINE was    == disk[s].lifecycle
             pushed == [lifecycle |-> IF was = "Fresh" THEN "CreationPending" ELSE was,
                        turns |-> [disk[s].turns EXCEPT ![nextTurn] = "InProgress"]]
             undone == [lifecycle |-> was,
                        turns |-> [disk[s].turns EXCEPT ![nextTurn] = "Interrupted"]]
  <2>1. nextTurn \in Turns /\ nextTurn + 1 \in Nat \ {0}
    BY <1>4 DEF PrepareTurn, TypeOK
  <2>2. pushed \in SessionRecord /\ undone \in SessionRecord
    BY <2>1 DEF TypeOK, SessionRecord, Lifecycles, Outcomes
  <2>3. StoreType'
    <3>1. CASE commit = "verified"
      <4>1. Save(s, pushed, "verified")
        BY <1>4, <3>1 DEF PrepareTurn
      <4> QED
        BY <4>1, <2>2, SaveFacts DEF TypeOK, StoreType, CommitStatuses
    <3>2. CASE commit # "verified"
      <4>1. /\ disk' = [disk EXCEPT ![s] =
                          Visible(Visible(disk[s], pushed, commit), undone, rollback)]
            /\ durable' = [durable EXCEPT ![s] =
                          Survivors(Survivors(durable[s], pushed, commit), undone, rollback)]
        BY <1>4, <3>2 DEF PrepareTurn, TypeOK
      <4>2. Visible(Visible(disk[s], pushed, commit), undone, rollback) \in SessionRecord
        BY <2>2 DEF Visible, TypeOK
      <4>3. Survivors(Survivors(durable[s], pushed, commit), undone, rollback)
              \in SUBSET SessionRecord
        BY <2>2, SurvivorsType DEF TypeOK
      <4> QED
        BY <4>1, <4>2, <4>3 DEF TypeOK, StoreType
    <3> QED  BY <3>1, <3>2
  <2>4. prepared' = NoPrepared \/ prepared' \in PreparedType
    BY <1>4, <2>1 DEF PrepareTurn, PreparedType
  <2>5. task' = NoTask /\ NoTask \in TaskType /\ NoTask.pc = "none"
    BY <1>4, SessionRecords
       DEF PrepareTurn, NoTask, NoPlan, NoReport, TaskType, TaskPcs, PlanType, Outcomes
  <2>6. coord' = "idle"
    BY <1>4 DEF PrepareTurn
  <2> QED
    BY <1>4, <2>1, <2>3, <2>4, <2>5, <2>6 DEF PrepareTurn, TypeOK, StoreType
<1>5. ASSUME NEW status \in CommitStatuses, LaunchRefused(status)
      PROVE  TypeOK'
  <2>1. prepared.session \in Sessions /\ prepared.turn \in Turns
    BY <1>5 DEF LaunchRefused, TypeOK, PreparedType
  <2>2. StoreType'
    BY <1>5, <2>1, SettleAloneType DEF LaunchRefused, TypeOK, StoreType
  <2> QED
    BY <1>5, <2>2 DEF LaunchRefused, TypeOK, StoreType
<1>6. CASE LaunchTask
  <2>1. prepared \in PreparedType
    BY <1>6 DEF LaunchTask, TypeOK
  <2>2. /\ TaskOf(prepared) \in TaskType
        /\ TaskOf(prepared).turn \in Turns /\ TaskOf(prepared).session \in Sessions
    BY <2>1, SessionRecords
       DEF TaskOf, NoTask, NoPlan, NoReport, TaskType, TaskPcs, PlanType,
           PreparedType, Outcomes
  <2> QED
    BY <1>6, <2>2 DEF LaunchTask, TypeOK
<1>7. CASE LaunchInline
  BY <1>7 DEF LaunchInline, TypeOK
<1>8. CASE InterruptTurn
  BY <1>8 DEF InterruptTurn, TypeOK, TaskType
<1>9. ASSUME NEW latch \in BOOLEAN, BeginDrain(latch)
      PROVE  TypeOK'
  BY <1>9 DEF BeginDrain, TypeOK, TaskType
<1>10. CASE PrepareRefused
  <2>1. NoTask \in TaskType /\ NoTask.pc = "none"
    BY SessionRecords
       DEF NoTask, NoPlan, NoReport, TaskType, TaskPcs, PlanType, Outcomes
  <2> QED
    BY <1>10, <2>1 DEF PrepareRefused, TypeOK
<1> QED
  BY <1>1, <1>2, <1>3, <1>4, <1>5, <1>6, <1>7, <1>8, <1>9, <1>10 DEF CoordinatorStep

\* A turn finished without a task keeps the types (finish_prepared_before_launch).
LEMMA InlineType == TypeOK /\ InlineStep => TypeOK'
<1> SUFFICES ASSUME TypeOK, InlineStep PROVE TypeOK'
  OBVIOUS
<1> USE DEF vars, storeVars
<1>1. CASE InlineStart
  <2>1. prepared \in PreparedType
    BY <1>1 DEF InlineStart, TypeOK
  <2>2. Event("TurnStarted", prepared.session, prepared.turn, "InProgress", FALSE)
          \in ServiceEvent
    BY <2>1 DEF Event, ServiceEvent, PreparedType, Outcomes
  <2>3. events' \in Seq(ServiceEvent) /\ Len(events') <= QueueCapacity
    BY <1>1, <2>2, SendType DEF InlineStart, TypeOK
  <2> QED
    BY <1>1, <2>1, <2>3 DEF InlineStart, TypeOK, PreparedType
<1>2. ASSUME NEW status \in CommitStatuses, InlineSettle(status)
      PROVE  TypeOK'
  <2>1. prepared.session \in Sessions /\ prepared.turn \in Turns
    BY <1>2 DEF InlineSettle, TypeOK, PreparedType
  <2>2. StoreType'
    BY <1>2, <2>1, SettleAloneType DEF InlineSettle, TypeOK, StoreType
  <2> QED
    BY <1>2, <2>2 DEF InlineSettle, TypeOK, StoreType
<1>3. CASE InlineFinish
  <2>1. prepared \in PreparedType
    BY <1>3 DEF InlineFinish, TypeOK
  <2>2. Event("TurnFinished", prepared.session, prepared.turn, "Failed",
              prepared.recovering) \in ServiceEvent
    BY <2>1 DEF Event, ServiceEvent, PreparedType, Outcomes
  <2>3. events' \in Seq(ServiceEvent) /\ Len(events') <= QueueCapacity
    BY <1>3, <2>2, SendType DEF InlineFinish, TypeOK
  <2> QED
    BY <1>3, <2>3 DEF InlineFinish, TypeOK
<1> QED
  BY <1>1, <1>2, <1>3 DEF InlineStep

\* Draining and receiving keep the types (join_active_draining, next_event).
LEMMA QueueType == TypeOK /\ (DrainStep \/ NextEvent) => TypeOK'
<1> SUFFICES ASSUME TypeOK, DrainStep \/ NextEvent PROVE TypeOK'
  OBVIOUS
<1> USE DEF vars, storeVars
<1>1. CASE NextEvent \/ DrainReceive
  <2>1. events # <<>> /\ events' = Tail(events)
    BY <1>1 DEF NextEvent, DrainReceive
  <2>2. events' \in Seq(ServiceEvent) /\ Len(events') <= QueueCapacity
    BY <2>1, BoundsAssumption DEF TypeOK
  <2> QED
    BY <1>1, <2>2 DEF NextEvent, DrainReceive, TypeOK
<1>2. CASE DrainJoined
  <2>1. NoTask \in TaskType /\ NoTask.pc = "none"
    BY SessionRecords
       DEF NoTask, NoPlan, NoReport, TaskType, TaskPcs, PlanType, Outcomes
  <2>2. events' \in Seq(ServiceEvent) /\ Len(events') <= QueueCapacity
    BY <1>2, BoundsAssumption DEF DrainJoined
  <2> QED
    BY <1>2, <2>1, <2>2 DEF DrainJoined, TypeOK
<1> QED
  BY <1>1, <1>2 DEF DrainStep

\* The steps of the task and its child: what they do to the store, the queue and
\* the task is typed one by one, the rest they leave alone.
LEMMA TaskParts ==
  ASSUME TypeOK, TaskKeeps, StoreType',
         events' \in Seq(ServiceEvent), Len(events') <= QueueCapacity,
         task' \in TaskType, task'.turn \in Turns, task'.session \in Sessions,
         creations' \in [Sessions -> Nat],
         stream' \in [open : Turns \cup {NoTurn}, last : Turns \cup {NoTurn}]
  PROVE  TypeOK'
BY DEF TypeOK, TaskKeeps, StoreType

\* Counting a creation keeps the counters' type.
LEMMA CountCreationType ==
  ASSUME TypeOK, task.pc # "none", CountCreation \/ UNCHANGED creations
  PROVE  creations' \in [Sessions -> Nat]
BY DEF CountCreation, TypeOK

\* A step that only moves the task to its settlement.
LEMMA PlanStepType ==
  ASSUME TypeOK, TaskKeeps, UNCHANGED <<disk, durable, events, stream>>,
         CountCreation \/ UNCHANGED creations, task.pc # "none",
         NEW outcome \in Outcomes, NEW attempted \in BOOLEAN,
         NEW fallback \in BOOLEAN, NEW sticky \in BOOLEAN, NEW failed \in BOOLEAN,
         Plan(outcome, attempted, fallback, sticky, failed)
  PROVE  TypeOK'
<1>1. task' \in TaskType /\ task'.turn \in Turns /\ task'.session \in Sessions
  BY PlanTypeOK
<1>2. creations' \in [Sessions -> Nat]
  BY CountCreationType
<1> QED
  BY <1>1, <1>2, TaskParts DEF TypeOK, StoreType

\* What the child does keeps the types (run_turn).
LEMMA ChildType == TypeOK /\ ChildStep => TypeOK'
<1> SUFFICES ASSUME TypeOK, ChildStep PROVE TypeOK'
  OBVIOUS
<1> USE DEF StoreType
<1>1. CASE ChildInitialized
  BY <1>1, TaskParts DEF ChildInitialized, TypeOK, TaskType, TaskPcs
<1>2. CASE ChildDelta
  <2> DEFINE moved == [task EXCEPT !.pc = "sendDelta"]
  <2>1. moved \in TaskType /\ moved.turn = task.turn /\ moved.session = task.session
        /\ moved.deltas = task.deltas
    BY DEF TypeOK, TaskType, TaskPcs
  <2>2. task' = [moved EXCEPT !.deltas = task.deltas + 1]
    BY <1>2 DEF ChildDelta
  <2> HIDE DEF moved
  <2>3. task.deltas + 1 \in Nat
    BY DEF TypeOK, TaskType
  <2>4. task' \in TaskType /\ task'.turn = task.turn /\ task'.session = task.session
    BY <2>1, <2>2, <2>3 DEF TaskType
  <2> QED
    BY <1>2, <2>4, TaskParts DEF ChildDelta, TypeOK
<1>3. ASSUME NEW result \in {"success", "failure"}, ChildTerminal(result)
      PROVE  TypeOK'
  BY <1>3, TaskParts DEF ChildTerminal, TypeOK, TaskType, TaskPcs
<1>4. CASE ChildEof
  BY <1>4, TaskParts DEF ChildEof, TypeOK, TaskType, TaskPcs
<1>5. CASE ChildError
  BY <1>5, PlanStepType
     DEF ChildError, PlanFailure, Unestablished, TypeOK, TaskType, Outcomes
<1> QED
  BY <1>1, <1>2, <1>3, <1>4, <1>5 DEF ChildStep

\* The task's own steps keep the types (run_turn, run_turn_inner).
LEMMA TaskStepType == TypeOK /\ TaskStep => TypeOK'
<1> SUFFICES ASSUME TypeOK, TaskStep PROVE TypeOK'
  OBVIOUS
<1> USE DEF StoreType
<1>f. /\ task.new \in BOOLEAN /\ task.recovering \in BOOLEAN
      /\ task.established \in BOOLEAN /\ Unestablished \in BOOLEAN
  BY DEF TypeOK, TaskType, Unestablished
<1>1. CASE StartTurn
  <2>1. events' \in Seq(ServiceEvent) /\ Len(events') <= QueueCapacity
    BY <1>1, ProgressType, SendType DEF StartTurn, TypeOK
  <2>2. task' \in TaskType /\ task'.turn = task.turn /\ task'.session = task.session
    BY <1>1 DEF StartTurn, TypeOK, TaskType, TaskPcs
  <2> QED
    BY <1>1, <2>1, <2>2, TaskParts DEF StartTurn, TypeOK
<1>2. CASE Spawned
  <2>1. creations' \in [Sessions -> Nat]
    BY <1>2, CountCreationType DEF Spawned
  <2>2. task' \in TaskType /\ task'.turn = task.turn /\ task'.session = task.session
    BY <1>2 DEF Spawned, TypeOK, TaskType, TaskPcs
  <2> QED
    BY <1>2, <2>1, <2>2, TaskParts DEF Spawned, TypeOK
<1>3. ASSUME NEW ran \in BOOLEAN, SpawnCancelled(ran)
      PROVE  TypeOK'
  <2>1. (task.recovering \/ (task.new /\ ran)) \in BOOLEAN /\ "Interrupted" \in Outcomes
    BY DEF Outcomes
  <2> QED
    BY <1>3, <2>1, PlanStepType DEF SpawnCancelled
<1>4. ASSUME NEW ran \in BOOLEAN, NEW attempted \in BOOLEAN, SpawnFailed(ran, attempted)
      PROVE  TypeOK'
  <2>1. (task.recovering \/ (task.new /\ attempted)) \in BOOLEAN /\ "Failed" \in Outcomes
    BY DEF Outcomes
  <2> QED
    BY <1>4, <2>1, PlanStepType DEF SpawnFailed, PlanFailure
<1>5. ASSUME NEW processFailed \in BOOLEAN, CancelRunning(processFailed)
      PROVE  TypeOK'
  BY <1>5, <1>f, PlanStepType DEF CancelRunning, PlanInterrupted, Outcomes
<1>6. CASE SendDelta
  <2>1. events' \in Seq(ServiceEvent) /\ Len(events') <= QueueCapacity
    BY <1>6, ProgressType, SendType DEF SendDelta, TypeOK
  <2>2. task' \in TaskType /\ task'.turn = task.turn /\ task'.session = task.session
    BY <1>6 DEF SendDelta, TypeOK, TaskType, TaskPcs
  <2> QED
    BY <1>6, <2>1, <2>2, TaskParts DEF SendDelta, TypeOK
<1>7. ASSUME NEW readable \in BOOLEAN, InitLoad(readable)
      PROVE  TypeOK'
  <2>1. CASE readable /\ disk[task.session].lifecycle # "Absent"
    <3> DEFINE moved == [task EXCEPT !.pc = "initSave"]
    <3>1. moved \in TaskType /\ moved.turn = task.turn /\ moved.session = task.session
      BY DEF TypeOK, TaskType, TaskPcs
    <3>2. task' = [moved EXCEPT !.copy = disk[task.session]]
      BY <1>7, <2>1 DEF InitLoad
    <3>3. disk[task.session] \in SessionRecord
      BY <1>7 DEF InitLoad, TypeOK
    <3> HIDE DEF moved
    <3>4. task' \in TaskType /\ task'.turn = task.turn /\ task'.session = task.session
      BY <3>1, <3>2, <3>3 DEF TaskType
    <3> QED
      BY <1>7, <3>4, TaskParts DEF InitLoad, TypeOK
  <2>2. CASE ~(readable /\ disk[task.session].lifecycle # "Absent")
    <3>1. (task.new \/ task.recovering) \in BOOLEAN /\ "Failed" \in Outcomes
      BY DEF Outcomes
    <3>2. PlanFailure(TRUE, task.new \/ task.recovering)
      BY <1>7, <2>2 DEF InitLoad
    <3> QED
      BY <1>7, <3>1, <3>2, PlanStepType DEF InitLoad, PlanFailure
  <2> QED  BY <2>1, <2>2
<1>8. ASSUME NEW status \in CommitStatuses, InitSave(status)
      PROVE  TypeOK'
  <2>1. [task.copy EXCEPT !.lifecycle = "Established"] \in SessionRecord
    BY DEF TypeOK, TaskType, SessionRecord, Lifecycles
  <2>2. StoreType'
    BY <1>8, <2>1, SaveFacts DEF InitSave, TypeOK
  <2>3. task' \in TaskType /\ task'.turn \in Turns /\ task'.session \in Sessions
    <3>1. CASE status = "verified"
      <4> DEFINE moved == [task EXCEPT !.pc = "sendInitialized"]
      <4>1. moved \in TaskType /\ moved.turn = task.turn /\ moved.session = task.session
        BY DEF TypeOK, TaskType, TaskPcs
      <4>2. task' = [moved EXCEPT !.established = TRUE]
        BY <1>8, <3>1 DEF InitSave
      <4> HIDE DEF moved
      <4> QED
        BY <1>8, <4>1, <4>2 DEF InitSave, TypeOK, TaskType
    <3>2. CASE status # "verified"
      <4>1. (task.new \/ task.recovering) \in BOOLEAN /\ "Failed" \in Outcomes
        BY DEF Outcomes
      <4>2. PlanFailure(TRUE, task.new \/ task.recovering)
        BY <1>8, <3>2 DEF InitSave
      <4> QED
        BY <1>8, <4>1, <4>2, PlanTypeOK DEF InitSave, PlanFailure
    <3> QED  BY <3>1, <3>2
  <2> QED
    BY <1>8, <2>2, <2>3, TaskParts DEF InitSave, TypeOK
<1>9. CASE SendInitialized
  <2>1. events' \in Seq(ServiceEvent) /\ Len(events') <= QueueCapacity
    BY <1>9, ProgressType, SendType DEF SendInitialized, TypeOK
  <2>2. task' \in TaskType /\ task'.turn = task.turn /\ task'.session = task.session
    BY <1>9 DEF SendInitialized, TypeOK, TaskType, TaskPcs
  <2> QED
    BY <1>9, <2>1, <2>2, TaskParts DEF SendInitialized, TypeOK
<1>10. ASSUME NEW ok \in BOOLEAN, ChildExit(ok)
       PROVE  TypeOK'
  <2>1. (IF ok /\ task.terminal = "success" THEN "Completed" ELSE "Failed") \in Outcomes
    BY DEF Outcomes
  <2> QED
    BY <1>10, <2>1, <1>f, PlanStepType DEF ChildExit
<1>11. CASE CancelFinishing
  BY <1>11, <1>f, PlanStepType DEF CancelFinishing, PlanInterrupted, Outcomes
<1>12. ASSUME NEW readable \in BOOLEAN, SettleLoad(readable)
       PROVE  TypeOK'
  <2>1. task' \in TaskType /\ task'.turn \in Turns /\ task'.session \in Sessions
    <3>1. CASE readable /\ Recorded(disk[task.session], task.turn)
      <4> DEFINE moved == [task EXCEPT !.pc = "settleSave"]
      <4>1. moved \in TaskType /\ moved.turn = task.turn /\ moved.session = task.session
        BY DEF TypeOK, TaskType, TaskPcs
      <4>2. task' = [moved EXCEPT !.copy = disk[task.session]]
        BY <1>12, <3>1 DEF SettleLoad
      <4>3. disk[task.session] \in SessionRecord
        BY <1>12 DEF SettleLoad, TypeOK
      <4> HIDE DEF moved
      <4> QED
        BY <1>12, <4>1, <4>2, <4>3 DEF SettleLoad, TypeOK, TaskType
    <3>2. CASE ~(readable /\ Recorded(disk[task.session], task.turn))
      <4> DEFINE moved == [task EXCEPT !.pc = "finish"]
                 report == Report(FALSE, "Absent")
      <4>1. moved \in TaskType /\ moved.turn = task.turn /\ moved.session = task.session
        BY DEF TypeOK, TaskType, TaskPcs
      <4>2. task' = [moved EXCEPT !.report = report]
        BY <1>12, <3>2 DEF SettleLoad
      <4>3. report \in [outcome : Outcomes, uncertain : BOOLEAN]
        BY ReportType DEF Lifecycles
      <4> HIDE DEF moved, report
      <4> QED
        BY <1>12, <4>1, <4>2, <4>3 DEF SettleLoad, TypeOK, TaskType
    <3> QED  BY <3>1, <3>2
  <2> QED
    BY <1>12, <2>1, TaskParts DEF SettleLoad, TypeOK
<1>13. ASSUME NEW status \in CommitStatuses, SettleSave(status)
       PROVE  TypeOK'
  <2> DEFINE settled == Settled(task.copy, task.turn, task.plan.outcome,
                                task.plan.attempted)
             report == Report(status = "verified", settled.lifecycle)
             moved == [task EXCEPT !.pc = "finish"]
  <2>1. settled \in SessionRecord /\ settled.lifecycle \in Lifecycles
    <3>1. /\ task.copy \in SessionRecord /\ task.turn \in Turns
          /\ task.plan.outcome \in Outcomes /\ task.plan.attempted \in BOOLEAN
      BY <1>13 DEF SettleSave, TypeOK, TaskType, PlanType
    <3>2. settled \in SessionRecord
      BY <3>1, SettledRecord
    <3> QED
      BY <3>2 DEF SessionRecord
  <2>2. report \in [outcome : Outcomes, uncertain : BOOLEAN]
    BY <2>1, ReportType
  <2>3. StoreType'
    BY <1>13, <2>1, SaveFacts DEF SettleSave, TypeOK
  <2>4. moved \in TaskType /\ moved.turn = task.turn /\ moved.session = task.session
    BY DEF TypeOK, TaskType, TaskPcs
  <2>5. task' = [moved EXCEPT !.report = report]
    BY <1>13 DEF SettleSave
  <2> HIDE DEF settled, report, moved
  <2>6. task' \in TaskType /\ task'.turn = task.turn /\ task'.session = task.session
    BY <2>2, <2>4, <2>5 DEF TaskType
  <2> QED
    BY <1>13, <2>3, <2>6, TaskParts DEF SettleSave, TypeOK
<1>14. CASE FinishTurn
  <2>1. Event("TurnFinished", task.session, task.turn, task.report.outcome,
              task.report.uncertain) \in ServiceEvent
    BY <1>14 DEF FinishTurn, Event, ServiceEvent, TypeOK, TaskType
  <2>2. events' \in Seq(ServiceEvent) /\ Len(events') <= QueueCapacity
    BY <1>14, <2>1, SendType DEF FinishTurn, TypeOK
  <2>3. task' \in TaskType /\ task'.turn = task.turn /\ task'.session = task.session
    BY <1>14 DEF FinishTurn, TypeOK, TaskType, TaskPcs
  <2>4. stream' \in [open : Turns \cup {NoTurn}, last : Turns \cup {NoTurn}]
    BY <1>14 DEF FinishTurn, TypeOK
  <2> QED
    BY <1>14, <2>2, <2>3, <2>4, TaskParts DEF FinishTurn, TypeOK
<1> QED
  BY <1>1, <1>2, <1>3, <1>4, <1>5, <1>6, <1>7, <1>8, <1>9, <1>10, <1>11, <1>12,
     <1>13, <1>14 DEF TaskStep

\* A crash or a power loss leaves a typed start of the next process.
LEMMA DeathType == TypeOK /\ (Crash \/ PowerLoss) => TypeOK'
<1> SUFFICES ASSUME TypeOK, Crash \/ PowerLoss PROVE TypeOK'
  OBVIOUS
<1>1. NoTask \in TaskType /\ NoTask.pc = "none"
  BY SessionRecords
     DEF NoTask, NoPlan, NoReport, TaskType, TaskPcs, PlanType, Outcomes
<1>2. events' \in Seq(ServiceEvent) /\ Len(events') <= QueueCapacity
  <2>1. events' = <<>>
    BY DEF Crash, PowerLoss, ProcessDies
  <2> QED
    BY <2>1, BoundsAssumption
<1>3. StoreType'
  BY DEF Crash, PowerLoss, TypeOK, StoreType
<1>4. stream' \in [open : Turns \cup {NoTurn}, last : Turns \cup {NoTurn}]
  BY DEF Crash, PowerLoss, ProcessDies, TypeOK
<1> QED
  BY <1>1, <1>2, <1>3, <1>4 DEF Crash, PowerLoss, ProcessDies, TypeOK, StoreType

\* Every step keeps the types.
LEMMA NextType == TypeOK /\ [Next]_vars => TypeOK'
<1> SUFFICES ASSUME TypeOK, [Next]_vars PROVE TypeOK'
  OBVIOUS
<1>1. CASE UNCHANGED vars
  BY <1>1 DEF vars, TypeOK
<1> QED
  BY <1>1, CoordinatorType, InlineType, QueueType, ChildType, TaskStepType, DeathType
     DEF Next

\* Every variable of the service keeps its type; in particular the event channel
\* never holds more than its capacity (service.rs, EVENT_QUEUE_CAPACITY).
THEOREM TypeSafety == Spec => []TypeOK
BY InitType, NextType, PTL DEF Spec

-----------------------------------------------------------------------------
(* No session is created twice.                                            *)

\* A save that does not write Fresh leaves no new Fresh copy.
LEMMA SaveKeepsNoFresh ==
  ASSUME StoreType, NEW s \in Sessions, NEW new \in SessionRecord,
         NEW status \in CommitStatuses, Save(s, new, status),
         NEW z \in Sessions, NoFresh(z), z = s => new.lifecycle # "Fresh"
  PROVE  NoFresh(z)'
<1>1. /\ disk'[s] \in {disk[s], new}
      /\ durable'[s] \subseteq durable[s] \cup {new}
      /\ z # s => disk'[z] = disk[z] /\ durable'[z] = durable[z]
  BY SaveFacts DEF StoreType
<1>2. CASE z = s
  BY <1>1, <1>2 DEF NoFresh
<1>3. CASE z # s
  BY <1>1, <1>3 DEF NoFresh
<1> QED  BY <1>2, <1>3

\* A save keeps what is said of begun sessions, in every copy of the file.
LEMMA SaveKeepsBegun ==
  ASSUME StoreType, NEW s \in Sessions, NEW new \in SessionRecord,
         NEW status \in CommitStatuses, Save(s, new, status),
         NEW z \in Sessions, Begun(z),
         z = s => new.lifecycle \notin {"Fresh", "CreationPending"}
  PROVE  Begun(z)'
<1>1. /\ disk'[s] \in {disk[s], new}
      /\ z # s => disk'[z] = disk[z]
  BY SaveFacts DEF StoreType
<1> QED
  BY <1>1 DEF Begun

\* A save of a known session keeps the first part of the invariant, unless it
\* writes Fresh over a created one.
LEMMA SaveKeepsCreated ==
  ASSUME StoreType, NEW s \in Sessions, NEW new \in SessionRecord,
         NEW status \in CommitStatuses, Save(s, new, status),
         CreatedHasNoFreshCopy, UNCHANGED creations,
         registered \subseteq registered', s \in registered',
         registered' \subseteq registered \cup {s},
         creations[s] = 1 => new.lifecycle # "Fresh"
  PROVE  CreatedHasNoFreshCopy'
<1> SUFFICES ASSUME NEW z \in Sessions
             PROVE  /\ creations'[z] \in {0, 1}
                    /\ creations'[z] = 1 => z \in registered' /\ NoFresh(z)'
                    /\ z \notin registered' =>
                         /\ disk'[z].lifecycle = "Absent"
                         /\ \A r \in durable'[z] : r.lifecycle = "Absent"
  BY DEF CreatedHasNoFreshCopy, NoFresh
<1>1. creations'[z] \in {0, 1}
  BY DEF CreatedHasNoFreshCopy
<1>2. ASSUME creations'[z] = 1 PROVE z \in registered' /\ NoFresh(z)'
  <2>1. creations[z] = 1 /\ z \in registered /\ NoFresh(z)
    BY <1>2 DEF CreatedHasNoFreshCopy
  <2> QED
    BY <2>1, SaveKeepsNoFresh
<1>3. ASSUME z \notin registered'
      PROVE  disk'[z].lifecycle = "Absent" /\ \A r \in durable'[z] : r.lifecycle = "Absent"
  <2>1. z # s /\ z \notin registered
    BY <1>3
  <2>2. disk'[z] = disk[z] /\ durable'[z] = durable[z]
    BY <2>1, SaveFacts DEF StoreType
  <2> QED
    BY <2>1, <2>2 DEF CreatedHasNoFreshCopy
<1> QED
  BY <1>1, <1>2, <1>3

\* The same, for a settlement by the coordinator of a turn that was not
\* attempted.
LEMMA SettleAloneKeeps ==
  ASSUME StoreType, NEW s \in Sessions, NEW t \in Turns,
         NEW status \in CommitStatuses, SettleAlone(s, t, status),
         CreatedHasNoFreshCopy, UNCHANGED <<creations, registered>>, s \in registered,
         Begun(s) \/ creations[s] = 0
  PROVE  CreatedHasNoFreshCopy' /\ (Begun(s) => Begun(s)')
<1> DEFINE settled == Settled(disk[s], t, "Interrupted", FALSE)
<1>1. CASE Recorded(disk[s], t)
  <2>1. /\ settled \in SessionRecord
        /\ settled.lifecycle = IF disk[s].lifecycle = "CreationPending" THEN "Fresh"
                               ELSE disk[s].lifecycle
    BY SettledRecord DEF StoreType, Outcomes
  <2>2. Save(s, settled, status)
    BY <1>1 DEF SettleAlone
  <2> HIDE DEF settled
  <2>3. Begun(s) => settled.lifecycle \notin {"Fresh", "CreationPending"}
    BY <2>1 DEF Begun
  <2>4. creations[s] = 1 => settled.lifecycle # "Fresh"
    BY <2>3
  <2>5. CreatedHasNoFreshCopy'
    BY <2>1, <2>2, <2>4, SaveKeepsCreated
  <2>6. Begun(s) => Begun(s)'
    BY <2>1, <2>2, <2>3, SaveKeepsBegun
  <2> QED  BY <2>5, <2>6
<1>2. CASE ~Recorded(disk[s], t)
  BY <1>2 DEF SettleAlone, CreatedHasNoFreshCopy, NoFresh, Begun
<1> QED  BY <1>1, <1>2

\* At first no session was created.
LEMMA CreationInit == Init => CreationInv
BY SessionRecords
   DEF Init, CreationInv, CreatedHasNoFreshCopy, PreparedMayCreate, TaskMayCreate,
       CopyIsNotFresh, TaskRunning, NoTask

\* Steps that touch neither the files nor the creations.
LEMMA StoreFrame ==
  ASSUME UNCHANGED <<disk, durable, registered, creations>>
  PROVE  /\ CreatedHasNoFreshCopy => CreatedHasNoFreshCopy'
         /\ \A z \in Sessions : (NoFresh(z) => NoFresh(z)') /\ (Begun(z) => Begun(z)')
BY DEF CreatedHasNoFreshCopy, NoFresh, Begun

\* Steps of the coordinator that save one session while a task may run.
LEMMA SaveBesideTask ==
  ASSUME TypeOK, CreationInv, NEW s \in Sessions, NEW new \in SessionRecord,
         NEW status \in CommitStatuses, Save(s, new, status),
         prepared' = NoPrepared,
         UNCHANGED <<task, creations>>, registered' = registered \cup {s},
         s \in registered \/ creations[s] = 0,
         s \in registered => /\ NoFresh(s) => new.lifecycle # "Fresh"
                             /\ Begun(s) => new.lifecycle \notin {"Fresh", "CreationPending"}
  PROVE  CreationInv'
<1> USE DEF StoreType
<1>1. CreatedHasNoFreshCopy'
  <2>1. creations[s] = 1 => new.lifecycle # "Fresh"
    BY DEF CreationInv, CreatedHasNoFreshCopy
  <2>2. /\ registered \subseteq registered' /\ s \in registered'
        /\ registered' \subseteq registered \cup {s}
    OBVIOUS
  <2> QED
    BY <2>1, <2>2, SaveKeepsCreated DEF TypeOK, CreationInv
<1>2. PreparedMayCreate'
  BY DEF PreparedMayCreate
<1>3. TaskMayCreate'
  <2> SUFFICES ASSUME TaskRunning PROVE TaskMayCreate'
    BY DEF TaskMayCreate, TaskRunning
  <2>1. task.session \in Sessions /\ task.session \in registered
    BY DEF TypeOK, CreationInv, TaskMayCreate, TaskRunning
  <2>2. PICK z \in Sessions : z = task.session
    BY <2>1
  <2>3. z \in registered' /\ (z = s => s \in registered)
    BY <2>1, <2>2
  <2>4. NoFresh(z) => NoFresh(z)'
    BY <2>3, SaveKeepsNoFresh DEF TypeOK
  <2>5. Begun(z) => Begun(z)'
    BY <2>3, SaveKeepsBegun DEF TypeOK
  <2> QED
    BY <2>2, <2>3, <2>4, <2>5 DEF CreationInv, TaskMayCreate, TaskRunning, NoFresh, Begun
<1>4. CopyIsNotFresh'
  BY DEF CreationInv, CopyIsNotFresh
<1> QED
  BY <1>1, <1>2, <1>3, <1>4 DEF CreationInv

\* Preparing a turn claims a session's creation only while nobody has attempted it.
LEMMA PrepareKeepsCreation ==
  ASSUME TypeOK, CreationInv, NEW s \in Sessions, NEW commit \in CommitStatuses,
         NEW rollback \in CommitStatuses, PrepareTurn(s, commit, rollback)
  PROVE  CreationInv'
<1> DEFINE was    == disk[s].lifecycle
           pushed == [lifecycle |-> IF was = "Fresh" THEN "CreationPending" ELSE was,
                      turns |-> [disk[s].turns EXCEPT ![nextTurn] = "InProgress"]]
           undone == [lifecycle |-> was,
                      turns |-> [disk[s].turns EXCEPT ![nextTurn] = "Interrupted"]]
<1>1. /\ was \in {"Fresh", "Established", "CreationUncertain"}
      /\ prepared = NoPrepared /\ coord' = "idle" /\ task' = NoTask
      /\ UNCHANGED <<registered, creations>>
  BY DEF PrepareTurn
<1>2. /\ pushed.lifecycle = IF was = "Fresh" THEN "CreationPending" ELSE was
      /\ undone.lifecycle = was
  OBVIOUS
<1>3. s \in registered /\ creations[s] \in {0, 1}
  BY <1>1 DEF CreationInv, CreatedHasNoFreshCopy
<1>4. /\ disk'[s] \in {disk[s], pushed, undone}
      /\ durable'[s] \subseteq durable[s] \cup {pushed, undone}
      /\ commit = "verified" => disk'[s] = pushed /\ durable'[s] = {pushed}
      /\ \A z \in Sessions \ {s} : disk'[z] = disk[z] /\ durable'[z] = durable[z]
  <2>1. CASE commit = "verified"
    <3>1. Save(s, pushed, "verified")
      BY <2>1 DEF PrepareTurn
    <3>2. disk'[s] = pushed /\ durable'[s] = {pushed}
      BY <3>1 DEF Save, Visible, Survivors, TypeOK
    <3>3. \A z \in Sessions \ {s} : disk'[z] = disk[z] /\ durable'[z] = durable[z]
      BY <3>1 DEF Save, TypeOK
    <3> QED  BY <3>2, <3>3
  <2>2. CASE commit # "verified"
    <3> DEFINE d == Visible(Visible(disk[s], pushed, commit), undone, rollback)
               u == Survivors(Survivors(durable[s], pushed, commit), undone, rollback)
    <3>1. /\ disk' = [disk EXCEPT ![s] = d]
          /\ durable' = [durable EXCEPT ![s] = u]
      BY <2>2 DEF PrepareTurn, TypeOK
    <3>2. d \in {disk[s], pushed, undone}
      BY DEF Visible
    <3>3. u \subseteq durable[s] \cup {pushed, undone}
      BY DEF Survivors, CommitStatuses
    <3> HIDE DEF d, u
    <3> QED
      BY <2>2, <3>1, <3>2, <3>3 DEF TypeOK
  <2> QED  BY <2>1, <2>2
<1> HIDE DEF pushed, undone
<1>5. creations[s] = 1 => was # "Fresh"
  BY DEF CreationInv, CreatedHasNoFreshCopy, NoFresh
<1>6. CreatedHasNoFreshCopy'
  <2> SUFFICES ASSUME NEW z \in Sessions
               PROVE  /\ creations'[z] \in {0, 1}
                      /\ creations'[z] = 1 => z \in registered' /\ NoFresh(z)'
                      /\ z \notin registered' =>
                           /\ disk'[z].lifecycle = "Absent"
                           /\ \A r \in durable'[z] : r.lifecycle = "Absent"
    BY DEF CreatedHasNoFreshCopy, NoFresh
  <2>1. CASE z = s
    BY <1>1, <1>2, <1>3, <1>4, <1>5, <2>1 DEF CreationInv, CreatedHasNoFreshCopy, NoFresh
  <2>2. CASE z # s
    BY <1>1, <1>4, <2>2 DEF CreationInv, CreatedHasNoFreshCopy, NoFresh
  <2> QED  BY <2>1, <2>2
<1>7. PreparedMayCreate'
  <2> SUFFICES ASSUME prepared' # NoPrepared
               PROVE  /\ task'.pc = "none" /\ s \in registered'
                      /\ prepared'.session = s
                      /\ prepared'.new => /\ prepared'.verified /\ creations'[s] = 0
                                          /\ NoFresh(s)'
                      /\ ~prepared'.new => Begun(s)'
    BY <1>1 DEF PreparedMayCreate, NoFresh, Begun
  <2>1. /\ prepared'.session = s /\ prepared'.new = (was = "Fresh")
        /\ prepared'.verified = (commit = "verified")
        /\ commit = "verified" \/ was = "CreationUncertain"
    BY DEF PrepareTurn
  <2>2. task'.pc = "none" /\ s \in registered'
    BY <1>1, <1>3 DEF NoTask
  <2>3. ASSUME was = "Fresh"
        PROVE  commit = "verified" /\ creations'[s] = 0 /\ NoFresh(s)'
    BY <1>1, <1>2, <1>3, <1>4, <1>5, <2>1, <2>3 DEF NoFresh
  <2>4. ASSUME was # "Fresh"
        PROVE  Begun(s)'
    BY <1>1, <1>2, <1>4, <2>4 DEF Begun
  <2> QED  BY <2>1, <2>2, <2>3, <2>4
<1>8. TaskMayCreate' /\ CopyIsNotFresh'
  BY <1>1 DEF TaskMayCreate, CopyIsNotFresh, TaskRunning, NoTask
<1> QED
  BY <1>6, <1>7, <1>8 DEF CreationInv

\* The coordinator's steps keep the creation invariant.
LEMMA CoordinatorKeepsCreation == TypeOK /\ CreationInv /\ CoordinatorStep => CreationInv'
<1> SUFFICES ASSUME TypeOK, CreationInv, CoordinatorStep PROVE CreationInv'
  OBVIOUS
<1> USE DEF vars, storeVars
<1>1. ASSUME NEW s \in Sessions, NEW status \in CommitStatuses, CreateSession(s, status)
      PROVE  CreationInv'
  <2>1. s \notin registered /\ creations[s] = 0
    BY <1>1 DEF CreateSession, CreationInv, CreatedHasNoFreshCopy
  <2> QED
    BY <1>1, <2>1, SessionRecords, SaveBesideTask DEF CreateSession
<1>2. ASSUME NEW s \in Sessions, NEW status \in CommitStatuses, LoadSession(s, status)
      PROVE  CreationInv'
  <2>1. s \in registered /\ registered' = registered \cup {s}
    BY <1>2 DEF LoadSession, CreationInv, CreatedHasNoFreshCopy
  <2>2. Repaired(disk[s]) \in SessionRecord
    BY RepairedRecord DEF TypeOK
  <2>3. /\ NoFresh(s) => Repaired(disk[s]).lifecycle # "Fresh"
        /\ Begun(s) => Repaired(disk[s]).lifecycle \notin {"Fresh", "CreationPending"}
    BY RepairedRecord DEF TypeOK, NoFresh, Begun
  <2> QED
    BY <1>2, <2>1, <2>2, <2>3, SaveBesideTask DEF LoadSession
<1>3. ASSUME NEW s \in Sessions, NEW synced \in BOOLEAN, DeleteSession(s, synced)
      PROVE  CreationInv'
  <2>1. s \in registered /\ registered' = registered \cup {s}
    BY <1>3 DEF DeleteSession, CreationInv, CreatedHasNoFreshCopy
  <2>2. PICK status \in CommitStatuses : Save(s, AbsentRecord, status)
    BY <1>3 DEF DeleteSession, CommitStatuses
  <2> QED
    BY <1>3, <2>1, <2>2, SessionRecords, SaveBesideTask DEF DeleteSession
<1>4. ASSUME NEW s \in Sessions, NEW commit \in CommitStatuses,
             NEW rollback \in CommitStatuses, PrepareTurn(s, commit, rollback)
      PROVE  CreationInv'
  BY <1>4, PrepareKeepsCreation
<1>5. ASSUME NEW status \in CommitStatuses, LaunchRefused(status)
      PROVE  CreationInv'
  <2>1. prepared # NoPrepared /\ prepared \in PreparedType
    BY <1>5 DEF LaunchRefused, TypeOK
  <2>2. PICK s \in Sessions, t \in Turns : s = prepared.session /\ t = prepared.turn
    BY <2>1 DEF PreparedType
  <2>3. /\ task.pc = "none" /\ s \in registered
        /\ Begun(s) \/ creations[s] = 0
    BY <2>1, <2>2 DEF CreationInv, PreparedMayCreate, PreparedType, Begun
  <2>4. SettleAlone(s, t, status) /\ UNCHANGED <<creations, registered>>
    BY <1>5, <2>2 DEF LaunchRefused
  <2>5. CreatedHasNoFreshCopy'
    BY <2>3, <2>4, SettleAloneKeeps DEF TypeOK, StoreType, CreationInv
  <2> QED
    BY <1>5, <2>3, <2>5
       DEF LaunchRefused, CreationInv, PreparedMayCreate, TaskMayCreate, CopyIsNotFresh,
           TaskRunning
<1>6. CASE LaunchTask
  <2>1. prepared # NoPrepared /\ prepared \in PreparedType
    BY <1>6 DEF LaunchTask, TypeOK
  <2>2. /\ task'.pc = "start" /\ task'.new = prepared.new
        /\ task'.session = prepared.session
    BY <1>6 DEF LaunchTask, TaskOf, NoTask
  <2>3. UNCHANGED <<disk, durable, registered, creations>> /\ prepared' = NoPrepared
    BY <1>6 DEF LaunchTask
  <2>4. TaskMayCreate'
    BY <2>1, <2>2, <2>3
       DEF CreationInv, PreparedMayCreate, TaskMayCreate, NoFresh, Begun
  <2> QED
    BY <2>2, <2>3, <2>4, StoreFrame DEF CreationInv, PreparedMayCreate, CopyIsNotFresh
<1>7. CASE LaunchInline
  <2>1. UNCHANGED <<disk, durable, registered, creations, task, prepared>>
    BY <1>7 DEF LaunchInline
  <2> QED
    BY <1>7, <2>1, StoreFrame
       DEF LaunchInline, CreationInv, PreparedMayCreate, TaskMayCreate, CopyIsNotFresh,
           TaskRunning, NoFresh, Begun
<1>8. ASSUME InterruptTurn \/ \E latch \in BOOLEAN : BeginDrain(latch)
      PROVE  CreationInv'
  <2>1. /\ UNCHANGED <<disk, durable, registered, creations, prepared>>
        /\ task'.pc = task.pc /\ task'.new = task.new /\ task'.session = task.session
        /\ task'.plan = task.plan /\ task'.copy = task.copy
        /\ coord' \in {"idle", "draining"}
    BY <1>8 DEF InterruptTurn, BeginDrain, TypeOK, TaskType
  <2> QED
    BY <2>1, StoreFrame
       DEF CreationInv, PreparedMayCreate, TaskMayCreate, CopyIsNotFresh, TaskRunning,
           NoFresh, Begun
<1>9. CASE PrepareRefused
  <2>1. UNCHANGED <<disk, durable, registered, creations, prepared>> /\ task' = NoTask
    BY <1>9 DEF PrepareRefused
  <2> QED
    BY <1>9, <2>1, StoreFrame
       DEF PrepareRefused, CreationInv, PreparedMayCreate, TaskMayCreate, CopyIsNotFresh,
           TaskRunning, NoTask
<1> QED
  BY <1>1, <1>2, <1>3, <1>4, <1>5, <1>6, <1>7, <1>8, <1>9 DEF CoordinatorStep

\* A turn that was not launched created nothing (finish_prepared_before_launch).
LEMMA InlineKeepsCreation == TypeOK /\ CreationInv /\ InlineStep => CreationInv'
<1> SUFFICES ASSUME TypeOK, CreationInv, InlineStep PROVE CreationInv'
  OBVIOUS
<1> USE DEF vars, storeVars
<1>1. CASE InlineStart \/ InlineFinish
  <2>1. /\ UNCHANGED <<disk, durable, registered, creations, task>>
        /\ prepared' = NoPrepared \/ prepared' = prepared
        /\ coord \in {"inlineStart", "inlineFinish"}
    BY <1>1 DEF InlineStart, InlineFinish
  <2> QED
    BY <2>1, StoreFrame
       DEF CreationInv, PreparedMayCreate, TaskMayCreate, CopyIsNotFresh, TaskRunning,
           NoFresh, Begun
<1>2. ASSUME NEW status \in CommitStatuses, InlineSettle(status)
      PROVE  CreationInv'
  <2>1. prepared # NoPrepared /\ prepared \in PreparedType
    BY <1>2 DEF InlineSettle, TypeOK
  <2>2. PICK s \in Sessions, t \in Turns : s = prepared.session /\ t = prepared.turn
    BY <2>1 DEF PreparedType
  <2>3. /\ task.pc = "none" /\ s \in registered
        /\ Begun(s) /\ ~prepared.new /\ ~prepared.verified
    BY <1>2, <2>1, <2>2 DEF InlineSettle, CreationInv, PreparedMayCreate, PreparedType, Begun
  <2>4. SettleAlone(s, t, status) /\ UNCHANGED <<creations, registered, prepared, task>>
    BY <1>2, <2>2 DEF InlineSettle
  <2>5. CreatedHasNoFreshCopy' /\ Begun(s)'
    BY <2>3, <2>4, SettleAloneKeeps DEF TypeOK, StoreType, CreationInv
  <2> QED
    BY <2>2, <2>3, <2>4, <2>5
       DEF CreationInv, PreparedMayCreate, TaskMayCreate, CopyIsNotFresh, TaskRunning, Begun
<1> QED
  BY <1>1, <1>2 DEF InlineStep

\* Draining and receiving touch no file and create nothing.
LEMMA QueueKeepsCreation ==
  TypeOK /\ CreationInv /\ (DrainStep \/ NextEvent) => CreationInv'
<1> SUFFICES ASSUME TypeOK, CreationInv, DrainStep \/ NextEvent PROVE CreationInv'
  OBVIOUS
<1>1. /\ UNCHANGED <<disk, durable, registered, creations, prepared>>
      /\ task' = task \/ task' = NoTask
      /\ coord' \in {"idle", coord}
  BY DEF DrainStep, NextEvent, DrainReceive, DrainJoined, storeVars
<1>2. NoTask.pc = "none"
  BY DEF NoTask
<1> QED
  BY <1>1, <1>2, StoreFrame
     DEF CreationInv, PreparedMayCreate, TaskMayCreate, CopyIsNotFresh, TaskRunning,
         NoFresh, Begun

\* A crash keeps the files, a power loss one of their copies: the invariant speaks of them all.
LEMMA DeathKeepsCreation == TypeOK /\ CreationInv /\ (Crash \/ PowerLoss) => CreationInv'
<1> SUFFICES ASSUME TypeOK, CreationInv, Crash \/ PowerLoss PROVE CreationInv'
  OBVIOUS
<1>1. /\ prepared' = NoPrepared /\ task' = NoTask
      /\ UNCHANGED <<registered, creations>>
  BY DEF Crash, PowerLoss, ProcessDies
<1>2. PreparedMayCreate' /\ TaskMayCreate' /\ CopyIsNotFresh'
  BY <1>1 DEF PreparedMayCreate, TaskMayCreate, CopyIsNotFresh, TaskRunning, NoTask
<1>3. CASE Crash
  BY <1>1, <1>2, <1>3, StoreFrame DEF Crash, CreationInv
<1>4. CASE PowerLoss
  <2>1. \A z \in Sessions : disk'[z] \in durable[z] /\ durable'[z] = {disk'[z]}
    BY <1>4 DEF PowerLoss
  <2>2. CreatedHasNoFreshCopy'
    BY <1>1, <2>1 DEF CreationInv, CreatedHasNoFreshCopy, NoFresh
  <2> QED
    BY <1>2, <2>2 DEF CreationInv
<1> QED  BY <1>3, <1>4

\* While a task exists, no turn is prepared.
LEMMA NothingPrepared ==
  ASSUME CreationInv, task.pc # "none", TaskKeeps
  PROVE  prepared' = NoPrepared /\ PreparedMayCreate'
BY DEF CreationInv, PreparedMayCreate, TaskKeeps

\* Starting the child with --session-id: it is the session's first creation and
\* no Fresh copy is left.
LEMMA CountCreationKeeps ==
  ASSUME TypeOK, CreationInv, task.pc = "spawn", TaskKeeps,
         UNCHANGED <<disk, durable>>, CountCreation
  PROVE  CreatedHasNoFreshCopy'
<1>1. PICK s \in Sessions : s = task.session
  BY DEF TypeOK
<1>2. TaskRunning /\ s \in registered
  BY <1>1 DEF TaskRunning, CreationInv, TaskMayCreate
<1>3. task.new => creations[s] = 0 /\ NoFresh(s)
  BY <1>1, <1>2 DEF CreationInv, TaskMayCreate
<1>4. \A z \in Sessions : \/ creations'[z] = creations[z]
                          \/ z = s /\ task.new /\ creations'[z] = creations[z] + 1
  BY <1>1 DEF CountCreation, TypeOK
<1> QED
  BY <1>2, <1>3, <1>4 DEF CreationInv, CreatedHasNoFreshCopy, NoFresh, TaskKeeps

\* A step that moves the task to its settlement.  If it was not attempted, no
\* child was started with this session as a new one.
LEMMA PlanKeepsCreation ==
  ASSUME TypeOK, CreationInv, TaskRunning, task.pc # "finish", TaskKeeps,
         UNCHANGED <<disk, durable>>, CreatedHasNoFreshCopy',
         NEW outcome \in Outcomes, NEW attempted \in BOOLEAN,
         NEW fallback \in BOOLEAN, NEW sticky \in BOOLEAN, NEW failed \in BOOLEAN,
         Plan(outcome, attempted, fallback, sticky, failed),
         ~attempted => task.pc = "spawn" /\ UNCHANGED creations
  PROVE  CreationInv'
<1>1. task.pc # "none"
  BY DEF TaskRunning
<1>2. /\ task'.pc = "settleLoad" /\ task'.plan.attempted = attempted
      /\ task'.new = task.new /\ task'.session = task.session
  BY <1>1, PlanTypeOK
<1>3. TaskMayCreate'
  BY <1>2 DEF CreationInv, TaskMayCreate, TaskRunning, TaskKeeps, NoFresh, Begun
<1>4. CopyIsNotFresh'
  BY <1>2 DEF CopyIsNotFresh
<1> QED
  BY <1>1, <1>3, <1>4, NothingPrepared DEF CreationInv

\* A step of the task that leaves the files alone and stays clear of the
\* settlement.
LEMMA MoveKeepsCreation ==
  ASSUME TypeOK, CreationInv, TaskRunning, TaskKeeps, UNCHANGED <<disk, durable>>,
         CreatedHasNoFreshCopy',
         task'.new = task.new, task'.session = task.session,
         task.pc # "finish" \/ task'.pc = "done",
         task'.pc \notin {"start", "settleLoad", "settleSave"},
         task'.pc = "spawn" => task.pc = "start" /\ UNCHANGED creations
  PROVE  CreationInv'
<1>1. task.pc # "none"
  BY DEF TaskRunning
<1>2. TaskMayCreate'
  BY DEF CreationInv, TaskMayCreate, TaskRunning, TaskKeeps, NoFresh, Begun
<1>3. CopyIsNotFresh'
  BY DEF CopyIsNotFresh
<1> QED
  BY <1>1, <1>2, <1>3, NothingPrepared DEF CreationInv

\* Only the first line of a child shows that a creation happened.
LEMMA ChildKeepsCreation == TypeOK /\ CreationInv /\ ChildStep => CreationInv'
<1> SUFFICES ASSUME TypeOK, CreationInv, ChildStep PROVE CreationInv'
  OBVIOUS
<1>1. /\ task.pc = "running" /\ TaskRunning /\ TaskKeeps
      /\ UNCHANGED <<disk, durable, creations>>
  BY DEF ChildStep, ChildInitialized, ChildDelta, ChildTerminal, ChildEof, ChildError,
         TaskRunning
<1>2. CreatedHasNoFreshCopy'
  BY <1>1, StoreFrame DEF CreationInv, TaskKeeps
<1>3. CASE ChildError
  BY <1>1, <1>2, <1>3, PlanKeepsCreation
     DEF ChildError, PlanFailure, Unestablished, TypeOK, TaskType, Outcomes
<1>4. CASE ~ChildError
  <2>1. /\ task'.pc \in {"initLoad", "sendDelta", "running", "finishing"}
        /\ task'.new = task.new /\ task'.session = task.session
    <3>1. CASE ChildInitialized
      BY <3>1 DEF ChildInitialized, TypeOK, TaskType
    <3>2. CASE ChildDelta
      BY <3>2 DEF ChildDelta, TypeOK, TaskType
    <3>3. CASE ChildEof
      BY <3>3 DEF ChildEof, TypeOK, TaskType
    <3>4. ASSUME NEW result, ChildTerminal(result)
          PROVE  /\ task'.pc \in {"initLoad", "sendDelta", "running", "finishing"}
                 /\ task'.new = task.new /\ task'.session = task.session
      BY <3>4 DEF ChildTerminal, TypeOK, TaskType
    <3> QED BY <1>4, <3>1, <3>2, <3>3, <3>4 DEF ChildStep
  <2> QED
    BY <1>1, <1>2, <2>1, MoveKeepsCreation
<1> QED  BY <1>3, <1>4

\* Where the end of persist_initialized leaves the task.
LEMMA InitSaveMoves ==
  ASSUME TypeOK, NEW status, InitSave(status)
  PROVE  /\ task.pc = "initSave" /\ TaskKeeps /\ UNCHANGED <<events, creations, stream>>
         /\ task'.turn = task.turn /\ task'.session = task.session
         /\ task'.new = task.new /\ task'.recovering = task.recovering
         /\ status = "verified" => task'.pc = "sendInitialized"
         /\ status # "verified" => task'.pc = "settleLoad" /\ task'.plan.attempted
<1>1. task \in TaskType
  BY DEF TypeOK
<1>2. task.pc = "initSave" /\ TaskKeeps /\ UNCHANGED <<events, creations, stream>>
  BY DEF InitSave
<1>3. CASE status = "verified"
  <2>1. task' = [task EXCEPT !.pc = "sendInitialized", !.established = TRUE]
    BY <1>3 DEF InitSave
  <2> QED BY <1>1, <1>2, <1>3, <2>1 DEF TaskType
<1>4. CASE status # "verified"
  <2>1. PlanFailure(TRUE, task.new \/ task.recovering)
    BY <1>4 DEF InitSave
  <2> DEFINE plan == [outcome |-> "Failed", attempted |-> TRUE,
                      fallback |-> task.new \/ task.recovering,
                      sticky |-> TRUE, failed |-> FALSE]
  <2>2. task' = [task EXCEPT !.pc = "settleLoad", !.plan = plan] /\ plan.attempted
    BY <2>1 DEF PlanFailure, Plan
  <2> HIDE DEF plan
  <2> QED BY <1>1, <1>2, <1>4, <2>2 DEF TaskType
<1> QED BY <1>3, <1>4

\* The task's own saves: persist_initialized writes Established, settle_record
\* writes Fresh only over a session no child was started for.
LEMMA InitSaveKeepsCreation ==
  ASSUME TypeOK, CreationInv, NEW status \in CommitStatuses, InitSave(status)
  PROVE  CreationInv'
<1> DEFINE new == [task.copy EXCEPT !.lifecycle = "Established"]
<1>1. new \in SessionRecord /\ new.lifecycle = "Established"
  BY DEF TypeOK, TaskType, SessionRecord, Lifecycles
<1>2. /\ task.pc = "initSave" /\ TaskRunning /\ TaskKeeps /\ UNCHANGED creations
      /\ Save(task.session, new, status)
  BY DEF InitSave, TaskRunning
<1> HIDE DEF new
<1>3. PICK s \in Sessions : s = task.session
  BY <1>2 DEF TypeOK
<1>4. s \in registered
  BY <1>2, <1>3 DEF CreationInv, TaskMayCreate
<1>5. CreatedHasNoFreshCopy'
  <2>1. Save(s, new, status) /\ registered' = registered
    BY <1>2, <1>3 DEF TaskKeeps
  <2> QED
    BY <1>1, <1>2, <1>4, <2>1, SaveKeepsCreated DEF TypeOK, StoreType, CreationInv
<1>6. /\ NoFresh(s) => NoFresh(s)'
      /\ Begun(s) => Begun(s)'
  BY <1>1, <1>2, <1>3, SaveKeepsNoFresh, SaveKeepsBegun DEF TypeOK, StoreType
<1>7. /\ task'.pc \in {"sendInitialized", "settleLoad"}
      /\ task'.new = task.new /\ task'.session = task.session
      /\ task'.pc = "settleLoad" => task'.plan.attempted
  BY InitSaveMoves
<1>8. TaskMayCreate' /\ CopyIsNotFresh'
  BY <1>2, <1>3, <1>4, <1>6, <1>7
     DEF CreationInv, TaskMayCreate, CopyIsNotFresh, TaskRunning, TaskKeeps, NoFresh, Begun
<1> QED
  BY <1>2, <1>5, <1>8, NothingPrepared DEF CreationInv

\* The save of a settlement keeps the invariant (settle_record).
LEMMA SettleSaveKeepsCreation ==
  ASSUME TypeOK, CreationInv, NEW status \in CommitStatuses, SettleSave(status)
  PROVE  CreationInv'
<1> DEFINE new == Settled(task.copy, task.turn, task.plan.outcome, task.plan.attempted)
<1>1. /\ task.copy \in SessionRecord /\ task.turn \in Turns
      /\ task.plan.outcome \in Outcomes /\ task.plan.attempted \in BOOLEAN
  BY DEF SettleSave, TypeOK, TaskType, PlanType
<1>2. /\ new \in SessionRecord
      /\ new.lifecycle = IF task.copy.lifecycle = "CreationPending"
                         THEN IF task.plan.attempted THEN "CreationUncertain" ELSE "Fresh"
                         ELSE task.copy.lifecycle
  BY <1>1, SettledRecord
<1>3. /\ task.pc = "settleSave" /\ TaskRunning /\ TaskKeeps /\ UNCHANGED creations
      /\ Save(task.session, new, status)
  BY DEF SettleSave, TaskRunning
<1>4. /\ task'.pc = "finish" /\ task'.new = task.new /\ task'.session = task.session
  BY DEF SettleSave, TypeOK, TaskType
<1> HIDE DEF new
<1>5. PICK s \in Sessions : s = task.session
  BY <1>3 DEF TypeOK
<1>6. s \in registered
  BY <1>3, <1>5 DEF CreationInv, TaskMayCreate
<1>7. /\ ~task.new => new.lifecycle \notin {"Fresh", "CreationPending"}
      /\ creations[s] = 1 => new.lifecycle # "Fresh"
  BY <1>2, <1>3, <1>5 DEF CreationInv, TaskMayCreate, CopyIsNotFresh, TypeOK, TaskType
<1>8. CreatedHasNoFreshCopy'
  <2>1. Save(s, new, status) /\ registered' = registered
    BY <1>3, <1>5 DEF TaskKeeps
  <2> QED
    BY <1>2, <1>3, <1>6, <1>7, <2>1, SaveKeepsCreated DEF TypeOK, StoreType, CreationInv
<1>9. ~task.new => Begun(s)'
  <2>1. ~task.new => Begun(s)
    BY <1>3, <1>5 DEF CreationInv, TaskMayCreate
  <2> QED
    BY <1>2, <1>3, <1>5, <1>7, <2>1, SaveKeepsBegun DEF TypeOK, StoreType
<1>10. TaskMayCreate' /\ CopyIsNotFresh'
  BY <1>3, <1>4, <1>5, <1>6, <1>9 DEF TaskMayCreate, CopyIsNotFresh, TaskKeeps, Begun
<1> QED
  BY <1>3, <1>8, <1>10, NothingPrepared DEF CreationInv, TaskRunning

\* The task's own steps keep the creation invariant (run_turn).
LEMMA TaskStepKeepsCreation == TypeOK /\ CreationInv /\ TaskStep => CreationInv'
<1> SUFFICES ASSUME TypeOK, CreationInv, TaskStep PROVE CreationInv'
  OBVIOUS
<1>f. /\ task.new \in BOOLEAN /\ task.recovering \in BOOLEAN /\ Unestablished \in BOOLEAN
      /\ "Failed" \in Outcomes /\ "Interrupted" \in Outcomes
  BY DEF TypeOK, TaskType, Unestablished, Outcomes
<1>1. CASE StartTurn \/ SendDelta \/ SendInitialized \/ FinishTurn
  <2>1. /\ TaskRunning /\ TaskKeeps /\ UNCHANGED <<disk, durable, creations>>
        /\ task'.new = task.new /\ task'.session = task.session
        /\ \/ task.pc = "start" /\ task'.pc = "spawn"
           \/ task.pc \in {"sendDelta", "sendInitialized"} /\ task'.pc = "running"
           \/ task'.pc = "done"
    BY <1>1 DEF StartTurn, SendDelta, SendInitialized, FinishTurn, TaskRunning, TypeOK,
                TaskType
  <2>2. CreatedHasNoFreshCopy'
    BY <2>1, StoreFrame DEF CreationInv, TaskKeeps
  <2> QED
    BY <2>1, <2>2, MoveKeepsCreation
<1>2. CASE Spawned
  <2>1. /\ task.pc = "spawn" /\ TaskRunning /\ TaskKeeps /\ UNCHANGED <<disk, durable>>
        /\ CountCreation /\ task'.pc = "running"
        /\ task'.new = task.new /\ task'.session = task.session
    BY <1>2 DEF Spawned, TaskRunning, TypeOK, TaskType
  <2>2. CreatedHasNoFreshCopy'
    BY <2>1, CountCreationKeeps
  <2> QED
    BY <2>1, <2>2, MoveKeepsCreation
<1>3. ASSUME NEW ran \in BOOLEAN, NEW attempted \in BOOLEAN, ran => attempted,
             (SpawnCancelled(ran) /\ ran = attempted) \/ SpawnFailed(ran, attempted)
      PROVE  CreationInv'
  <2>1. /\ task.pc = "spawn" /\ TaskRunning /\ TaskKeeps /\ UNCHANGED <<disk, durable>>
        /\ IF ran THEN CountCreation ELSE UNCHANGED creations
    BY <1>3 DEF SpawnCancelled, SpawnFailed, TaskRunning
  <2>2. CreatedHasNoFreshCopy'
    <3>1. CASE ran
      BY <2>1, <3>1, CountCreationKeeps
    <3>2. CASE ~ran
      BY <2>1, <3>2, StoreFrame DEF CreationInv, TaskKeeps
    <3> QED  BY <3>1, <3>2
  <2>3. /\ (task.recovering \/ (task.new /\ attempted)) \in BOOLEAN
        /\ \E outcome \in Outcomes, sticky \in BOOLEAN :
             Plan(outcome, attempted, task.recovering \/ (task.new /\ attempted), sticky, FALSE)
    BY <1>3, <1>f DEF SpawnCancelled, SpawnFailed, PlanFailure
  <2>4. ~attempted => task.pc = "spawn" /\ UNCHANGED creations
    BY <1>3, <2>1
  <2> QED
    BY <2>1, <2>2, <2>3, <2>4, PlanKeepsCreation
<1>4. ASSUME NEW processFailed \in BOOLEAN,
             CancelRunning(processFailed) \/ CancelFinishing
      PROVE  CreationInv'
  <2>1. /\ task.pc \in {"running", "finishing"} /\ TaskRunning /\ TaskKeeps
        /\ UNCHANGED <<disk, durable, creations>>
        /\ \E failed \in BOOLEAN : Plan("Interrupted", TRUE, Unestablished, FALSE, failed)
    BY <1>4 DEF CancelRunning, CancelFinishing, PlanInterrupted, TaskRunning
  <2>2. CreatedHasNoFreshCopy'
    BY <2>1, StoreFrame DEF CreationInv, TaskKeeps
  <2> QED
    BY <1>f, <2>1, <2>2, PlanKeepsCreation
<1>5. ASSUME NEW readable \in BOOLEAN, InitLoad(readable)
      PROVE  CreationInv'
  <2>1. /\ task.pc = "initLoad" /\ TaskRunning /\ TaskKeeps
        /\ UNCHANGED <<disk, durable, creations>>
    BY <1>5 DEF InitLoad, TaskRunning
  <2>2. CreatedHasNoFreshCopy'
    BY <2>1, StoreFrame DEF CreationInv, TaskKeeps
  <2>3. CASE readable /\ disk[task.session].lifecycle # "Absent"
    <3>1. task'.pc = "initSave" /\ task'.new = task.new /\ task'.session = task.session
      BY <1>5, <2>3 DEF InitLoad, TypeOK, TaskType
    <3> QED
      BY <2>1, <2>2, <3>1, MoveKeepsCreation
  <2>4. CASE ~(readable /\ disk[task.session].lifecycle # "Absent")
    <3>1. Plan("Failed", TRUE, task.new \/ task.recovering, TRUE, FALSE)
      BY <1>5, <2>4 DEF InitLoad, PlanFailure
    <3>2. (task.new \/ task.recovering) \in BOOLEAN
      BY <1>f
    <3> QED
      BY <1>f, <2>1, <2>2, <3>1, <3>2, PlanKeepsCreation
  <2> QED  BY <2>3, <2>4
<1>6. ASSUME NEW status \in CommitStatuses, InitSave(status)
      PROVE  CreationInv'
  BY <1>6, InitSaveKeepsCreation
<1>7. ASSUME NEW ok \in BOOLEAN, ChildExit(ok)
      PROVE  CreationInv'
  <2>1. /\ task.pc = "finishing" /\ TaskRunning /\ TaskKeeps
        /\ UNCHANGED <<disk, durable, creations>>
        /\ \E outcome \in Outcomes : Plan(outcome, TRUE, Unestablished, FALSE, FALSE)
    BY <1>7 DEF ChildExit, TaskRunning, Outcomes
  <2>2. CreatedHasNoFreshCopy'
    BY <2>1, StoreFrame DEF CreationInv, TaskKeeps
  <2> QED
    BY <1>f, <2>1, <2>2, PlanKeepsCreation
<1>8. ASSUME NEW readable \in BOOLEAN, SettleLoad(readable)
      PROVE  CreationInv'
  <2>1. /\ task.pc = "settleLoad" /\ TaskRunning /\ TaskKeeps
        /\ UNCHANGED <<disk, durable, creations>>
    BY <1>8 DEF SettleLoad, TaskRunning
  <2>2. CreatedHasNoFreshCopy'
    BY <2>1, StoreFrame DEF CreationInv, TaskKeeps
  <2>3. CASE readable /\ Recorded(disk[task.session], task.turn)
    <3>1. /\ task'.pc = "settleSave" /\ task'.new = task.new
          /\ task'.session = task.session /\ task'.plan = task.plan
          /\ task'.copy = disk[task.session]
      BY <1>8, <2>3 DEF SettleLoad, TypeOK, TaskType
    <3>2. TaskMayCreate' /\ CopyIsNotFresh'
      BY <2>1, <3>1
         DEF CreationInv, TaskMayCreate, CopyIsNotFresh, TaskRunning, TaskKeeps, NoFresh,
             Begun, TypeOK, TaskType
    <3> QED
      BY <2>1, <2>2, <3>2, NothingPrepared DEF CreationInv
  <2>4. CASE ~(readable /\ Recorded(disk[task.session], task.turn))
    <3>1. task'.pc = "finish" /\ task'.new = task.new /\ task'.session = task.session
      BY <1>8, <2>4 DEF SettleLoad, TypeOK, TaskType
    <3> QED
      BY <2>1, <2>2, <3>1, MoveKeepsCreation
  <2> QED  BY <2>3, <2>4
<1>9. ASSUME NEW status \in CommitStatuses, SettleSave(status)
      PROVE  CreationInv'
  BY <1>9, SettleSaveKeepsCreation
<1> QED
  BY <1>1, <1>2, <1>3, <1>4, <1>5, <1>6, <1>7, <1>8, <1>9 DEF TaskStep, SpawnFailed

\* Every step keeps the creation invariant.
LEMMA NextKeepsCreation == TypeOK /\ CreationInv /\ [Next]_vars => CreationInv'
<1> SUFFICES ASSUME TypeOK, CreationInv, [Next]_vars PROVE CreationInv'
  OBVIOUS
<1>1. CASE UNCHANGED vars
  BY <1>1 DEF vars, storeVars, CreationInv, CreatedHasNoFreshCopy, PreparedMayCreate,
              TaskMayCreate, CopyIsNotFresh, TaskRunning, NoFresh, Begun
<1> QED
  BY <1>1, CoordinatorKeepsCreation, InlineKeepsCreation, QueueKeepsCreation,
     ChildKeepsCreation, TaskStepKeepsCreation, DeathKeepsCreation DEF Next

\* The claim on a session's creation, and the absence of any Fresh copy once it
\* was used, hold in every reachable state.
THEOREM CreationClaimed == Spec => []CreationInv
<1>1. Init => CreationInv
  BY CreationInit
<1>2. TypeOK /\ CreationInv /\ [Next]_vars => CreationInv'
  BY NextKeepsCreation
<1> QED
  BY <1>1, <1>2, TypeSafety, PTL DEF Spec

\* For any number of sessions and turns and any queue capacity, the service gives
\* a session id to the CLI as a new one at most once: interrupts, failed or
\* unverified saves, deletions, crashes and power losses included.
THEOREM NoSecondCreation == Spec => []CreatedAtMostOnce
<1>1. CreationInv => CreatedAtMostOnce
  <2> SUFFICES ASSUME CreationInv, NEW s \in Sessions PROVE creations[s] <= 1
    BY DEF CreatedAtMostOnce
  <2>1. creations[s] \in {0, 1}
    BY DEF CreationInv, CreatedHasNoFreshCopy
  <2> QED
    BY <2>1
<1> QED
  BY <1>1, CreationClaimed, PTL

-----------------------------------------------------------------------------
(* What is on record, and what was said of it.                             *)

Usable(r) == r.lifecycle \in {"Established", "Absent"}
OnlyUsable(s) == \A r \in durable[s] : Usable(r)

\* A file is one of the copies a power loss may leave, and shows it when one of
\* them is established, unless the session was deleted.
StoreInv ==
  \A s \in Sessions :
    /\ disk[s] \in durable[s]
    /\ (\E r \in durable[s] : r.lifecycle = "Established") => Usable(disk[s])

Queued == {events[i] : i \in 1..Len(events)}
Endings == {e \in Queued : e.kind = "TurnFinished"}

\* Turns are opened in the order in which they were prepared, one at a time; a
\* turn that is prepared or runs has not been finished.
OrderInv ==
  /\ stream.last < nextTurn
  /\ \A e \in Endings : e.turn < nextTurn /\ e.session \in registered
  /\ prepared # NoPrepared =>
       /\ prepared.turn < nextTurn
       /\ \A e \in Endings : e.turn # prepared.turn
       /\ IF coord \in {"inlineSettle", "inlineFinish"}
          THEN stream.open = prepared.turn /\ stream.last = prepared.turn
          ELSE stream.open = NoTurn /\ stream.last < prepared.turn
  /\ TaskRunning =>
       /\ task.turn < nextTurn
       /\ \A e \in Endings : e.turn # task.turn
       /\ IF task.pc = "start"
          THEN stream.open = NoTurn /\ stream.last < task.turn
          ELSE stream.open = task.turn /\ stream.last = task.turn
  /\ prepared = NoPrepared /\ ~TaskRunning => stream.open = NoTurn

\* The turn initialized its session, or resumed one that was established.
Trusted == task.established \/ (~task.new /\ ~task.recovering)

\* What the locals of run_turn say about how far it came.
LocalsInv ==
  TaskRunning =>
    /\ task.pc \in {"start", "spawn", "initLoad", "initSave"} => ~task.established
    /\ task.pc \in {"sendDelta", "sendInitialized", "finishing"} => task.established
    /\ task.terminal # "none" => task.established
    /\ task.pc \in {"settleLoad", "settleSave"} =>
         /\ task.plan.outcome # "InProgress"
         /\ task.plan.outcome = "Completed" => task.established /\ ~task.plan.fallback
         /\ ~task.plan.fallback => Trusted \/ (task.new /\ ~task.plan.attempted)
    /\ task.pc = "finish" =>
         /\ task.report.outcome # "InProgress"
         /\ task.report.outcome = "Completed" => task.established /\ ~task.report.uncertain

\* A turn handed out as verified is on record in every copy.
PreparedInv ==
  prepared # NoPrepared =>
    /\ ~prepared.verified => prepared.recovering
    /\ prepared.verified =>
         /\ \A r \in durable[prepared.session] :
              r.lifecycle = "Absent" \/ r.turns[prepared.turn] # "None"
         /\ ~prepared.new /\ ~prepared.recovering => OnlyUsable(prepared.session)

\* Says that a record has completed the turn an event announced as such.
Bears(r, e) == r.lifecycle = "Established" /\ r.turns[e.turn] = "Completed"
Completions == {e \in Endings : e.outcome = "Completed"}

\* The running turn is on record, whatever it has in hand would keep what was
\* announced, and what it is about to announce holds.
RecordInv ==
  TaskRunning =>
    /\ RunningTurnIsRecorded
    /\ Trusted => OnlyUsable(task.session)
    /\ task.pc = "initSave" =>
         /\ task.copy.turns[task.turn] # "None"
         /\ \A e \in Completions : e.session = task.session => Bears(task.copy, e)
    /\ task.pc = "settleSave" =>
         /\ \A e \in Completions : e.session = task.session =>
              task.copy.lifecycle = "Absent" \/ Bears(task.copy, e)
         /\ Trusted => Usable(task.copy)
         /\ Usable(task.copy) \/ \A r \in durable[task.session] : r.lifecycle # "Established"
    /\ task.pc = "finish" =>
         /\ task.report.outcome = "Completed" =>
              \A r \in durable[task.session] :
                \/ r.lifecycle = "Absent"
                \/ r.lifecycle = "Established" /\ r.turns[task.turn] = "Completed"
         /\ ~task.report.uncertain /\ creations[task.session] > 0 => Usable(disk[task.session])

\* What was announced holds of the records (CompletedIsDurable, UncertaintyIsReported).
Announced ==
  /\ \A e \in Completions : \A r \in durable[e.session] : r.lifecycle = "Absent" \/ Bears(r, e)
  /\ \A e \in Endings :
       ~e.uncertain /\ e.turn = stream.last /\ creations[e.session] > 0 => Usable(disk[e.session])

HistoryInv == StoreInv /\ OrderInv /\ LocalsInv /\ PreparedInv /\ RecordInv /\ Announced

-----------------------------------------------------------------------------
(* Steps of the store.                                                     *)

\* Of session s, some of the records R come to be what a power loss may leave.
Rewritten(s, R) ==
  /\ disk'[s] \in durable'[s]
  /\ durable'[s] \subseteq durable[s] \cup R
  /\ disk'[s] \in R \/ (disk'[s] = disk[s] /\ durable'[s] = durable[s])
  /\ \A z \in Sessions \ {s} : disk'[z] = disk[z] /\ durable'[z] = durable[z]

\* The session is deleted, or stays established or not.
Keeps(new, old) ==
  \/ new.lifecycle = "Absent"
  \/ /\ old.lifecycle # "Absent"
     /\ new.lifecycle = "Established" <=> old.lifecycle = "Established"

\* The session is deleted, or the turn stays on record, and completed.
KeepsTurn(new, old, t) ==
  \/ new.lifecycle = "Absent"
  \/ /\ old.turns[t] # "None" => new.turns[t] # "None"
     /\ old.turns[t] = "Completed" => new.turns[t] = "Completed"

\* What is so of all copies of a session stays so.
Keeping(z) ==
  /\ OnlyUsable(z) => OnlyUsable(z)'
  /\ (\A r \in durable[z] : r.lifecycle # "Established") =>
       \A r \in durable'[z] : r.lifecycle # "Established"
  /\ Usable(disk[z]) => Usable(disk'[z])

OnRecord(z, t) == \A r \in durable[z] : r.lifecycle = "Absent" \/ r.turns[t] # "None"
Done(z, t) ==
  \A r \in durable[z] :
    r.lifecycle = "Absent" \/ (r.lifecycle = "Established" /\ r.turns[t] = "Completed")

KeepingTurn(z, t) ==
  /\ OnRecord(z, t) => OnRecord(z, t)'
  /\ Done(z, t) => Done(z, t)'

\* A save of records that agree with the file about deletion and establishment
\* keeps what the copies of every session have in common.
LEMMA RewrittenKeeps ==
  ASSUME StoreInv, NEW s \in Sessions, NEW R, Rewritten(s, R),
         \A r \in R : Keeps(r, disk[s])
  PROVE  StoreInv' /\ \A z \in Sessions : Keeping(z)
<1>1. \A z \in Sessions \ {s} : /\ disk'[z] = disk[z] /\ durable'[z] = durable[z]
  BY DEF Rewritten
<1>2. disk[s] \in durable[s] /\ ((\E r \in durable[s] : r.lifecycle = "Established") => Usable(disk[s]))
  BY DEF StoreInv
<1>3. disk'[s] \in durable'[s] /\ durable'[s] \subseteq durable[s] \cup R
      /\ (disk'[s] \in R \/ (disk'[s] = disk[s] /\ durable'[s] = durable[s]))
  BY DEF Rewritten
<1>4. Usable(disk[s]) => \A r \in R : Usable(r)
  BY DEF Keeps, Usable
<1>5. (\E r \in R : r.lifecycle = "Established") => disk[s].lifecycle = "Established"
  BY DEF Keeps
<1>6. Keeping(s)
  BY <1>2, <1>3, <1>4, <1>5 DEF Keeping, OnlyUsable, Usable
<1>7. (\E r \in durable'[s] : r.lifecycle = "Established") => Usable(disk'[s])
  BY <1>2, <1>3, <1>4, <1>5 DEF Usable
<1>8. StoreInv'
  BY <1>1, <1>3, <1>7 DEF StoreInv, Usable
<1>9. \A z \in Sessions \ {s} : Keeping(z)
  BY <1>1 DEF Keeping, OnlyUsable, Usable
<1> QED BY <1>6, <1>8, <1>9

\* A save of records that keep a turn keeps it in every copy.
LEMMA RewrittenKeepsTurn ==
  ASSUME StoreInv, NEW s \in Sessions, NEW R, Rewritten(s, R), NEW t,
         \A r \in R : Keeps(r, disk[s]) /\ KeepsTurn(r, disk[s], t)
  PROVE  \A z \in Sessions : KeepingTurn(z, t)
<1>1. \A z \in Sessions \ {s} : disk'[z] = disk[z] /\ durable'[z] = durable[z]
  BY DEF Rewritten
<1>2. disk[s] \in durable[s]
  BY DEF StoreInv
<1>3. durable'[s] \subseteq durable[s] \cup R
  BY DEF Rewritten
<1>4. OnRecord(s, t) => OnRecord(s, t)'
  BY <1>2, <1>3 DEF OnRecord, Keeps, KeepsTurn
<1>5. Done(s, t) => Done(s, t)'
  BY <1>2, <1>3 DEF Done, Keeps, KeepsTurn
<1>6. \A z \in Sessions \ {s} : KeepingTurn(z, t)
  BY <1>1 DEF KeepingTurn, OnRecord, Done
<1> QED BY <1>4, <1>5, <1>6 DEF KeepingTurn

\* A save rewrites one session, however it ends (persist).
LEMMA SaveRewrites ==
  ASSUME disk \in [Sessions -> SessionRecord],
         durable \in [Sessions -> SUBSET SessionRecord], StoreInv,
         NEW s \in Sessions, NEW new, NEW status \in CommitStatuses, Save(s, new, status)
  PROVE  Rewritten(s, {new})
<1>1. disk[s] \in durable[s]
  BY DEF StoreInv
<1>2. Visible(disk[s], new, status) \in Survivors(durable[s], new, status)
  BY <1>1 DEF Visible, Survivors, CommitStatuses
<1>3. Survivors(durable[s], new, status) \subseteq durable[s] \cup {new}
  BY DEF Survivors, CommitStatuses
<1>4. \/ Visible(disk[s], new, status) = new
      \/ /\ Visible(disk[s], new, status) = disk[s]
         /\ Survivors(durable[s], new, status) = durable[s]
  BY DEF Visible, Survivors, CommitStatuses
<1>5. /\ disk'[s] = Visible(disk[s], new, status)
      /\ durable'[s] = Survivors(durable[s], new, status)
      /\ \A z \in Sessions \ {s} : disk'[z] = disk[z] /\ durable'[z] = durable[z]
  BY DEF Save
<1> QED BY <1>2, <1>3, <1>4, <1>5 DEF Rewritten

\* The coordinator's edits keep what is on record.
LEMMA EditsKeep ==
  ASSUME NEW r \in SessionRecord
  PROVE  /\ Keeps(Repaired(r), r) /\ Keeps(AbsentRecord, r)
         /\ \A t \in Turns : KeepsTurn(Repaired(r), r, t) /\ KeepsTurn(AbsentRecord, r, t)
         /\ \A u \in Turns, outcome \in Outcomes :
              /\ Keeps(Settled(r, u, outcome, FALSE), r)
              /\ \A t \in Turns \ {u} : KeepsTurn(Settled(r, u, outcome, FALSE), r, t)
<1>1. Keeps(Repaired(r), r) /\ Keeps(AbsentRecord, r)
  BY DEF Keeps, Repaired, AbsentRecord
<1>2. ASSUME NEW t \in Turns
      PROVE  KeepsTurn(Repaired(r), r, t) /\ KeepsTurn(AbsentRecord, r, t)
  BY DEF KeepsTurn, Repaired, AbsentRecord
<1>3. ASSUME NEW u \in Turns, NEW outcome \in Outcomes
      PROVE  /\ Keeps(Settled(r, u, outcome, FALSE), r)
             /\ \A t \in Turns \ {u} : KeepsTurn(Settled(r, u, outcome, FALSE), r, t)
  BY DEF Keeps, KeepsTurn, Settled, SessionRecord
<1> QED BY <1>1, <1>2, <1>3

\* prepare_turn records the turn, perhaps only in some of the copies, and keeps
\* the rest of the session.
LEMMA PrepareRewrites ==
  ASSUME TypeOK, StoreInv, NEW s \in Sessions, NEW commit \in CommitStatuses,
         NEW rollback \in CommitStatuses, PrepareTurn(s, commit, rollback)
  PROVE  \E R : /\ Rewritten(s, R)
                /\ \A r \in R :
                     /\ Keeps(r, disk[s]) /\ r.turns[nextTurn] # "None"
                     /\ \A t \in Turns \ {nextTurn} : KeepsTurn(r, disk[s], t)
<1> DEFINE was    == disk[s].lifecycle
           pushed == [lifecycle |-> IF was = "Fresh" THEN "CreationPending" ELSE was,
                      turns |-> [disk[s].turns EXCEPT ![nextTurn] = "InProgress"]]
           undone == [lifecycle |-> was,
                      turns |-> [disk[s].turns EXCEPT ![nextTurn] = "Interrupted"]]
<1>1. /\ was \in {"Fresh", "Established", "CreationUncertain"} /\ nextTurn \in Turns
      /\ disk[s] \in SessionRecord /\ disk[s].turns \in [Turns -> Outcomes \cup {"None"}]
  BY DEF PrepareTurn, TypeOK, SessionRecord
<1>2. \A r \in {pushed, undone} :
        /\ Keeps(r, disk[s]) /\ r.turns[nextTurn] # "None"
        /\ \A t \in Turns \ {nextTurn} : KeepsTurn(r, disk[s], t)
  <2>1. ASSUME NEW r \in {pushed, undone}
        PROVE  Keeps(r, disk[s])
    BY <1>1, <2>1 DEF Keeps
  <2>2. ASSUME NEW r \in {pushed, undone}
        PROVE  r.turns[nextTurn] # "None"
    BY <1>1, <2>2
  <2>3. ASSUME NEW r \in {pushed, undone}, NEW t \in Turns \ {nextTurn}
        PROVE  KeepsTurn(r, disk[s], t)
    BY <1>1, <2>3 DEF KeepsTurn
  <2> QED BY <2>1, <2>2, <2>3
<1>3. IF commit = "verified"
      THEN Save(s, pushed, "verified")
      ELSE /\ disk' = [disk EXCEPT ![s] = Visible(Visible(@, pushed, commit), undone, rollback)]
           /\ durable' = [durable EXCEPT ![s] =
                           Survivors(Survivors(@, pushed, commit), undone, rollback)]
  BY DEF PrepareTurn
<1> HIDE DEF pushed, undone, was
<1>4. Rewritten(s, {pushed, undone})
  <2>1. CASE commit = "verified"
    <3>1. Rewritten(s, {pushed})
      BY <1>3, <2>1, SaveRewrites DEF TypeOK, CommitStatuses
    <3> QED BY <3>1 DEF Rewritten
  <2>2. CASE commit # "verified"
    <3>1. disk[s] \in durable[s] /\ disk \in [Sessions -> SessionRecord]
          /\ durable \in [Sessions -> SUBSET SessionRecord]
      BY DEF StoreInv, TypeOK
    <3>2. /\ disk'[s] = Visible(Visible(disk[s], pushed, commit), undone, rollback)
          /\ durable'[s] = Survivors(Survivors(durable[s], pushed, commit), undone, rollback)
          /\ \A z \in Sessions \ {s} : disk'[z] = disk[z] /\ durable'[z] = durable[z]
      BY <1>3, <2>2, <3>1
    <3> DEFINE visible == Visible(disk[s], pushed, commit)
               survivors == Survivors(durable[s], pushed, commit)
    <3>3. /\ visible \in survivors /\ survivors \subseteq durable[s] \cup {pushed}
          /\ visible = pushed \/ (visible = disk[s] /\ survivors = durable[s])
      BY <3>1 DEF Visible, Survivors, CommitStatuses
    <3> HIDE DEF visible, survivors
    <3>4. /\ disk'[s] \in durable'[s] /\ durable'[s] \subseteq survivors \cup {undone}
          /\ disk'[s] = undone \/ (disk'[s] = visible /\ durable'[s] = survivors)
      BY <3>2, <3>3 DEF Visible, Survivors, CommitStatuses, visible, survivors
    <3> QED BY <3>2, <3>3, <3>4 DEF Rewritten
  <2> QED BY <2>1, <2>2
<1> QED BY <1>2, <1>4

\* A settlement by the coordinator, alone with the store, keeps what is on record
\* of other turns.
LEMMA SettleAloneKept ==
  ASSUME TypeOK, StoreInv, NEW s \in Sessions, NEW u \in Turns,
         NEW status \in CommitStatuses, SettleAlone(s, u, status)
  PROVE  /\ StoreInv' /\ \A z \in Sessions : Keeping(z)
         /\ \A z \in Sessions, t \in Turns \ {u} : KeepingTurn(z, t)
<1>1. CASE Recorded(disk[s], u)
  <2> DEFINE new == Settled(disk[s], u, "Interrupted", FALSE)
  <2>1. Save(s, new, status) /\ disk[s] \in SessionRecord
    BY <1>1 DEF SettleAlone, TypeOK
  <2>2. Rewritten(s, {new})
    BY <2>1, SaveRewrites DEF TypeOK
  <2>3. Keeps(new, disk[s]) /\ \A t \in Turns \ {u} : KeepsTurn(new, disk[s], t)
    BY <2>1, EditsKeep DEF Outcomes
  <2> HIDE DEF new
  <2>4. StoreInv' /\ \A z \in Sessions : Keeping(z)
    BY <2>2, <2>3, RewrittenKeeps
  <2>5. ASSUME NEW t \in Turns \ {u}
        PROVE  \A z \in Sessions : KeepingTurn(z, t)
    <3>1. \A r \in {new} : Keeps(r, disk[s]) /\ KeepsTurn(r, disk[s], t)
      BY <2>3
    <3> QED BY <2>2, <3>1, RewrittenKeepsTurn
  <2> QED BY <2>4, <2>5
<1>2. CASE ~Recorded(disk[s], u)
  BY <1>2 DEF SettleAlone, StoreInv, Keeping, KeepingTurn, OnlyUsable, OnRecord, Done, Usable
<1> QED BY <1>1, <1>2

\* Nothing else that the coordinator does makes a known session's copies forget
\* an earlier turn, or doubt what they had established.
LEMMA CoordinatorKept ==
  ASSUME TypeOK, CreationInv, StoreInv, CoordinatorStep \/ InlineStep \/ DrainStep \/ NextEvent
  PROVE  /\ StoreInv' /\ \A z \in registered : Keeping(z)
         /\ \A z \in registered, t \in Turns :
              t < nextTurn /\ t # prepared.turn => KeepingTurn(z, t)
<1> DEFINE Kept == /\ StoreInv' /\ \A z \in registered : Keeping(z)
                   /\ \A z \in registered, t \in Turns :
                        t < nextTurn /\ t # prepared.turn => KeepingTurn(z, t)
<1>0. /\ disk \in [Sessions -> SessionRecord] /\ durable \in [Sessions -> SUBSET SessionRecord]
      /\ registered \subseteq Sessions
  BY DEF TypeOK
<1>1. CASE UNCHANGED <<disk, durable>>
  BY <1>1 DEF StoreInv, Keeping, KeepingTurn, OnlyUsable, OnRecord, Done, Usable
<1>2. ASSUME NEW s \in Sessions, NEW status \in CommitStatuses, CreateSession(s, status)
      PROVE  Kept
  <2>1. Rewritten(s, {FreshRecord}) /\ s \notin registered
    BY <1>0, <1>2, SaveRewrites DEF CreateSession
  <2>2. disk[s].lifecycle = "Absent" /\ \A r \in durable[s] : r.lifecycle = "Absent"
    BY <2>1 DEF CreationInv, CreatedHasNoFreshCopy
  <2>3. \A z \in Sessions \ {s} : disk'[z] = disk[z] /\ durable'[z] = durable[z]
    BY <2>1 DEF Rewritten
  <2>4. \A r \in durable'[s] : r.lifecycle # "Established"
    BY <2>1, <2>2, SessionRecords DEF Rewritten
  <2>5. StoreInv'
    BY <2>1, <2>3, <2>4 DEF StoreInv, Usable, Rewritten
  <2> QED
    BY <1>0, <2>1, <2>3, <2>5
    DEF Keeping, KeepingTurn, OnlyUsable, OnRecord, Done, Usable
<1>3. ASSUME NEW s \in Sessions, NEW new, NEW status \in CommitStatuses, Save(s, new, status),
             Keeps(new, disk[s]), \A t \in Turns : KeepsTurn(new, disk[s], t)
      PROVE  Kept
  <2>1. Rewritten(s, {new})
    BY <1>0, <1>3, SaveRewrites
  <2>2. StoreInv' /\ \A z \in Sessions : Keeping(z)
    BY <1>3, <2>1, RewrittenKeeps
  <2>3. ASSUME NEW t \in Turns
        PROVE  \A z \in Sessions : KeepingTurn(z, t)
    <3>1. \A r \in {new} : Keeps(r, disk[s]) /\ KeepsTurn(r, disk[s], t)
      BY <1>3
    <3> QED BY <2>1, <3>1, RewrittenKeepsTurn
  <2> QED BY <1>0, <2>2, <2>3
<1>4. ASSUME NEW s \in Sessions, NEW status \in CommitStatuses, LoadSession(s, status)
      PROVE  Kept
  <2>1. Save(s, Repaired(disk[s]), status) /\ disk[s] \in SessionRecord
    BY <1>0, <1>4 DEF LoadSession
  <2> QED BY <1>3, <2>1, EditsKeep
<1>5. ASSUME NEW s \in Sessions, NEW synced \in BOOLEAN, DeleteSession(s, synced)
      PROVE  Kept
  <2>1. /\ Save(s, AbsentRecord, IF synced THEN "verified" ELSE "unverified")
        /\ disk[s] \in SessionRecord
        /\ (IF synced THEN "verified" ELSE "unverified") \in CommitStatuses
    BY <1>0, <1>5 DEF DeleteSession, CommitStatuses
  <2> QED BY <1>3, <2>1, EditsKeep
<1>6. ASSUME NEW s \in Sessions, NEW commit \in CommitStatuses, NEW rollback \in CommitStatuses,
             PrepareTurn(s, commit, rollback)
      PROVE  Kept
  <2>1. PICK R : /\ Rewritten(s, R)
                 /\ \A r \in R :
                      /\ Keeps(r, disk[s]) /\ r.turns[nextTurn] # "None"
                      /\ \A t \in Turns \ {nextTurn} : KeepsTurn(r, disk[s], t)
    BY <1>6, PrepareRewrites
  <2>2. StoreInv' /\ \A z \in Sessions : Keeping(z)
    BY <2>1, RewrittenKeeps
  <2>3. ASSUME NEW t \in Turns, t < nextTurn
        PROVE  \A z \in Sessions : KeepingTurn(z, t)
    <3>1. t # nextTurn
      BY <2>3 DEF TypeOK, Turns
    <3>2. \A r \in R : Keeps(r, disk[s]) /\ KeepsTurn(r, disk[s], t)
      BY <2>1, <3>1
    <3> QED BY <2>1, <3>2, RewrittenKeepsTurn
  <2> QED BY <1>0, <2>2, <2>3
<1>7. ASSUME NEW status \in CommitStatuses, prepared # NoPrepared,
             SettleAlone(prepared.session, prepared.turn, status)
      PROVE  Kept
  <2>1. prepared.session \in Sessions /\ prepared.turn \in Turns
    BY <1>7 DEF TypeOK, PreparedType
  <2> QED BY <1>0, <1>7, <2>1, SettleAloneKept
<1>8. CASE CoordinatorStep
  <2>1. CASE \E status \in CommitStatuses : LaunchRefused(status)
    BY <1>7, <2>1 DEF LaunchRefused
  <2>2. CASE PrepareRefused \/ LaunchTask \/ LaunchInline \/ InterruptTurn
             \/ \E latch \in BOOLEAN : BeginDrain(latch)
    BY <1>1, <2>2 DEF PrepareRefused, LaunchTask, LaunchInline, InterruptTurn, BeginDrain, storeVars
  <2> QED BY <1>2, <1>4, <1>5, <1>6, <1>8, <2>1, <2>2 DEF CoordinatorStep
<1>9. CASE InlineStep
  <2>1. ASSUME NEW status \in CommitStatuses, InlineSettle(status)
        PROVE  Kept
    BY <1>7, <2>1 DEF InlineSettle, TypeOK
  <2>2. CASE InlineStart \/ InlineFinish
    BY <1>1, <2>2 DEF InlineStart, InlineFinish, storeVars
  <2> QED BY <1>9, <2>1, <2>2 DEF InlineStep
<1>10. CASE DrainStep \/ NextEvent
  BY <1>1, <1>10 DEF DrainStep, DrainReceive, DrainJoined, NextEvent, storeVars
<1> QED BY <1>8, <1>9, <1>10

\* What the task's saves leave of its session and of the others.
TaskKeepsRecords ==
  /\ StoreInv'
  /\ \A z \in Sessions \ {task.session} :
       disk'[z] = disk[z] /\ durable'[z] = durable[z]
  /\ Trusted => (OnlyUsable(task.session) => OnlyUsable(task.session)')
  /\ OnlyUsable(task.session) /\ (\E r \in durable[task.session] : r.lifecycle = "Established")
       => OnlyUsable(task.session)'
  /\ OnRecord(task.session, task.turn) => OnRecord(task.session, task.turn)'
  /\ \A e \in Completions :
       e.session = task.session => (Done(e.session, e.turn) => Done(e.session, e.turn)')

\* settle_record neither establishes a session nor doubts one that is established,
\* and touches one turn.
LEMMA SettledLifecycle ==
  ASSUME NEW r \in SessionRecord, NEW t \in Turns, NEW outcome \in Outcomes,
         NEW attempted \in BOOLEAN
  PROVE  LET new == Settled(r, t, outcome, attempted) IN
         /\ Usable(new) <=> Usable(r)
         /\ new.lifecycle = "Established" <=> r.lifecycle = "Established"
         /\ new.lifecycle = "Absent" <=> r.lifecycle = "Absent"
         /\ new.turns[t] = outcome
         /\ \A u \in Turns \ {t} : new.turns[u] = r.turns[u]
BY DEF Settled, SessionRecord, Usable

\* A save of a record that is established or absent, or over copies none of which
\* is established.
LEMMA RewrittenUsable ==
  ASSUME StoreInv, NEW s \in Sessions, NEW new, Rewritten(s, {new}),
         Usable(new) \/ \A r \in durable[s] : r.lifecycle # "Established"
  PROVE  StoreInv'
<1>1. \A z \in Sessions \ {s} : disk'[z] = disk[z] /\ durable'[z] = durable[z]
  BY DEF Rewritten
<1>2. (\E r \in durable[s] : r.lifecycle = "Established") => Usable(disk[s])
  BY DEF StoreInv
<1>3. (\E r \in durable'[s] : r.lifecycle = "Established") => Usable(disk'[s])
  BY <1>2 DEF Rewritten, Usable
<1> QED BY <1>1, <1>3 DEF StoreInv, Rewritten, Usable

\* What is queued are events, and the endings among them name a turn and a session.
LEMMA EndingsAreTyped ==
  ASSUME TypeOK
  PROVE  /\ Queued \subseteq ServiceEvent
         /\ \A e \in Endings : e.turn \in Turns /\ e.session \in Sessions
<1>1. \A i \in 1..Len(events) : events[i] \in ServiceEvent
  BY DEF TypeOK
<1>2. Queued \subseteq ServiceEvent
  BY <1>1 DEF Queued
<1> QED BY <1>2 DEF Endings, ServiceEvent

\* persist_initialized's save, over what it read earlier.
LEMMA InitSaveKept ==
  ASSUME TypeOK, StoreInv, OrderInv, RecordInv, NEW status \in CommitStatuses, InitSave(status)
  PROVE  /\ TaskKeepsRecords
         /\ status = "verified" => OnlyUsable(task.session)'
<1> DEFINE new == [task.copy EXCEPT !.lifecycle = "Established"]
<1>1. /\ task.pc = "initSave" /\ TaskRunning /\ task.session \in Sessions /\ task.turn \in Turns
      /\ task.copy \in SessionRecord /\ Save(task.session, new, status)
  BY DEF InitSave, TaskRunning, TypeOK, TaskType
<1>2. new \in SessionRecord /\ new.lifecycle = "Established" /\ new.turns = task.copy.turns
  BY <1>1 DEF SessionRecord, Lifecycles
<1>3. /\ task.copy.turns[task.turn] # "None"
      /\ \A e \in Completions : e.session = task.session => Bears(task.copy, e)
  BY <1>1 DEF RecordInv
<1> HIDE DEF new
<1>4. Rewritten(task.session, {new})
  BY <1>1, SaveRewrites DEF TypeOK
<1>5. Usable(new)
  BY <1>2 DEF Usable
<1>6. StoreInv'
  BY <1>1, <1>4, <1>5, RewrittenUsable
<1>7. durable'[task.session] \subseteq durable[task.session] \cup {new}
  BY <1>4 DEF Rewritten
<1>8. OnlyUsable(task.session) => \A r \in durable'[task.session] : Usable(r)
  BY <1>5, <1>7 DEF OnlyUsable
<1>9. OnRecord(task.session, task.turn) =>
        \A r \in durable'[task.session] : r.lifecycle = "Absent" \/ r.turns[task.turn] # "None"
  BY <1>2, <1>3, <1>7 DEF OnRecord
<1>10. ASSUME NEW e \in Completions, e.session = task.session, Done(e.session, e.turn)
       PROVE  \A r \in durable'[task.session] :
                r.lifecycle = "Absent" \/ (r.lifecycle = "Established" /\ r.turns[e.turn] = "Completed")
  BY <1>2, <1>3, <1>7, <1>10 DEF Done, Bears
<1>11. status = "verified" => durable'[task.session] = {new}
  BY <1>1, <1>2, SaveFacts DEF TypeOK
<1>12. task'.session = task.session /\ task'.turn = task.turn /\ events' = events
  BY InitSaveMoves
<1>13. \A z \in Sessions \ {task.session} : disk'[z] = disk[z] /\ durable'[z] = durable[z]
  BY <1>4 DEF Rewritten
<1>14. /\ OnlyUsable(task.session) => OnlyUsable(task.session)'
       /\ status = "verified" => OnlyUsable(task.session)'
  BY <1>5, <1>8, <1>11, <1>12 DEF OnlyUsable
<1>15. OnRecord(task.session, task.turn) => OnRecord(task.session, task.turn)'
  BY <1>9, <1>12 DEF OnRecord
<1>16. \A e \in Completions :
         e.session = task.session => (Done(e.session, e.turn) => Done(e.session, e.turn)')
  BY <1>10, <1>12 DEF Done
<1> QED BY <1>6, <1>13, <1>14, <1>15, <1>16 DEF TaskKeepsRecords

\* settle_record's save, over what it read earlier.
LEMMA SettleSaveKept ==
  ASSUME TypeOK, StoreInv, OrderInv, RecordInv, NEW status \in CommitStatuses, SettleSave(status)
  PROVE  LET new == Settled(task.copy, task.turn, task.plan.outcome, task.plan.attempted) IN
         /\ TaskKeepsRecords
         /\ status = "verified" => /\ disk'[task.session] = new
                                   /\ durable'[task.session] = {new}
         /\ disk'[task.session] \in {disk[task.session], new}
         /\ Trusted => Usable(new)
<1> DEFINE new == Settled(task.copy, task.turn, task.plan.outcome, task.plan.attempted)
<1>1. /\ task.pc = "settleSave" /\ TaskRunning /\ task.session \in Sessions /\ task.turn \in Turns
      /\ task.copy \in SessionRecord /\ Save(task.session, new, status)
      /\ task.plan.outcome \in Outcomes /\ task.plan.attempted \in BOOLEAN
  BY DEF SettleSave, TaskRunning, TypeOK, TaskType, PlanType
<1>2. /\ new \in SessionRecord /\ (Usable(new) <=> Usable(task.copy))
      /\ new.lifecycle = "Established" <=> task.copy.lifecycle = "Established"
      /\ new.lifecycle = "Absent" <=> task.copy.lifecycle = "Absent"
      /\ new.turns[task.turn] = task.plan.outcome
      /\ \A u \in Turns \ {task.turn} : new.turns[u] = task.copy.turns[u]
  BY <1>1, SettledRecord, SettledLifecycle
<1>3. /\ \A e \in Completions : e.session = task.session =>
           task.copy.lifecycle = "Absent" \/ Bears(task.copy, e)
      /\ Trusted => Usable(task.copy)
      /\ Usable(task.copy) \/ \A r \in durable[task.session] : r.lifecycle # "Established"
  BY <1>1 DEF RecordInv
<1>4. \A e \in Completions : e.turn \in Turns \ {task.turn}
  BY <1>1, EndingsAreTyped DEF OrderInv, Completions
<1> HIDE DEF new
<1>5. Rewritten(task.session, {new})
  BY <1>1, SaveRewrites DEF TypeOK
<1>6. StoreInv'
  BY <1>1, <1>2, <1>3, <1>5, RewrittenUsable
<1>7. /\ durable'[task.session] \subseteq durable[task.session] \cup {new}
      /\ disk'[task.session] \in {disk[task.session], new}
  BY <1>5 DEF Rewritten
<1>8. \A z \in Sessions \ {task.session} : disk'[z] = disk[z] /\ durable'[z] = durable[z]
  BY <1>5 DEF Rewritten
<1>9. task'.session = task.session /\ task'.turn = task.turn /\ events' = events
  BY DEF SettleSave, TypeOK, TaskType
<1>10. Trusted => (OnlyUsable(task.session) => OnlyUsable(task.session)')
  BY <1>2, <1>3, <1>7, <1>9 DEF OnlyUsable
<1>11. OnlyUsable(task.session) /\ (\E r \in durable[task.session] : r.lifecycle = "Established")
         => OnlyUsable(task.session)'
  BY <1>2, <1>3, <1>7, <1>9 DEF OnlyUsable
<1>12. OnRecord(task.session, task.turn) => OnRecord(task.session, task.turn)'
  BY <1>1, <1>2, <1>7, <1>9 DEF OnRecord, Outcomes
<1>13. \A e \in Completions :
         e.session = task.session => (Done(e.session, e.turn) => Done(e.session, e.turn)')
  BY <1>2, <1>3, <1>4, <1>7, <1>9 DEF Done, Bears
<1>14. status = "verified" => disk'[task.session] = new /\ durable'[task.session] = {new}
  BY <1>1, <1>2, SaveFacts DEF TypeOK
<1>15. TaskKeepsRecords
  BY <1>6, <1>8, <1>10, <1>11, <1>12, <1>13 DEF TaskKeepsRecords
<1> QED BY <1>2, <1>3, <1>7, <1>14, <1>15 DEF new

-----------------------------------------------------------------------------
(* Steps of the queue and of the task.                                     *)

\* A send adds its event to what is queued.
LEMMA SendQueues ==
  ASSUME TypeOK, NEW e \in ServiceEvent, Send(e)
  PROVE  /\ Queued' = Queued \cup {e}
         /\ Endings' = Endings \cup (IF e.kind = "TurnFinished" THEN {e} ELSE {})
         /\ Completions' = Completions \cup
              (IF e.kind = "TurnFinished" /\ e.outcome = "Completed" THEN {e} ELSE {})
<1>1. events \in Seq(ServiceEvent) /\ events' = Append(events, e)
  BY DEF TypeOK, Send
<1>2. /\ Len(events') = Len(events) + 1 /\ Len(events) \in Nat
      /\ \A i \in 1..Len(events) : events'[i] = events[i]
      /\ events'[Len(events) + 1] = e
  BY <1>1
<1>3. Queued' = Queued \cup {e}
  <2>1. ASSUME NEW i \in 1..Len(events') PROVE events'[i] \in Queued \cup {e}
    <3>1. CASE i = Len(events) + 1
      BY <1>2, <3>1
    <3>2. CASE i # Len(events) + 1
      BY <1>2, <3>2 DEF Queued
    <3> QED BY <3>1, <3>2
  <2>2. ASSUME NEW i \in 1..Len(events) PROVE \E j \in 1..Len(events') : events'[j] = events[i]
    BY <1>2
  <2>3. \E j \in 1..Len(events') : events'[j] = e
    BY <1>2
  <2>4. Queued' \subseteq Queued \cup {e}
    BY <2>1 DEF Queued
  <2>5. Queued \cup {e} \subseteq Queued'
    BY <2>2, <2>3 DEF Queued
  <2> QED BY <2>4, <2>5
<1> QED BY <1>3 DEF Endings, Completions

\* A receipt takes from what is queued.
LEMMA ReceiveQueued ==
  ASSUME TypeOK, \/ events # <<>> /\ events' = Tail(events)
                 \/ events' = <<>>
                 \/ events' = events
  PROVE  Endings' \subseteq Endings /\ Completions' \subseteq Completions
<1>1. Queued' \subseteq Queued
  <2>1. CASE events # <<>> /\ events' = Tail(events)
    <3>1. /\ Len(events') = Len(events) - 1 /\ Len(events) \in Nat
          /\ \A i \in 1..Len(events') : events'[i] = events[i + 1]
      BY <2>1 DEF TypeOK
    <3>2. ASSUME NEW i \in 1..Len(events') PROVE i + 1 \in 1..Len(events)
      BY <3>1
    <3> QED BY <3>1, <3>2 DEF Queued
  <2>2. CASE events' = <<>>
    BY <2>2 DEF Queued
  <2>3. CASE events' = events
    BY <2>3 DEF Queued
  <2> QED BY <2>1, <2>2, <2>3
<1> QED BY <1>1 DEF Endings, Completions

\* What a step between the task's first and last leaves alone: it says nothing
\* of the turn's beginning or end, and works on the same turn.
TaskGoesOn ==
  /\ TaskRunning /\ TaskRunning' /\ task.pc \notin {"start", "finish"} /\ task'.pc # "start"
  /\ task'.turn = task.turn /\ task'.session = task.session
  /\ task'.new = task.new /\ task'.recovering = task.recovering
  /\ UNCHANGED stream /\ TaskKeeps /\ Endings' = Endings /\ Completions' = Completions

\* Of the task's fields, those that a move to the settlement leaves alone.
LEMMA PlanMoves ==
  ASSUME TypeOK, NEW outcome, NEW attempted, NEW fallback, NEW sticky, NEW failed,
         Plan(outcome, attempted, fallback, sticky, failed)
  PROVE  /\ task'.pc = "settleLoad" /\ task'.turn = task.turn /\ task'.session = task.session
         /\ task'.new = task.new /\ task'.recovering = task.recovering
         /\ task'.established = task.established /\ task'.terminal = task.terminal
         /\ task'.plan = [outcome |-> outcome, attempted |-> attempted,
                          fallback |-> fallback, sticky |-> sticky, failed |-> failed]
BY DEF Plan, TypeOK, TaskType

\* Every step of the task but its first and its last goes on with the turn.
LEMMA TaskStepsGoOn ==
  ASSUME TypeOK, ChildStep \/ TaskStep
  PROVE  StartTurn \/ FinishTurn \/ TaskGoesOn
<1>1. ASSUME UNCHANGED events
      PROVE  Endings' = Endings /\ Completions' = Completions
  BY <1>1 DEF Endings, Completions, Queued
<1>2. ASSUME task.pc # "none", NEW kind \in {"Initialized", "TextDelta"}, Send(Progress(kind))
      PROVE  Endings' = Endings /\ Completions' = Completions
  <2>1. Progress(kind) \in ServiceEvent
    BY <1>2, ProgressType
  <2>2. Progress(kind).kind = kind
    BY DEF Progress, Event
  <2> QED BY <1>2, <2>1, <2>2, SendQueues
<1>3. CASE ChildStep
  <2>1. CASE ChildError
    BY <1>1, <2>1, PlanMoves DEF ChildError, PlanFailure, TaskGoesOn, TaskRunning
  <2>2. CASE ~ChildError
    <3>1. \/ ChildInitialized \/ ChildDelta \/ ChildEof
          \/ \E result \in {"success", "failure"} : ChildTerminal(result)
      BY <1>3, <2>2 DEF ChildStep
    <3>2. /\ task.pc = "running" /\ task'.pc \in {"initLoad", "sendDelta", "finishing", "running"}
          /\ task'.turn = task.turn /\ task'.session = task.session
          /\ task'.new = task.new /\ task'.recovering = task.recovering
          /\ UNCHANGED <<stream, events>> /\ TaskKeeps
      <4>1. CASE ChildInitialized \/ ChildEof
        BY <4>1 DEF ChildInitialized, ChildEof, TypeOK, TaskType
      <4>2. CASE ChildDelta
        BY <4>2 DEF ChildDelta, TypeOK, TaskType
      <4>3. ASSUME NEW result, ChildTerminal(result)
            PROVE  /\ task.pc = "running" /\ task'.pc = "running"
                   /\ task'.turn = task.turn /\ task'.session = task.session
                   /\ task'.new = task.new /\ task'.recovering = task.recovering
                   /\ UNCHANGED <<stream, events>> /\ TaskKeeps
        BY <4>3 DEF ChildTerminal, TypeOK, TaskType
      <4> QED BY <3>1, <4>1, <4>2, <4>3
    <3> QED BY <1>1, <3>2 DEF TaskGoesOn, TaskRunning
  <2> QED BY <2>1, <2>2
<1>4. CASE SendDelta \/ SendInitialized
  BY <1>2, <1>4 DEF SendDelta, SendInitialized, TaskGoesOn, TaskRunning, TypeOK, TaskType
<1>5. CASE Spawned
  BY <1>1, <1>5 DEF Spawned, TaskGoesOn, TaskRunning, TypeOK, TaskType
<1>6. ASSUME NEW ran \in BOOLEAN, SpawnCancelled(ran)
      PROVE  TaskGoesOn
  BY <1>1, <1>6, PlanMoves DEF SpawnCancelled, TaskGoesOn, TaskRunning
<1>7. ASSUME NEW ran \in BOOLEAN, NEW attempted \in BOOLEAN, SpawnFailed(ran, attempted)
      PROVE  TaskGoesOn
  BY <1>1, <1>7, PlanMoves DEF SpawnFailed, PlanFailure, TaskGoesOn, TaskRunning
<1>8. ASSUME NEW failed \in BOOLEAN, CancelRunning(failed) \/ CancelFinishing
      PROVE  TaskGoesOn
  BY <1>1, <1>8, PlanMoves
     DEF CancelRunning, CancelFinishing, PlanInterrupted, TaskGoesOn, TaskRunning
<1>9. ASSUME NEW readable \in BOOLEAN, InitLoad(readable)
      PROVE  TaskGoesOn
  <2>1. CASE readable /\ disk[task.session].lifecycle # "Absent"
    <3>1. task' = [task EXCEPT !.pc = "initSave", !.copy = disk[task.session]]
      BY <1>9, <2>1 DEF InitLoad
    <3>2. /\ task'.pc = "initSave" /\ task'.turn = task.turn /\ task'.session = task.session
          /\ task'.new = task.new /\ task'.recovering = task.recovering
      BY <3>1 DEF TypeOK, TaskType
    <3> QED BY <1>1, <1>9, <3>2 DEF InitLoad, TaskGoesOn, TaskRunning
  <2>2. CASE ~(readable /\ disk[task.session].lifecycle # "Absent")
    BY <1>1, <1>9, <2>2, PlanMoves DEF InitLoad, PlanFailure, TaskGoesOn, TaskRunning
  <2> QED BY <2>1, <2>2
<1>10. ASSUME NEW status \in CommitStatuses, InitSave(status)
       PROVE  TaskGoesOn
  <2>1. /\ task.pc = "initSave" /\ TaskKeeps /\ UNCHANGED <<events, stream>>
        /\ task'.turn = task.turn /\ task'.session = task.session
        /\ task'.new = task.new /\ task'.recovering = task.recovering
        /\ task'.pc \in {"sendInitialized", "settleLoad"}
    BY <1>10, InitSaveMoves
  <2> QED BY <1>1, <2>1 DEF TaskGoesOn, TaskRunning
<1>11. ASSUME NEW ok \in BOOLEAN, ChildExit(ok)
       PROVE  TaskGoesOn
  BY <1>1, <1>11, PlanMoves DEF ChildExit, TaskGoesOn, TaskRunning
<1>12. ASSUME NEW readable \in BOOLEAN, SettleLoad(readable)
       PROVE  TaskGoesOn
  BY <1>1, <1>12 DEF SettleLoad, TaskGoesOn, TaskRunning, TypeOK, TaskType
<1>13. ASSUME NEW status \in CommitStatuses, SettleSave(status)
       PROVE  TaskGoesOn
  BY <1>1, <1>13 DEF SettleSave, TaskGoesOn, TaskRunning, TypeOK, TaskType
<1> QED
  BY <1>3, <1>4, <1>5, <1>6, <1>7, <1>8, <1>9, <1>10, <1>11, <1>12, <1>13 DEF TaskStep

-----------------------------------------------------------------------------
(* The order of turns.                                                     *)

\* The turns of the queue's endings and of the records are never the prepared one.
LEMMA AnnouncedElsewhere ==
  ASSUME TypeOK, OrderInv
  PROVE  \A e \in Endings :
           /\ e \in ServiceEvent /\ e.turn \in Turns /\ e.session \in registered
           /\ e.turn < nextTurn /\ e.turn # prepared.turn
           /\ TaskRunning => e.turn # task.turn
<1>1. NoPrepared.turn \notin Turns
  BY DEF NoPrepared, NoTurn, Turns
<1> QED BY <1>1, EndingsAreTyped DEF OrderInv, Endings

\* A turn that goes on keeps the order of turns.
LEMMA TaskMovesKeepOrder ==
  ASSUME TypeOK, CreationInv, OrderInv, TaskGoesOn
  PROVE  OrderInv'
<1>1. prepared = NoPrepared
  BY DEF CreationInv, PreparedMayCreate, TaskGoesOn, TaskRunning
<1> QED BY <1>1 DEF OrderInv, TaskGoesOn, TaskKeeps

\* The turns opened and finished follow the order in which they were prepared.
LEMMA NextKeepsOrder ==
  ASSUME TypeOK, CreationInv, OrderInv, [Next]_vars
  PROVE  OrderInv'
<1> USE DEF storeVars
<1>0. /\ NoPrepared.turn = NoTurn /\ NoTurn \notin Turns /\ Turns \subseteq Nat
      /\ NoTask.pc = "none"
  BY DEF NoPrepared, NoTurn, Turns, NoTask
<1>a. ASSUME UNCHANGED events
      PROVE  Endings' = Endings
  BY <1>a DEF Endings, Queued
<1>b. /\ prepared = NoPrepared \/ prepared \in PreparedType
      /\ prepared # NoPrepared =>
           prepared.turn \in Turns /\ prepared.session \in Sessions /\ task.pc = "none"
           /\ prepared.session \in registered
      /\ nextTurn \in Nat /\ stream.last \in Nat
      /\ \A e \in Endings : e.turn \in Nat
  <2>1. prepared = NoPrepared \/ prepared \in PreparedType
    BY DEF TypeOK
  <2>2. prepared # NoPrepared =>
          prepared.turn \in Turns /\ prepared.session \in Sessions /\ task.pc = "none"
          /\ prepared.session \in registered
    BY <2>1 DEF PreparedType, CreationInv, PreparedMayCreate
  <2>3. nextTurn \in Nat /\ stream.last \in Nat
    <3>1. nextTurn \in Nat /\ stream.last \in Turns \cup {NoTurn}
      BY DEF TypeOK
    <3>2. NoTurn \in Nat
      BY DEF NoTurn
    <3>3. stream.last \in Nat
      BY <1>0, <3>1, <3>2
    <3> QED BY <3>1, <3>3
  <2>4. \A e \in Endings : e.turn \in Nat
    BY <1>0, EndingsAreTyped
  <2> QED BY <2>1, <2>2, <2>3, <2>4
<1>1. CASE UNCHANGED vars
  BY <1>1, <1>a DEF vars, OrderInv, TaskRunning
<1>2. ASSUME UNCHANGED <<nextTurn, prepared, coord, events, stream>>,
             registered \subseteq registered', task'.turn = task.turn, task'.pc = task.pc
      PROVE  OrderInv'
  BY <1>2, <1>a DEF OrderInv, TaskRunning
<1>3. ASSUME NEW s \in Sessions,
             \E status \in CommitStatuses : CreateSession(s, status) \/ LoadSession(s, status)
      PROVE  OrderInv'
  BY <1>2, <1>3 DEF CreateSession, LoadSession
<1>4. ASSUME NEW s \in Sessions, NEW synced \in BOOLEAN, DeleteSession(s, synced)
      PROVE  OrderInv'
  BY <1>2, <1>4 DEF DeleteSession
<1>5. ASSUME NEW s \in Sessions, NEW commit \in CommitStatuses, NEW rollback \in CommitStatuses,
             PrepareTurn(s, commit, rollback)
      PROVE  OrderInv'
  <2>1. /\ coord = "idle" /\ prepared = NoPrepared /\ ~TaskRunning /\ task' = NoTask
        /\ prepared' = NoPrepared \/ prepared'.turn = nextTurn
        /\ nextTurn' = nextTurn + 1 /\ UNCHANGED <<registered, coord, events, stream>>
    BY <1>5 DEF PrepareTurn
  <2>2. /\ stream.last < nextTurn /\ stream.open = NoTurn
        /\ \A e \in Endings : e.turn < nextTurn /\ e.session \in registered
    BY <2>1 DEF OrderInv
  <2>3. /\ stream.last < nextTurn' /\ nextTurn < nextTurn'
        /\ \A e \in Endings : e.turn < nextTurn' /\ e.turn # nextTurn
    BY <1>b, <2>1, <2>2
  <2> QED BY <1>0, <1>a, <2>1, <2>2, <2>3 DEF OrderInv, TaskRunning
<1>6. CASE PrepareRefused
  BY <1>0, <1>6, <1>a DEF PrepareRefused, OrderInv, TaskRunning
<1>7. ASSUME NEW status \in CommitStatuses, LaunchRefused(status)
      PROVE  OrderInv'
  BY <1>7, <1>a, <1>b DEF LaunchRefused, OrderInv, TaskRunning
<1>8. CASE LaunchTask
  <2>1. task'.turn = prepared.turn /\ task'.pc = "start"
    BY <1>8 DEF LaunchTask, TaskOf, NoTask
  <2> QED BY <1>8, <1>a, <2>1 DEF LaunchTask, OrderInv, TaskRunning
<1>9. CASE LaunchInline
  BY <1>9, <1>a, <1>b DEF LaunchInline, OrderInv, TaskRunning
<1>10. ASSUME InterruptTurn \/ \E latch \in BOOLEAN : BeginDrain(latch)
       PROVE  OrderInv'
  <2>1. /\ UNCHANGED <<nextTurn, prepared, events, stream, registered>>
        /\ task'.pc = task.pc /\ task'.turn = task.turn
        /\ coord = "idle" /\ coord' \in {"idle", "draining"}
    BY <1>10 DEF InterruptTurn, BeginDrain, TypeOK, TaskType
  <2> QED BY <2>1, <1>a DEF OrderInv, TaskRunning
<1>11. CASE InlineStart
  <2> DEFINE e == Event("TurnStarted", prepared.session, prepared.turn, "InProgress", FALSE)
  <2>1. prepared \in PreparedType /\ prepared # NoPrepared
    BY <1>11 DEF InlineStart, TypeOK
  <2>2. e \in ServiceEvent /\ e.kind = "TurnStarted" /\ Send(e)
    BY <1>11, <2>1 DEF InlineStart, Event, ServiceEvent, PreparedType, Outcomes
  <2>3. Endings' = Endings
    BY <2>2, SendQueues
  <2> QED BY <1>11, <1>b, <2>1, <2>3 DEF InlineStart, OrderInv, TaskRunning
<1>12. ASSUME NEW status \in CommitStatuses, InlineSettle(status)
       PROVE  OrderInv'
  BY <1>12, <1>a DEF InlineSettle, OrderInv, TaskRunning
<1>13. CASE InlineFinish
  <2> DEFINE e == Event("TurnFinished", prepared.session, prepared.turn, "Failed",
                        prepared.recovering)
  <2>1. prepared \in PreparedType /\ prepared # NoPrepared
    BY <1>13 DEF InlineFinish, TypeOK
  <2>2. /\ e \in ServiceEvent /\ Send(e)
        /\ e.session = prepared.session /\ e.turn = prepared.turn
    BY <1>13, <2>1 DEF InlineFinish, Event, ServiceEvent, PreparedType, Outcomes
  <2>3. Endings' \subseteq Endings \cup {e}
    BY <2>2, SendQueues
  <2>4. \A f \in Endings' : f.turn < nextTurn /\ f.session \in registered
    BY <1>b, <2>1, <2>2, <2>3 DEF OrderInv
  <2> QED BY <1>13, <1>b, <2>1, <2>4 DEF InlineFinish, OrderInv, TaskRunning
<1>14. CASE DrainStep \/ NextEvent
  <2>1. Endings' \subseteq Endings
    BY <1>14, ReceiveQueued DEF DrainStep, DrainReceive, DrainJoined, NextEvent
  <2>2. /\ UNCHANGED <<registered, nextTurn, prepared, stream>>
        /\ coord' = coord \/ (coord \in {"idle", "draining"} /\ coord' \in {"idle", "draining"})
        /\ task' = task \/ (task'.pc = "none" /\ ~TaskRunning)
    BY <1>0, <1>14 DEF DrainStep, DrainReceive, DrainJoined, NextEvent
  <2> QED BY <2>1, <2>2 DEF OrderInv, TaskRunning
<1>15. CASE StartTurn
  <2>1. Progress("TurnStarted") \in ServiceEvent /\ Progress("TurnStarted").kind = "TurnStarted"
        /\ Send(Progress("TurnStarted"))
    BY <1>15, ProgressType DEF StartTurn, Progress, Event
  <2>2. Endings' = Endings
    BY <2>1, SendQueues
  <2>3. /\ task'.pc = "spawn" /\ task'.turn = task.turn /\ TaskRunning /\ task.turn \in Turns
        /\ prepared = NoPrepared
    BY <1>15, <1>b DEF StartTurn, TypeOK, TaskType, TaskRunning
  <2> QED BY <1>15, <2>2, <2>3 DEF StartTurn, OrderInv, TaskRunning, TaskKeeps
<1>16. CASE FinishTurn
  <2> DEFINE e == Event("TurnFinished", task.session, task.turn, task.report.outcome,
                        task.report.uncertain)
  <2>1. /\ task'.pc = "done" /\ TaskRunning /\ prepared = NoPrepared
        /\ task.turn \in Turns /\ task.session \in Sessions /\ task.session \in registered
    BY <1>16, <1>b DEF FinishTurn, TypeOK, TaskType, TaskRunning, CreationInv, TaskMayCreate
  <2>2. /\ e \in ServiceEvent /\ Send(e)
        /\ e.session = task.session /\ e.turn = task.turn
    BY <1>16, <2>1 DEF FinishTurn, Event, ServiceEvent, TypeOK, TaskType
  <2>3. Endings' \subseteq Endings \cup {e}
    BY <2>2, SendQueues
  <2>4. \A f \in Endings' : f.turn < nextTurn /\ f.session \in registered
    BY <2>1, <2>2, <2>3 DEF OrderInv
  <2> QED BY <1>16, <2>1, <2>4 DEF FinishTurn, OrderInv, TaskRunning, TaskKeeps
<1>17. CASE Crash \/ PowerLoss
  <2>1. /\ prepared' = NoPrepared /\ task'.pc = "none" /\ events' = <<>>
        /\ stream'.open = NoTurn /\ stream'.last = stream.last /\ nextTurn' = nextTurn
    BY <1>0, <1>17 DEF Crash, PowerLoss, ProcessDies, TypeOK
  <2>2. Endings' = {}
    BY <2>1 DEF Endings, Queued, TypeOK
  <2> QED BY <2>1, <2>2 DEF OrderInv, TaskRunning
<1>18. CASE ChildStep \/ TaskStep
  BY <1>15, <1>16, <1>18, TaskStepsGoOn, TaskMovesKeepOrder
<1> QED
  BY <1>1, <1>3, <1>4, <1>5, <1>6, <1>7, <1>8, <1>9, <1>10, <1>11, <1>12, <1>13, <1>14, <1>17,
     <1>18 DEF Next, CoordinatorStep, InlineStep

-----------------------------------------------------------------------------
(* The task's locals, and what the coordinator has prepared.               *)

\* How far a turn has come is told by its locals (run_turn).
LEMMA NextKeepsLocals ==
  ASSUME TypeOK, LocalsInv, RecordInv, [Next]_vars
  PROVE  LocalsInv'
<1> USE DEF storeVars
<1>1. ASSUME ~TaskRunning'
      PROVE  LocalsInv'
  BY <1>1 DEF LocalsInv
<1>2. ASSUME task'.pc = task.pc, task'.established = task.established,
             task'.new = task.new, task'.recovering = task.recovering,
             task'.terminal = task.terminal, task'.plan = task.plan, task'.report = task.report
      PROVE  LocalsInv'
  BY <1>2 DEF LocalsInv, Trusted, TaskRunning
<1>3. CASE UNCHANGED task
  BY <1>2, <1>3
<1>4. CASE CoordinatorStep
  <2>1. CASE LaunchTask
    <3>1. task'.pc = "start" /\ ~task'.established /\ task'.terminal = "none"
      BY <2>1 DEF LaunchTask, TaskOf, NoTask
    <3> QED BY <3>1 DEF LocalsInv
  <2>2. CASE InterruptTurn \/ \E latch \in BOOLEAN : BeginDrain(latch)
    <3>1. task' = task \/ task' = [task EXCEPT !.cancelled = TRUE]
      BY <2>2 DEF InterruptTurn, BeginDrain
    <3> QED BY <1>2, <3>1 DEF TypeOK, TaskType
  <2>3. CASE PrepareRefused
             \/ \E s \in Sessions, commit, rollback \in CommitStatuses :
                  PrepareTurn(s, commit, rollback)
    <3>1. task' = NoTask
      BY <2>3 DEF PrepareRefused, PrepareTurn
    <3> QED BY <1>1, <3>1 DEF TaskRunning, NoTask
  <2> QED
    BY <1>3, <1>4, <2>1, <2>2, <2>3
       DEF CoordinatorStep, CreateSession, LoadSession, DeleteSession, LaunchRefused, LaunchInline
<1>5. CASE InlineStep \/ DrainStep \/ NextEvent \/ Crash \/ PowerLoss
  <2>1. task' = task \/ task' = NoTask
    BY <1>5 DEF InlineStep, InlineStart, InlineSettle, InlineFinish, DrainStep, DrainReceive,
                DrainJoined, NextEvent, Crash, PowerLoss, ProcessDies
  <2> QED BY <1>1, <1>3, <2>1 DEF TaskRunning, NoTask
<1>6. ASSUME NEW outcome \in {"Completed", "Interrupted", "Failed"}, NEW attempted \in BOOLEAN,
             NEW fallback \in BOOLEAN, NEW sticky \in BOOLEAN, NEW failed \in BOOLEAN,
             TaskRunning, Plan(outcome, attempted, fallback, sticky, failed),
             task.terminal # "none" => task.established,
             outcome = "Completed" => task.established /\ ~fallback,
             ~fallback => Trusted \/ (task.new /\ ~attempted)
      PROVE  LocalsInv'
  <2>1. /\ task'.pc = "settleLoad" /\ task'.new = task.new /\ task'.recovering = task.recovering
        /\ task'.established = task.established /\ task'.terminal = task.terminal
        /\ task'.plan.outcome = outcome /\ task'.plan.attempted = attempted
        /\ task'.plan.fallback = fallback
    <3>1. /\ task'.pc = "settleLoad" /\ task'.new = task.new
          /\ task'.recovering = task.recovering
          /\ task'.established = task.established /\ task'.terminal = task.terminal
          /\ task'.plan = [outcome |-> outcome, attempted |-> attempted,
                           fallback |-> fallback, sticky |-> sticky, failed |-> failed]
      BY <1>6, PlanMoves
    <3> QED BY <3>1
  <2>2. Trusted' <=> Trusted
    BY <2>1 DEF Trusted
  <2>3. ~task'.plan.fallback => Trusted' \/ (task'.new /\ ~task'.plan.attempted)
    BY <1>6, <2>1, <2>2
  <2>4. /\ task'.plan.outcome # "InProgress"
        /\ task'.plan.outcome = "Completed" => task'.established /\ ~task'.plan.fallback
        /\ task'.terminal # "none" => task'.established
    BY <1>6, <2>1
  <2> QED BY <2>1, <2>3, <2>4 DEF LocalsInv
<1>7. /\ task.new \in BOOLEAN /\ task.recovering \in BOOLEAN /\ task.established \in BOOLEAN
      /\ (task.new \/ task.recovering) \in BOOLEAN /\ Unestablished \in BOOLEAN
      /\ ~Unestablished <=> Trusted \/ (~task.new /\ ~task.recovering)
      /\ ~(task.new \/ task.recovering) => Trusted
      /\ task.established => ~Unestablished /\ Trusted
      /\ Trusted => ~Unestablished
  BY DEF Unestablished, Trusted, TypeOK, TaskType
<1>8. TaskRunning => (task.terminal # "none" => task.established)
  BY DEF LocalsInv
<1>9. CASE ChildStep
  <2>1. CASE ChildError
    <3>1. TaskRunning /\ Plan("Failed", TRUE, Unestablished, TRUE, FALSE)
      BY <2>1 DEF ChildError, PlanFailure, TaskRunning
    <3> QED BY <1>6, <1>7, <1>8, <3>1
  <2>2. CASE ChildInitialized
    <3>1. /\ task'.pc = "initLoad" /\ task'.established = FALSE /\ task'.terminal = task.terminal
          /\ TaskRunning /\ ~task.established
      BY <2>2 DEF ChildInitialized, TypeOK, TaskType, TaskRunning
    <3> QED BY <1>8, <3>1 DEF LocalsInv
  <2>3. CASE ChildDelta
    <3>1. /\ task'.pc = "sendDelta" /\ task'.established
      BY <2>3 DEF ChildDelta, TypeOK, TaskType
    <3> QED BY <3>1 DEF LocalsInv
  <2>4. ASSUME NEW result, ChildTerminal(result)
        PROVE  LocalsInv'
    <3>1. /\ task'.pc = "running" /\ task'.established
      BY <2>4 DEF ChildTerminal, TypeOK, TaskType
    <3> QED BY <3>1 DEF LocalsInv
  <2>5. CASE ChildEof
    <3>1. /\ task'.pc = "finishing" /\ task'.established
      BY <2>5 DEF ChildEof, LocalsInv, TaskRunning, TypeOK, TaskType
    <3> QED BY <3>1 DEF LocalsInv
  <2> QED BY <1>9, <2>1, <2>2, <2>3, <2>4, <2>5 DEF ChildStep
<1>10. CASE StartTurn \/ Spawned
  <2>1. /\ task'.pc \in {"spawn", "running"} /\ task'.terminal = task.terminal
        /\ task'.established = task.established /\ TaskRunning /\ ~task.established
    BY <1>10 DEF StartTurn, Spawned, TypeOK, TaskType, TaskRunning, LocalsInv
  <2> QED BY <1>8, <2>1 DEF LocalsInv
<1>11. ASSUME NEW ran \in BOOLEAN, SpawnCancelled(ran)
       PROVE  LocalsInv'
  <2>1. /\ TaskRunning
        /\ Plan("Interrupted", ran, task.recovering \/ (task.new /\ ran), FALSE, FALSE)
    BY <1>11 DEF SpawnCancelled, TaskRunning
  <2>2. /\ (task.recovering \/ (task.new /\ ran)) \in BOOLEAN
        /\ ~(task.recovering \/ (task.new /\ ran)) => Trusted \/ (task.new /\ ~ran)
    BY <1>7
  <2> QED BY <1>6, <1>8, <2>1, <2>2
<1>12. ASSUME NEW ran \in BOOLEAN, NEW attempted \in BOOLEAN, SpawnFailed(ran, attempted)
       PROVE  LocalsInv'
  <2>1. /\ TaskRunning
        /\ Plan("Failed", attempted, task.recovering \/ (task.new /\ attempted), TRUE, FALSE)
    BY <1>12 DEF SpawnFailed, PlanFailure, TaskRunning
  <2>2. /\ (task.recovering \/ (task.new /\ attempted)) \in BOOLEAN
        /\ ~(task.recovering \/ (task.new /\ attempted)) => Trusted \/ (task.new /\ ~attempted)
    BY <1>7
  <2> QED BY <1>6, <1>8, <2>1, <2>2
<1>13. ASSUME NEW processFailed \in BOOLEAN, CancelRunning(processFailed)
       PROVE  LocalsInv'
  <2>1. TaskRunning /\ Plan("Interrupted", TRUE, Unestablished, FALSE, processFailed)
    BY <1>13 DEF CancelRunning, PlanInterrupted, TaskRunning
  <2> QED BY <1>6, <1>7, <1>8, <2>1
<1>14. CASE CancelFinishing
  <2>1. TaskRunning /\ Plan("Interrupted", TRUE, Unestablished, FALSE, FALSE)
    BY <1>14 DEF CancelFinishing, PlanInterrupted, TaskRunning
  <2> QED BY <1>6, <1>7, <1>8, <2>1
<1>15. CASE SendDelta \/ SendInitialized
  <2>1. /\ task'.pc = "running" /\ task'.established
    BY <1>15 DEF SendDelta, SendInitialized, LocalsInv, TaskRunning, TypeOK, TaskType
  <2> QED BY <2>1 DEF LocalsInv
<1>16. ASSUME TaskRunning, PlanFailure(TRUE, task.new \/ task.recovering)
       PROVE  LocalsInv'
  BY <1>6, <1>7, <1>8, <1>16 DEF PlanFailure
<1>17. ASSUME NEW readable \in BOOLEAN, InitLoad(readable)
       PROVE  LocalsInv'
  <2>1. CASE readable /\ disk[task.session].lifecycle # "Absent"
    <3>1. /\ task'.pc = "initSave" /\ ~task'.established /\ task'.terminal = task.terminal
          /\ TaskRunning /\ ~task.established
      BY <1>17, <2>1 DEF InitLoad, LocalsInv, TaskRunning, TypeOK, TaskType
    <3> QED BY <1>8, <3>1 DEF LocalsInv
  <2>2. CASE ~(readable /\ disk[task.session].lifecycle # "Absent")
    BY <1>16, <1>17, <2>2 DEF InitLoad, TaskRunning
  <2> QED BY <2>1, <2>2
<1>18. ASSUME NEW status \in CommitStatuses, InitSave(status)
       PROVE  LocalsInv'
  <2>1. CASE status = "verified"
    <3>1. task'.pc = "sendInitialized" /\ task'.established
      BY <1>18, <2>1 DEF InitSave, TypeOK, TaskType
    <3> QED BY <3>1 DEF LocalsInv
  <2>2. CASE status # "verified"
    BY <1>16, <1>18, <2>2 DEF InitSave, TaskRunning
  <2> QED BY <2>1, <2>2
<1>19. ASSUME NEW ok \in BOOLEAN, ChildExit(ok)
       PROVE  LocalsInv'
  <2>1. /\ TaskRunning /\ task.established
        /\ Plan(IF ok /\ task.terminal = "success" THEN "Completed" ELSE "Failed",
                TRUE, Unestablished, FALSE, FALSE)
    BY <1>19 DEF ChildExit, LocalsInv, TaskRunning
  <2> QED BY <1>6, <1>7, <1>8, <2>1
<1>20. ASSUME NEW readable \in BOOLEAN, SettleLoad(readable)
       PROVE  LocalsInv'
  <2>1. CASE readable /\ Recorded(disk[task.session], task.turn)
    <3>1. /\ task'.pc = "settleSave" /\ task'.established = task.established
          /\ task'.terminal = task.terminal /\ task'.plan = task.plan
          /\ task'.new = task.new /\ task'.recovering = task.recovering
          /\ TaskRunning /\ task.pc = "settleLoad"
      BY <1>20, <2>1 DEF SettleLoad, TaskRunning, TypeOK, TaskType
    <3> QED BY <3>1 DEF LocalsInv, Trusted
  <2>2. CASE ~(readable /\ Recorded(disk[task.session], task.turn))
    <3>1. /\ task'.pc = "finish" /\ task'.established = task.established
          /\ task'.terminal = task.terminal /\ task'.report.outcome = "Failed" /\ TaskRunning
      BY <1>20, <2>2 DEF SettleLoad, Report, TaskRunning, TypeOK, TaskType
    <3> QED BY <1>8, <3>1 DEF LocalsInv
  <2> QED BY <2>1, <2>2
<1>21. ASSUME NEW status \in CommitStatuses, SettleSave(status)
       PROVE  LocalsInv'
  <2> DEFINE settled == Settled(task.copy, task.turn, task.plan.outcome, task.plan.attempted)
             report == Report(status = "verified", settled.lifecycle)
  <2>1. /\ task'.pc = "finish" /\ task'.established = task.established
        /\ task'.terminal = task.terminal /\ task'.report = report /\ TaskRunning
        /\ task.pc = "settleSave"
    BY <1>21 DEF SettleSave, TaskRunning, TypeOK, TaskType
  <2>2. /\ task.plan.outcome # "InProgress"
        /\ task.plan.outcome = "Completed" => task.established /\ ~task.plan.fallback
        /\ ~task.plan.fallback => Trusted \/ (task.new /\ ~task.plan.attempted)
    BY <2>1 DEF LocalsInv
  <2>3. report.outcome # "InProgress"
    BY <2>2 DEF Report
  <2>4. report.outcome = "Completed" =>
          /\ task.established
          /\ report.uncertain = (settled.lifecycle = "CreationUncertain")
    BY <2>2 DEF Report
  <2>5. task.established => settled.lifecycle # "CreationUncertain"
    <3>1. /\ task.copy \in SessionRecord /\ task.turn \in Turns
          /\ task.plan.outcome \in Outcomes /\ task.plan.attempted \in BOOLEAN
      BY <2>1 DEF TypeOK, TaskType, PlanType
    <3>2. task.established => Usable(task.copy)
      BY <2>1 DEF RecordInv, Trusted
    <3> QED BY <3>1, <3>2, SettledLifecycle DEF Usable
  <2> HIDE DEF settled, report
  <2>6. task'.report.outcome = "Completed" => task'.established /\ ~task'.report.uncertain
    BY <2>1, <2>4, <2>5
  <2> QED BY <1>8, <2>1, <2>3, <2>6 DEF LocalsInv
<1>22. CASE FinishTurn
  <2>1. task'.pc = "done"
    BY <1>22 DEF FinishTurn, TypeOK, TaskType
  <2> QED BY <1>1, <2>1 DEF TaskRunning
<1>23. CASE UNCHANGED vars
  BY <1>3, <1>23 DEF vars
<1> QED
  BY <1>4, <1>5, <1>9, <1>10, <1>11, <1>12, <1>13, <1>14, <1>15, <1>17, <1>18, <1>19, <1>20,
     <1>21, <1>22, <1>23 DEF Next, TaskStep

-----------------------------------------------------------------------------
(* The records, at every step.                                             *)

\* The steps that the coordinator takes.
CoordinatorSide == CoordinatorStep \/ InlineStep \/ DrainStep \/ NextEvent

\* What is known of the files at every step: see StoreInv.
LEMMA NextKeepsStore ==
  ASSUME TypeOK, CreationInv, StoreInv, OrderInv, RecordInv, [Next]_vars
  PROVE  StoreInv'
<1>1. CASE UNCHANGED <<disk, durable>>
  BY <1>1 DEF StoreInv, Usable
<1>2. CASE CoordinatorSide
  BY <1>2, CoordinatorKept DEF CoordinatorSide
<1>3. ASSUME NEW status \in CommitStatuses, InitSave(status) \/ SettleSave(status)
      PROVE  StoreInv'
  BY <1>3, InitSaveKept, SettleSaveKept DEF TaskKeepsRecords
<1>4. CASE PowerLoss
  <2>1. \A s \in Sessions : disk'[s] \in durable[s] /\ durable'[s] = {disk'[s]}
    BY <1>4 DEF PowerLoss
  <2> QED BY <2>1 DEF StoreInv, Usable
<1>5. CASE ChildStep \/ TaskStep
  BY <1>1, <1>3, <1>5
     DEF ChildStep, ChildInitialized, ChildDelta, ChildTerminal, ChildEof, ChildError, TaskStep,
         StartTurn, Spawned, SpawnCancelled, SpawnFailed, CancelRunning, SendDelta, InitLoad,
         SendInitialized, ChildExit, CancelFinishing, SettleLoad, FinishTurn
<1> QED
  BY <1>1, <1>2, <1>4, <1>5 DEF Next, Crash, vars, storeVars, CoordinatorSide

\* A turn is handed out as verified only when it is on record (prepare_turn).
LEMMA PrepareRecords ==
  ASSUME TypeOK, NEW s \in Sessions, NEW commit \in CommitStatuses,
         NEW rollback \in CommitStatuses, PrepareTurn(s, commit, rollback)
  PROVE  PreparedInv'
<1> DEFINE was    == disk[s].lifecycle
           pushed == [lifecycle |-> IF was = "Fresh" THEN "CreationPending" ELSE was,
                      turns |-> [disk[s].turns EXCEPT ![nextTurn] = "InProgress"]]
<1>1. /\ was \in {"Fresh", "Established", "CreationUncertain"} /\ nextTurn \in Turns
      /\ disk[s].turns \in [Turns -> Outcomes \cup {"None"}]
      /\ disk[s] \in SessionRecord
  BY DEF PrepareTurn, TypeOK, SessionRecord
<1>2. SUFFICES ASSUME prepared' # NoPrepared PROVE PreparedInv'
  BY DEF PreparedInv
<1>3. /\ prepared'.turn = nextTurn /\ prepared'.session = s
      /\ prepared'.new = (was = "Fresh") /\ prepared'.recovering = (was = "CreationUncertain")
      /\ prepared'.verified = (commit = "verified")
      /\ commit = "verified" \/ was = "CreationUncertain"
  BY <1>2 DEF PrepareTurn
<1>4. pushed.turns[nextTurn] = "InProgress" /\ pushed \in SessionRecord
  BY <1>1 DEF SessionRecord, Lifecycles, Outcomes
<1>5. was = "Established" => Usable(pushed)
  BY DEF Usable
<1>6. commit = "verified" => Save(s, pushed, "verified")
  BY DEF PrepareTurn
<1> HIDE DEF pushed
<1>7. commit = "verified" => durable'[s] = {pushed}
  BY <1>4, <1>6, SaveFacts DEF TypeOK, CommitStatuses
<1>8. prepared'.verified =>
        /\ \A r \in durable'[prepared'.session] :
             r.lifecycle = "Absent" \/ r.turns[prepared'.turn] # "None"
        /\ ~prepared'.new /\ ~prepared'.recovering =>
             \A r \in durable'[prepared'.session] : Usable(r)
  <2> SUFFICES ASSUME prepared'.verified
               PROVE  /\ \A r \in durable'[prepared'.session] :
                           r.lifecycle = "Absent" \/ r.turns[prepared'.turn] # "None"
                      /\ ~prepared'.new /\ ~prepared'.recovering =>
                           \A r \in durable'[prepared'.session] : Usable(r)
    OBVIOUS
  <2>1. /\ durable'[prepared'.session] = {pushed}
        /\ pushed.turns[prepared'.turn] # "None"
    BY <1>3, <1>4, <1>7
  <2>2. ~prepared'.new /\ ~prepared'.recovering => Usable(pushed)
    BY <1>1, <1>3, <1>5
  <2> QED BY <2>1, <2>2
<1>9. ~prepared'.verified => prepared'.recovering
  BY <1>3
<1> QED BY <1>8, <1>9 DEF PreparedInv, OnlyUsable, Usable

\* What is known of the prepared turn holds until it is launched or abandoned.
LEMMA NextKeepsPrepared ==
  ASSUME TypeOK, CreationInv, PreparedInv, [Next]_vars
  PROVE  PreparedInv'
<1> USE DEF storeVars
<1>1. CASE prepared' = NoPrepared
  BY <1>1 DEF PreparedInv
<1>2. CASE UNCHANGED <<prepared, durable>>
  BY <1>2 DEF PreparedInv, OnlyUsable, Usable
<1>3. CASE CoordinatorStep
  BY <1>1, <1>2, <1>3, PrepareRecords
     DEF CoordinatorStep, CreateSession, LoadSession, DeleteSession, PrepareRefused,
         LaunchRefused, LaunchTask, LaunchInline, InterruptTurn, BeginDrain
<1>4. ASSUME NEW status \in CommitStatuses, InlineSettle(status)
      PROVE  PreparedInv'
  <2>1. prepared' = prepared /\ ~prepared.verified
    BY <1>4 DEF InlineSettle, CreationInv, PreparedMayCreate, TypeOK
  <2> QED BY <2>1 DEF PreparedInv
<1>5. CASE InlineStart \/ InlineFinish \/ DrainStep \/ NextEvent
  BY <1>1, <1>2, <1>5
     DEF InlineStart, InlineFinish, DrainStep, DrainReceive, DrainJoined, NextEvent
<1>6. CASE ChildStep \/ TaskStep
  <2>1. TaskKeeps /\ task.pc # "none"
    BY <1>6
       DEF ChildStep, ChildInitialized, ChildDelta, ChildTerminal, ChildEof, ChildError, TaskStep,
           StartTurn, Spawned, SpawnCancelled, SpawnFailed, CancelRunning, SendDelta, InitLoad,
           InitSave, SendInitialized, ChildExit, CancelFinishing, SettleLoad, SettleSave,
           FinishTurn
  <2> QED BY <1>1, <2>1, NothingPrepared
<1>7. CASE Crash \/ PowerLoss
  BY <1>1, <1>7 DEF Crash, PowerLoss, ProcessDies
<1> QED
  BY <1>2, <1>3, <1>4, <1>5, <1>6, <1>7 DEF Next, InlineStep, vars

\* The running turn's record beside a step that keeps it, and keeps what the
\* session's copies have in common.
LEMMA RecordsBesideTask ==
  ASSUME TypeOK, RecordInv, StoreInv', TaskRunning,
         Keeping(task.session), KeepingTurn(task.session, task.turn),
         task'.pc = task.pc, task'.turn = task.turn, task'.session = task.session,
         task'.new = task.new, task'.recovering = task.recovering,
         task'.established = task.established, task'.copy = task.copy,
         task'.report = task.report,
         Completions' \subseteq Completions, UNCHANGED creations
  PROVE  RecordInv'
<1>1. task.session \in Sessions /\ task'.session \in Sessions
  BY DEF TypeOK, TaskRunning
<1>2. Trusted' <=> Trusted
  BY DEF Trusted
<1>3. OnRecord(task.session, task.turn)
  BY DEF RecordInv, RunningTurnIsRecorded, OnRecord
<1>4. \A r \in durable'[task'.session] : r.lifecycle = "Absent" \/ r.turns[task'.turn] # "None"
  BY <1>3 DEF KeepingTurn, OnRecord
<1>5. RunningTurnIsRecorded'
  BY <1>1, <1>4 DEF StoreInv, RunningTurnIsRecorded
<1>6. Trusted => \A r \in durable'[task'.session] : Usable(r)
  BY DEF RecordInv, Keeping, OnlyUsable, Usable
<1>7. OnlyUsable(task.session)' <=> \A r \in durable'[task'.session] : Usable(r)
  BY DEF OnlyUsable, Usable
<1>8. ASSUME task.pc = "settleSave"
      PROVE  Usable(task.copy) \/ \A r \in durable'[task'.session] : r.lifecycle # "Established"
  BY <1>8 DEF RecordInv, Keeping
<1>9. ASSUME task.pc = "finish"
      PROVE  /\ task.report.outcome = "Completed" =>
                  \A r \in durable'[task'.session] :
                    \/ r.lifecycle = "Absent"
                    \/ r.lifecycle = "Established" /\ r.turns[task'.turn] = "Completed"
             /\ ~task.report.uncertain /\ creations[task.session] > 0 =>
                  Usable(disk'[task'.session])
  <2>1. task.report.outcome = "Completed" => Done(task.session, task.turn)
    BY <1>9 DEF RecordInv, Done
  <2>2. ~task.report.uncertain /\ creations[task.session] > 0 => Usable(disk[task.session])
    BY <1>9 DEF RecordInv
  <2>3. task.report.outcome = "Completed" =>
                  \A r \in durable'[task'.session] :
                    \/ r.lifecycle = "Absent"
                    \/ r.lifecycle = "Established" /\ r.turns[task'.turn] = "Completed"
    BY <2>1 DEF KeepingTurn, Done
  <2>4. ~task.report.uncertain /\ creations[task.session] > 0 => Usable(disk'[task'.session])
    BY <2>2 DEF Keeping, Usable
  <2> QED BY <2>3, <2>4
<1>10. ASSUME task.pc = "initSave"
       PROVE  /\ task.copy.turns[task.turn] # "None"
              /\ \A e \in Completions' : e.session = task.session => Bears(task.copy, e)
  BY <1>10 DEF RecordInv
<1>11. ASSUME task.pc = "settleSave"
       PROVE  /\ \A e \in Completions' : e.session = task.session =>
                   task.copy.lifecycle = "Absent" \/ Bears(task.copy, e)
              /\ Trusted => Usable(task.copy)
  BY <1>11 DEF RecordInv
<1> QED
  BY <1>2, <1>5, <1>6, <1>7, <1>8, <1>9, <1>10, <1>11 DEF RecordInv, Usable, Bears

\* The coordinator announces no turn as completed, and none as certain.
LEMMA CoordinatorQueues ==
  ASSUME TypeOK, CreationInv, PreparedInv, CoordinatorSide
  PROVE  /\ Completions' \subseteq Completions
         /\ \A e \in Endings' : e \in Endings \/ e.uncertain
         /\ UNCHANGED creations
         /\ stream'.last = stream.last \/ InlineStart
<1> USE DEF storeVars
<1>1. ASSUME \/ events # <<>> /\ events' = Tail(events)
             \/ events' = <<>>
             \/ events' = events
      PROVE  Completions' \subseteq Completions /\ Endings' \subseteq Endings
  BY <1>1, ReceiveQueued
<1>2. CASE CoordinatorStep
  <2>1. UNCHANGED <<events, creations, stream>>
    BY <1>2 DEF CoordinatorStep, CreateSession, LoadSession, DeleteSession, PrepareTurn,
         PrepareRefused, LaunchRefused, LaunchTask, LaunchInline, InterruptTurn, BeginDrain
  <2> QED BY <1>1, <2>1
<1>3. CASE DrainStep \/ NextEvent
  BY <1>1, <1>3 DEF DrainStep, DrainReceive, DrainJoined, NextEvent
<1>4. ASSUME NEW status \in CommitStatuses, InlineSettle(status)
      PROVE  /\ Completions' \subseteq Completions /\ Endings' \subseteq Endings
             /\ UNCHANGED <<creations, stream>>
  BY <1>1, <1>4 DEF InlineSettle
<1>5. CASE InlineStart
  <2> DEFINE e == Event("TurnStarted", prepared.session, prepared.turn, "InProgress", FALSE)
  <2>1. prepared \in PreparedType
    BY <1>5 DEF InlineStart, TypeOK
  <2>2. e \in ServiceEvent /\ e.kind = "TurnStarted" /\ Send(e)
    BY <1>5, <2>1 DEF InlineStart, Event, ServiceEvent, PreparedType, Outcomes
  <2>3. Endings' = Endings /\ Completions' = Completions
    BY <2>2, SendQueues
  <2> QED BY <1>5, <2>3 DEF InlineStart
<1>6. CASE InlineFinish
  <2> DEFINE e == Event("TurnFinished", prepared.session, prepared.turn, "Failed",
                        prepared.recovering)
  <2>1. prepared \in PreparedType /\ prepared # NoPrepared
    BY <1>6 DEF InlineFinish, TypeOK
  <2>2. prepared.recovering
    BY <1>6, <2>1 DEF InlineFinish, CreationInv, PreparedMayCreate, PreparedInv
  <2>3. e \in ServiceEvent /\ e.outcome = "Failed" /\ e.uncertain /\ Send(e)
    BY <1>6, <2>1, <2>2 DEF InlineFinish, Event, ServiceEvent, PreparedType, Outcomes
  <2>4. Endings' \subseteq Endings \cup {e} /\ Completions' = Completions
    BY <2>3, SendQueues
  <2>5. UNCHANGED creations /\ stream'.last = stream.last
    BY <1>6 DEF InlineFinish, TypeOK
  <2> HIDE DEF e
  <2> QED BY <2>3, <2>4, <2>5
<1> QED
  BY <1>2, <1>3, <1>4, <1>5, <1>6 DEF CoordinatorSide, InlineStep, CoordinatorStep,
     CreateSession, LoadSession, DeleteSession, PrepareTurn, PrepareRefused, LaunchRefused,
     LaunchTask, LaunchInline, InterruptTurn, BeginDrain, DrainStep, DrainReceive, DrainJoined,
     NextEvent

\* Whatever the coordinator does meanwhile, the running turn stays on record.
LEMMA CoordinatorKeepsRecord ==
  ASSUME TypeOK, CreationInv, StoreInv, OrderInv, PreparedInv, RecordInv, CoordinatorSide
  PROVE  RecordInv'
<1> USE DEF storeVars
<1>1. ASSUME ~TaskRunning'
      PROVE  RecordInv'
  BY <1>1 DEF RecordInv
<1>2. /\ StoreInv' /\ Completions' \subseteq Completions /\ UNCHANGED creations
      /\ \A z \in registered : Keeping(z)
      /\ \A z \in registered, t \in Turns :
           t < nextTurn /\ t # prepared.turn => KeepingTurn(z, t)
  <2>1. Completions' \subseteq Completions /\ UNCHANGED creations
    BY CoordinatorQueues
  <2>2. /\ StoreInv' /\ \A z \in registered : Keeping(z)
        /\ \A z \in registered, t \in Turns :
             t < nextTurn /\ t # prepared.turn => KeepingTurn(z, t)
    BY CoordinatorKept DEF CoordinatorSide
  <2> QED BY <2>1, <2>2
<1>3. ASSUME TaskRunning
      PROVE  Keeping(task.session) /\ KeepingTurn(task.session, task.turn)
  <2>1. prepared = NoPrepared /\ task.session \in registered /\ task.turn \in Turns
        /\ task.turn < nextTurn
    BY <1>3 DEF CreationInv, PreparedMayCreate, TaskMayCreate, OrderInv, TaskRunning, TypeOK
  <2>2. task.turn # prepared.turn
    BY <2>1 DEF NoPrepared, NoTurn, Turns
  <2> QED BY <1>2, <2>1, <2>2
<1>4. ASSUME task'.pc = task.pc, task'.turn = task.turn, task'.session = task.session,
             task'.new = task.new, task'.recovering = task.recovering,
             task'.established = task.established, task'.copy = task.copy,
             task'.report = task.report
      PROVE  RecordInv'
  <2>1. CASE ~TaskRunning
    BY <1>1, <1>4, <2>1 DEF TaskRunning
  <2>2. CASE TaskRunning
    BY <1>2, <1>3, <1>4, <2>2, RecordsBesideTask
  <2> QED BY <2>1, <2>2
<1>5. CASE LaunchTask
  <2>1. /\ task'.pc = "start" /\ task'.turn = prepared.turn /\ task'.session = prepared.session
        /\ task'.new = prepared.new /\ task'.recovering = prepared.recovering
        /\ ~task'.established /\ prepared # NoPrepared /\ prepared.verified
        /\ UNCHANGED <<disk, durable>>
    BY <1>5 DEF LaunchTask, TaskOf, NoTask
  <2>2. prepared.session \in Sessions
    BY <2>1 DEF TypeOK, PreparedType
  <2>3. /\ \A r \in durable[prepared.session] :
             r.lifecycle = "Absent" \/ r.turns[prepared.turn] # "None"
        /\ ~prepared.new /\ ~prepared.recovering =>
             \A r \in durable[prepared.session] : Usable(r)
    BY <2>1 DEF PreparedInv, OnlyUsable
  <2>4. RunningTurnIsRecorded'
    BY <2>1, <2>2, <2>3 DEF RunningTurnIsRecorded, StoreInv
  <2> QED BY <2>1, <2>3, <2>4 DEF RecordInv, Trusted, OnlyUsable, Usable
<1>6. ASSUME InterruptTurn \/ \E latch \in BOOLEAN : BeginDrain(latch)
      PROVE  RecordInv'
  <2>1. task' = task \/ task' = [task EXCEPT !.cancelled = TRUE]
    BY <1>6 DEF InterruptTurn, BeginDrain
  <2> QED BY <1>4, <2>1 DEF TypeOK, TaskType
<1>7. CASE task' = task
  BY <1>4, <1>7
<1>8. CASE task' = NoTask
  BY <1>1, <1>8 DEF NoTask, TaskRunning
<1> QED
  BY <1>5, <1>6, <1>7, <1>8
     DEF CoordinatorSide, CoordinatorStep, CreateSession, LoadSession, DeleteSession, PrepareTurn,
         PrepareRefused, LaunchRefused, LaunchInline, InlineStep, InlineStart, InlineSettle,
         InlineFinish, DrainStep, DrainReceive, DrainJoined, NextEvent

\* A step of the task that touches no file and has nothing new in hand.
LEMMA TaskMovesKeepRecord ==
  ASSUME TypeOK, RecordInv, TaskGoesOn, UNCHANGED <<disk, durable>>,
         task'.established = task.established,
         task'.pc \notin {"initSave", "settleSave", "finish"}
  PROVE  RecordInv'
<1>1. Trusted' <=> Trusted
  BY DEF Trusted, TaskGoesOn
<1> QED
  BY <1>1 DEF RecordInv, TaskGoesOn, RunningTurnIsRecorded, OnlyUsable, Usable

\* The task's own steps keep the turn on record; what it read it may write back,
\* and what it is about to say holds (persist_initialized, settle_record).
LEMMA TaskKeepsRecord ==
  ASSUME TypeOK, CreationInv, StoreInv, OrderInv, LocalsInv, RecordInv, Announced,
         ChildStep \/ TaskStep
  PROVE  RecordInv'
<1>1. ASSUME ~TaskRunning'
      PROVE  RecordInv'
  BY <1>1 DEF RecordInv
<1>2. StartTurn \/ FinishTurn \/ TaskGoesOn
  BY TaskStepsGoOn
<1>3. CASE FinishTurn
  BY <1>1, <1>3 DEF FinishTurn, TaskRunning, TypeOK, TaskType
<1>4. CASE StartTurn
  <2>1. /\ task.pc = "start" /\ task'.pc = "spawn" /\ UNCHANGED <<disk, durable>>
        /\ task'.turn = task.turn /\ task'.session = task.session
        /\ task'.established = task.established
        /\ task'.new = task.new /\ task'.recovering = task.recovering
    BY <1>4 DEF StartTurn, TypeOK, TaskType
  <2> QED
    BY <2>1 DEF RecordInv, RunningTurnIsRecorded, OnlyUsable, Usable, Trusted, TaskRunning
<1>5. ASSUME TaskGoesOn, NEW readable \in BOOLEAN, InitLoad(readable),
             readable /\ disk[task.session].lifecycle # "Absent"
      PROVE  RecordInv'
  <2>1. /\ task.pc = "initLoad" /\ task'.pc = "initSave" /\ task'.copy = disk[task.session]
        /\ task'.established = task.established /\ UNCHANGED <<disk, durable>>
    BY <1>5 DEF InitLoad, TypeOK, TaskType
  <2>2. task.session \in Sessions /\ disk[task.session] \in durable[task.session]
    BY <2>1 DEF StoreInv, TypeOK
  <2>3. disk[task.session].turns[task.turn] # "None"
    BY <1>5, <2>2 DEF RecordInv, RunningTurnIsRecorded, TaskGoesOn
  <2>4. \A e \in Completions : e.session = task.session => Bears(disk[task.session], e)
    BY <1>5, <2>2 DEF Announced
  <2>5. RunningTurnIsRecorded' /\ (Trusted' => OnlyUsable(task.session)')
    BY <1>5, <2>1
       DEF RecordInv, RunningTurnIsRecorded, OnlyUsable, Usable, Trusted, TaskGoesOn
  <2> QED BY <1>5, <2>1, <2>3, <2>4, <2>5 DEF RecordInv, TaskGoesOn, Bears
<1>6. ASSUME TaskGoesOn, NEW status \in CommitStatuses, InitSave(status)
      PROVE  RecordInv'
  <2>1. TaskKeepsRecords /\ (status = "verified" => OnlyUsable(task.session)')
    BY <1>6, InitSaveKept
  <2>2. /\ task.session \in Sessions /\ task'.session = task.session /\ task'.turn = task.turn
        /\ task'.new = task.new /\ task'.recovering = task.recovering
    BY <1>6 DEF TypeOK, TaskRunning, TaskGoesOn
  <2>3. /\ task'.pc \in {"sendInitialized", "settleLoad"}
        /\ status # "verified" => task'.established = task.established
    <3>1. CASE status = "verified"
      BY <1>6, <3>1 DEF InitSave, TypeOK, TaskType
    <3>2. CASE status # "verified"
      BY <1>6, <3>2, PlanMoves DEF InitSave, PlanFailure
    <3> QED BY <3>1, <3>2
  <2>4. OnRecord(task.session, task.turn)'
    BY <1>6, <2>1 DEF TaskKeepsRecords, RecordInv, RunningTurnIsRecorded, OnRecord, TaskGoesOn
  <2>5. RunningTurnIsRecorded'
    BY <2>1, <2>2, <2>4 DEF TaskKeepsRecords, StoreInv, OnRecord, RunningTurnIsRecorded
  <2>6. Trusted' => OnlyUsable(task.session)'
    <3>1. CASE status = "verified"
      BY <2>1, <3>1
    <3>2. CASE status # "verified"
      <4>1. Trusted' <=> Trusted
        BY <2>2, <2>3, <3>2 DEF Trusted
      <4> QED BY <1>6, <2>1, <4>1 DEF TaskKeepsRecords, RecordInv, TaskGoesOn
    <3> QED BY <3>1, <3>2
  <2> QED BY <2>3, <2>5, <2>6 DEF RecordInv
<1>7. ASSUME TaskGoesOn, NEW readable \in BOOLEAN, SettleLoad(readable)
      PROVE  RecordInv'
  <2>1. /\ task.pc = "settleLoad" /\ UNCHANGED <<disk, durable, creations>>
        /\ task'.established = task.established
        /\ task'.session = task.session /\ task'.turn = task.turn
        /\ task'.new = task.new /\ task'.recovering = task.recovering
        /\ TaskRunning /\ task.session \in Sessions
    BY <1>7 DEF SettleLoad, TypeOK, TaskType, TaskRunning
  <2>2. disk[task.session] \in durable[task.session]
    BY <2>1 DEF StoreInv
  <2>3. RunningTurnIsRecorded' /\ (Trusted' => OnlyUsable(task.session)')
    BY <1>7, <2>1
       DEF RecordInv, RunningTurnIsRecorded, OnlyUsable, Usable, Trusted, TaskGoesOn
  <2>4. Trusted => Usable(disk[task.session])
    BY <2>1, <2>2 DEF RecordInv, OnlyUsable
  <2>5. Trusted' <=> Trusted
    BY <2>1 DEF Trusted
  <2>6. CASE readable /\ Recorded(disk[task.session], task.turn)
    <3>1. task'.pc = "settleSave" /\ task'.copy = disk[task.session]
      BY <1>7, <2>6 DEF SettleLoad, TypeOK, TaskType
    <3>2. \A e \in Completions : e.session = task.session =>
            disk[task.session].lifecycle = "Absent" \/ Bears(disk[task.session], e)
      BY <2>2 DEF Announced
    <3>3. Usable(disk[task.session]) \/ \A r \in durable[task.session] :
                                          r.lifecycle # "Established"
      BY <2>1 DEF StoreInv
    <3> QED
      BY <1>7, <2>1, <2>3, <2>4, <2>5, <3>1, <3>2, <3>3
         DEF RecordInv, TaskGoesOn, Bears, Usable
  <2>7. CASE ~(readable /\ Recorded(disk[task.session], task.turn))
    <3>1. /\ task'.pc = "finish" /\ task'.report.outcome = "Failed"
          /\ task'.report.uncertain = task.plan.fallback
      BY <1>7, <2>7 DEF SettleLoad, Report, TypeOK, TaskType, PlanType
    <3>2. ~task.plan.fallback => Trusted \/ creations[task.session] = 0
      BY <2>1 DEF LocalsInv, CreationInv, TaskMayCreate
    <3>3. ~task'.report.uncertain /\ creations'[task'.session] > 0 => Usable(disk'[task'.session])
      BY <2>1, <2>4, <3>1, <3>2
    <3> QED BY <2>3, <3>1, <3>3 DEF RecordInv, Usable
  <2> QED BY <2>6, <2>7
<1>8. ASSUME TaskGoesOn, NEW status \in CommitStatuses, SettleSave(status)
      PROVE  RecordInv'
  <2> DEFINE new == Settled(task.copy, task.turn, task.plan.outcome, task.plan.attempted)
             report == Report(status = "verified", new.lifecycle)
  <2>1. /\ TaskKeepsRecords
        /\ status = "verified" => disk'[task.session] = new /\ durable'[task.session] = {new}
        /\ disk'[task.session] \in {disk[task.session], new}
        /\ Trusted => Usable(new)
    BY <1>8, SettleSaveKept
  <2>2. /\ task.pc = "settleSave" /\ task'.pc = "finish" /\ task'.report = report
        /\ task'.established = task.established
        /\ task'.session = task.session /\ task'.turn = task.turn
        /\ task'.new = task.new /\ task'.recovering = task.recovering
        /\ TaskRunning /\ task.session \in Sessions /\ task.turn \in Turns
        /\ UNCHANGED creations
    BY <1>8 DEF SettleSave, TypeOK, TaskType, TaskRunning
  <2>3. /\ task.copy \in SessionRecord
        /\ task.plan.outcome \in Outcomes /\ task.plan.attempted \in BOOLEAN
        /\ task.new \in BOOLEAN
    BY DEF TypeOK, TaskType, PlanType
  <2>4. /\ new.turns[task.turn] = task.plan.outcome
        /\ new.lifecycle = IF task.copy.lifecycle = "CreationPending"
                           THEN IF task.plan.attempted THEN "CreationUncertain" ELSE "Fresh"
                           ELSE task.copy.lifecycle
        /\ new \in SessionRecord
    BY <2>2, <2>3, SettledLifecycle, SettledRecord
  <2>5. /\ task.plan.outcome = "Completed" => Trusted
        /\ ~task.plan.fallback => Trusted \/ (task.new /\ ~task.plan.attempted)
    BY <2>2 DEF LocalsInv, Trusted
  <2>6. /\ task.new /\ ~task.plan.attempted => creations[task.session] = 0
        /\ task.copy.lifecycle # "Fresh"
        /\ ~task.new => task.copy.lifecycle # "CreationPending"
    BY <2>2 DEF CreationInv, TaskMayCreate, CopyIsNotFresh
  <2>7. /\ report.outcome = "Completed" =>
             status = "verified" /\ task.plan.outcome = "Completed"
        /\ ~report.uncertain =>
             IF status = "verified" THEN new.lifecycle # "CreationUncertain"
                                    ELSE ~task.plan.fallback
    BY DEF Report
  <2> HIDE DEF new, report
  <2>8. report.outcome = "Completed" =>
          \A r \in durable'[task.session] :
            \/ r.lifecycle = "Absent"
            \/ r.lifecycle = "Established" /\ r.turns[task.turn] = "Completed"
    BY <2>1, <2>4, <2>5, <2>7 DEF Usable
  <2>9. Trusted => Usable(disk[task.session])
    <3>1. disk[task.session] \in durable[task.session]
      BY <2>2 DEF StoreInv
    <3> QED BY <2>2, <3>1 DEF RecordInv, OnlyUsable
  <2>10. ~report.uncertain /\ creations[task.session] > 0 => Usable(disk'[task.session])
    <3>1. CASE status = "verified"
      <4>1. ~report.uncertain /\ creations[task.session] > 0 =>
              new.lifecycle \in {"Established", "Absent"}
        BY <2>3, <2>4, <2>6, <2>7, <3>1 DEF SessionRecord, Lifecycles
      <4> QED BY <2>1, <3>1, <4>1 DEF Usable
    <3>2. CASE status # "verified"
      BY <2>1, <2>5, <2>6, <2>7, <2>9, <3>2
    <3> QED BY <3>1, <3>2
  <2>11. OnRecord(task.session, task.turn)'
    BY <2>1, <2>2 DEF TaskKeepsRecords, RecordInv, RunningTurnIsRecorded, OnRecord
  <2>12. RunningTurnIsRecorded'
    BY <2>1, <2>2, <2>11 DEF TaskKeepsRecords, StoreInv, OnRecord, RunningTurnIsRecorded
  <2>13. Trusted' => OnlyUsable(task.session)'
    <3>1. Trusted' <=> Trusted
      BY <2>2 DEF Trusted
    <3> QED BY <2>1, <2>2, <3>1 DEF TaskKeepsRecords, RecordInv
  <2>14. /\ task'.report.outcome = "Completed" =>
              \A r \in durable'[task'.session] :
                \/ r.lifecycle = "Absent"
                \/ r.lifecycle = "Established" /\ r.turns[task'.turn] = "Completed"
         /\ ~task'.report.uncertain /\ creations'[task'.session] > 0 =>
              Usable(disk'[task'.session])
    BY <2>2, <2>8, <2>10
  <2> QED BY <2>2, <2>12, <2>13, <2>14 DEF RecordInv, Usable
<1>9. ASSUME TaskGoesOn, NEW outcome, NEW attempted, NEW fallback, NEW sticky, NEW failed,
             Plan(outcome, attempted, fallback, sticky, failed), UNCHANGED <<disk, durable>>
      PROVE  RecordInv'
  BY <1>9, PlanMoves, TaskMovesKeepRecord
<1>10. ASSUME TaskGoesOn, ChildStep
       PROVE  RecordInv'
  <2>1. CASE ChildError
    BY <1>9, <1>10, <2>1 DEF ChildError, PlanFailure
  <2>2. CASE ChildInitialized \/ ChildEof
    BY <1>10, <2>2, TaskMovesKeepRecord DEF ChildInitialized, ChildEof, TypeOK, TaskType
  <2>3. CASE ChildDelta
    <3>1. task'.pc = "sendDelta" /\ task'.established = task.established
          /\ UNCHANGED <<disk, durable>>
      BY <2>3 DEF ChildDelta, TypeOK, TaskType
    <3> QED BY <1>10, <3>1, TaskMovesKeepRecord
  <2>4. ASSUME NEW result, ChildTerminal(result)
        PROVE  RecordInv'
    BY <1>10, <2>4, TaskMovesKeepRecord DEF ChildTerminal, TypeOK, TaskType
  <2> QED BY <1>10, <2>1, <2>2, <2>3, <2>4 DEF ChildStep
<1>11. ASSUME TaskGoesOn, Spawned \/ SendDelta \/ SendInitialized
       PROVE  RecordInv'
  <2>1. task'.pc = "running" /\ task'.established = task.established
        /\ UNCHANGED <<disk, durable>>
    BY <1>11 DEF Spawned, SendDelta, SendInitialized, TypeOK, TaskType
  <2> QED BY <1>11, <2>1, TaskMovesKeepRecord
<1>12. ASSUME TaskGoesOn, TaskStep, ~Spawned, ~SendDelta, ~SendInitialized, ~StartTurn, ~FinishTurn
       PROVE  RecordInv'
  <2>1. ASSUME NEW ran \in BOOLEAN, SpawnCancelled(ran)
        PROVE  RecordInv'
    BY <1>9, <1>12, <2>1 DEF SpawnCancelled
  <2>2. ASSUME NEW ran \in BOOLEAN, NEW attempted \in BOOLEAN, SpawnFailed(ran, attempted)
        PROVE  RecordInv'
    BY <1>9, <1>12, <2>2 DEF SpawnFailed, PlanFailure
  <2>3. ASSUME NEW failed \in BOOLEAN, CancelRunning(failed) \/ CancelFinishing
        PROVE  RecordInv'
    BY <1>9, <1>12, <2>3 DEF CancelRunning, CancelFinishing, PlanInterrupted
  <2>4. ASSUME NEW readable \in BOOLEAN, InitLoad(readable)
        PROVE  RecordInv'
    <3>1. CASE readable /\ disk[task.session].lifecycle # "Absent"
      BY <1>5, <1>12, <2>4, <3>1
    <3>2. CASE ~(readable /\ disk[task.session].lifecycle # "Absent")
      BY <1>9, <1>12, <2>4, <3>2 DEF InitLoad, PlanFailure
    <3> QED BY <3>1, <3>2
  <2>5. ASSUME NEW ok \in BOOLEAN, ChildExit(ok)
        PROVE  RecordInv'
    BY <1>9, <1>12, <2>5 DEF ChildExit
  <2> QED BY <1>6, <1>7, <1>8, <1>12, <2>1, <2>2, <2>3, <2>4, <2>5 DEF TaskStep
<1> QED BY <1>2, <1>3, <1>4, <1>10, <1>11, <1>12

-----------------------------------------------------------------------------
(* What was announced.                                                     *)

\* An ending keeps its truth beside a step that keeps its session's copies.
LEMMA AnnouncedStays ==
  ASSUME NEW e,
         \A r \in durable[e.session] : r.lifecycle = "Absent" \/ Bears(r, e),
         Done(e.session, e.turn) => Done(e.session, e.turn)'
  PROVE  \A r \in durable'[e.session] : r.lifecycle = "Absent" \/ Bears(r, e)
<1>1. Done(e.session, e.turn)
  BY DEF Done, Bears
<1> QED BY <1>1 DEF Done, Bears

\* What was announced stays true, at every step of any party.
LEMMA NextKeepsAnnounced ==
  ASSUME TypeOK, CreationInv, HistoryInv, [Next]_vars
  PROVE  Announced'
<1> USE DEF HistoryInv
<1>1. \A e \in Endings :
        /\ e \in ServiceEvent /\ e.turn \in Turns /\ e.session \in registered
        /\ e.turn < nextTurn /\ e.turn # prepared.turn
        /\ TaskRunning => e.turn # task.turn
  BY AnnouncedElsewhere
<1>2. Completions \subseteq Endings /\ Completions' \subseteq Endings'
  BY DEF Completions
<1>3. CASE UNCHANGED vars
  BY <1>3 DEF vars, storeVars, Announced, Endings, Completions, Queued, Usable, Bears
<1>4. CASE CoordinatorSide
  <2>1. /\ Completions' \subseteq Completions /\ \A e \in Endings' : e \in Endings \/ e.uncertain
        /\ UNCHANGED creations
        /\ stream'.last = stream.last \/ InlineStart
    BY <1>4, CoordinatorQueues
  <2>2. /\ \A z \in registered : Keeping(z)
        /\ \A z \in registered, t \in Turns :
             t < nextTurn /\ t # prepared.turn => KeepingTurn(z, t)
    BY <1>4, CoordinatorKept DEF CoordinatorSide
  <2>3. ASSUME NEW e \in Completions'
        PROVE  \A r \in durable'[e.session] : r.lifecycle = "Absent" \/ Bears(r, e)
    <3>1. \A r \in durable[e.session] : r.lifecycle = "Absent" \/ Bears(r, e)
      BY <2>1 DEF Announced
    <3>2. Done(e.session, e.turn) => Done(e.session, e.turn)'
      BY <1>1, <1>2, <2>1, <2>2 DEF KeepingTurn
    <3> QED BY <3>1, <3>2, AnnouncedStays
  <2>4. ASSUME NEW e \in Endings', ~e.uncertain, e.turn = stream'.last, creations'[e.session] > 0
        PROVE  Usable(disk'[e.session])
    <3>1. e \in Endings
      BY <2>1, <2>4
    <3>2. stream'.last = stream.last
      <4>1. InlineStart => stream'.last = prepared.turn
        BY DEF InlineStart
      <4> QED BY <1>1, <2>1, <2>4, <3>1, <4>1
    <3>3. Usable(disk[e.session])
      BY <2>1, <2>4, <3>1, <3>2 DEF Announced
    <3>4. Keeping(e.session)
      BY <1>1, <2>2, <3>1
    <3> QED BY <3>3, <3>4 DEF Keeping
  <2> QED BY <2>3, <2>4 DEF Announced, Bears, Usable
<1>5. CASE StartTurn
  <2>1. /\ Progress("TurnStarted") \in ServiceEvent /\ Send(Progress("TurnStarted"))
        /\ Progress("TurnStarted").kind = "TurnStarted"
    BY <1>5, ProgressType DEF StartTurn, Progress, Event
  <2>2. Endings' = Endings /\ Completions' = Completions
    BY <2>1, SendQueues
  <2>3. /\ UNCHANGED <<disk, durable, creations>> /\ stream'.last = task.turn /\ TaskRunning
    BY <1>5 DEF StartTurn, TaskRunning
  <2> QED BY <1>1, <2>2, <2>3 DEF Announced, Bears, Usable
<1>6. CASE FinishTurn
  <2> DEFINE e == Event("TurnFinished", task.session, task.turn, task.report.outcome,
                        task.report.uncertain)
  <2>1. /\ TaskRunning /\ task.pc = "finish" /\ task.turn \in Turns /\ task.session \in Sessions
        /\ UNCHANGED <<disk, durable, creations>> /\ stream'.last = stream.last
    BY <1>6 DEF FinishTurn, TypeOK, TaskRunning
  <2>2. /\ e \in ServiceEvent /\ Send(e)
        /\ e.session = task.session /\ e.turn = task.turn
        /\ e.outcome = task.report.outcome /\ e.uncertain = task.report.uncertain
    BY <1>6, <2>1 DEF FinishTurn, Event, ServiceEvent, TypeOK, TaskType
  <2>3. /\ task.report.outcome = "Completed" =>
             \A r \in durable[task.session] : r.lifecycle = "Absent" \/ Bears(r, e)
        /\ ~task.report.uncertain /\ creations[task.session] > 0 => Usable(disk[task.session])
    BY <2>1, <2>2 DEF RecordInv, Bears
  <2>4. /\ Endings' \subseteq Endings \cup {e}
        /\ \A f \in Completions' : f \in Completions \/ (f = e /\ e.outcome = "Completed")
    BY <2>2, SendQueues
  <2> HIDE DEF e
  <2> QED BY <2>1, <2>2, <2>3, <2>4 DEF Announced, Bears, Usable
<1>7. CASE (ChildStep \/ TaskStep) /\ TaskGoesOn
  <2>1. /\ Endings' = Endings /\ Completions' = Completions
        /\ \A e \in Endings : e.turn # stream'.last
    BY <1>1, <1>7 DEF TaskGoesOn, OrderInv
  <2>2. ASSUME NEW e \in Completions
        PROVE  \A r \in durable'[e.session] : r.lifecycle = "Absent" \/ Bears(r, e)
    <3>1. \A r \in durable[e.session] : r.lifecycle = "Absent" \/ Bears(r, e)
      BY DEF Announced
    <3>2. Done(e.session, e.turn) => Done(e.session, e.turn)'
      <4>1. CASE UNCHANGED durable
        BY <4>1 DEF Done
      <4>2. ASSUME NEW status \in CommitStatuses, InitSave(status) \/ SettleSave(status)
            PROVE  Done(e.session, e.turn) => Done(e.session, e.turn)'
        <5>1. TaskKeepsRecords
          BY <4>2, InitSaveKept, SettleSaveKept
        <5>2. CASE e.session = task.session
          BY <5>1, <5>2 DEF TaskKeepsRecords
        <5>3. CASE e.session # task.session
          <6>1. e.session \in Sessions
            BY <1>1, <1>2 DEF TypeOK
          <6> QED BY <5>1, <5>3, <6>1 DEF TaskKeepsRecords, Done
        <5> QED BY <5>2, <5>3
      <4> QED
        BY <1>7, <4>1, <4>2
           DEF ChildStep, ChildInitialized, ChildDelta, ChildTerminal, ChildEof, ChildError,
               TaskStep, StartTurn, Spawned, SpawnCancelled, SpawnFailed, CancelRunning,
               SendDelta, InitLoad, SendInitialized, ChildExit, CancelFinishing, SettleLoad,
               FinishTurn
    <3> QED BY <3>1, <3>2, AnnouncedStays
  <2> QED BY <2>1, <2>2 DEF Announced, Bears
<1>8. CASE Crash \/ PowerLoss
  <2>1. events' = <<>>
    BY <1>8 DEF Crash, PowerLoss, ProcessDies
  <2>2. Endings' = {} /\ Completions' = {}
    BY <2>1 DEF Endings, Completions, Queued
  <2> QED BY <2>2 DEF Announced
<1> QED
  BY <1>3, <1>4, <1>5, <1>6, <1>7, <1>8, TaskStepsGoOn DEF Next, CoordinatorSide

\* A service that starts has announced nothing and recorded nothing.
LEMMA HistoryInit == Init => HistoryInv
<1> SUFFICES ASSUME Init PROVE HistoryInv
  OBVIOUS
<1>1. Endings = {} /\ Completions = {}
  BY DEF Init, Endings, Completions, Queued
<1>2. ~TaskRunning /\ prepared = NoPrepared /\ stream.open = NoTurn /\ stream.last < nextTurn
  BY DEF Init, TaskRunning, NoTask, NoTurn
<1>3. StoreInv
  BY SessionRecords DEF Init, StoreInv
<1> QED
  BY <1>1, <1>2, <1>3
     DEF HistoryInv, OrderInv, LocalsInv, PreparedInv, RecordInv, Announced

\* HistoryInv is inductive, given the types and CreationInv.
LEMMA NextKeepsHistory == TypeOK /\ CreationInv /\ HistoryInv /\ [Next]_vars => HistoryInv'
<1> SUFFICES ASSUME TypeOK, CreationInv, HistoryInv, [Next]_vars PROVE HistoryInv'
  OBVIOUS
<1>1. StoreInv' /\ OrderInv' /\ LocalsInv' /\ PreparedInv'
  BY NextKeepsStore, NextKeepsOrder, NextKeepsLocals, NextKeepsPrepared DEF HistoryInv
<1>2. Announced'
  BY NextKeepsAnnounced
<1>3. RecordInv'
  <2>1. CASE CoordinatorSide
    BY <2>1, CoordinatorKeepsRecord DEF HistoryInv
  <2>2. CASE ChildStep \/ TaskStep
    BY <2>2, TaskKeepsRecord DEF HistoryInv
  <2>3. CASE Crash \/ PowerLoss
    <3>1. ~TaskRunning'
      BY <2>3 DEF Crash, PowerLoss, ProcessDies, TaskRunning, NoTask
    <3> QED BY <3>1 DEF RecordInv
  <2>4. CASE UNCHANGED vars
    BY <2>4 DEF vars, storeVars, HistoryInv, RecordInv, RunningTurnIsRecorded, OnlyUsable,
         Usable, Trusted, TaskRunning, Bears, Completions, Endings, Queued
  <2> QED BY <2>1, <2>2, <2>3, <2>4 DEF Next, CoordinatorSide
<1> QED BY <1>1, <1>2, <1>3 DEF HistoryInv

\* What is on record, what the running turn has in hand, and what was announced
\* agree in every reachable state.
THEOREM HistoryKept == Spec => []HistoryInv
<1>1. Init => HistoryInv
  BY HistoryInit
<1>2. TypeOK /\ CreationInv /\ HistoryInv /\ [Next]_vars => HistoryInv'
  BY NextKeepsHistory
<1> QED
  BY <1>1, <1>2, TypeSafety, CreationClaimed, PTL DEF Spec

\* For any number of sessions and turns, the store never loses the turn that runs
\* nor an outcome that was announced as completed, whichever saves fail or stay
\* unverified, and whenever the process or the power goes.
THEOREM TurnsStay == Spec => []TurnsAreKept
<1>1. TypeOK /\ HistoryInv => TurnsAreKept
  <2> SUFFICES ASSUME TypeOK, HistoryInv PROVE TurnsAreKept
    OBVIOUS
  <2>1. RunningTurnIsRecorded
    BY DEF HistoryInv, RecordInv, RunningTurnIsRecorded
  <2>2. ASSUME NEW i \in 1..Len(events), events[i].kind = "TurnFinished",
               events[i].outcome = "Completed"
        PROVE  events[i] \in Completions
    BY <2>2 DEF Completions, Endings, Queued
  <2>3. CompletedIsDurable
    BY <2>2 DEF HistoryInv, Announced, Bears, CompletedIsDurable
  <2> QED BY <2>1, <2>3 DEF TurnsAreKept
<1> QED BY <1>1, TypeSafety, HistoryKept, PTL

\* For any number of sessions and turns, a last turn that finished without
\* creation_uncertain leaves no session in doubt.
THEOREM DoubtIsReported == Spec => []UncertaintyIsReported
<1>1. HistoryInv => UncertaintyIsReported
  <2> SUFFICES ASSUME HistoryInv PROVE UncertaintyIsReported
    OBVIOUS
  <2>1. ASSUME NEW i \in 1..Len(events), events[i].kind = "TurnFinished"
        PROVE  events[i] \in Endings
    BY <2>1 DEF Endings, Queued
  <2> QED BY <2>1 DEF HistoryInv, Announced, Usable, UncertaintyIsReported
<1> QED BY <1>1, HistoryKept, PTL

\* What every copy of a session confirms is not taken back by a step of any party.
LEMMA StepKeepsEstablished ==
  ASSUME TypeOK, CreationInv, HistoryInv, [Next]_vars, NEW s \in Sessions, Confirmed(s)
  PROVE  \A r \in durable'[s] : r.lifecycle \in {"Established", "Absent"}
<1>1. OnlyUsable(s) /\ \E r \in durable[s] : r.lifecycle = "Established"
  BY DEF Confirmed, OnlyUsable, Usable
<1>2. SUFFICES OnlyUsable(s) => \A r \in durable'[s] : Usable(r)
  BY <1>1 DEF Usable
<1>3. CASE UNCHANGED durable
  BY <1>3 DEF OnlyUsable, Usable
<1>4. CASE CoordinatorSide
  <2>1. s \in registered
    BY <1>1 DEF CreationInv, CreatedHasNoFreshCopy
  <2> QED
    BY <1>4, <2>1, CoordinatorKept DEF HistoryInv, CoordinatorSide, Keeping, OnlyUsable, Usable
<1>5. ASSUME NEW status \in CommitStatuses, InitSave(status) \/ SettleSave(status)
      PROVE  OnlyUsable(s) => \A r \in durable'[s] : Usable(r)
  <2>1. TaskKeepsRecords
    BY <1>5, InitSaveKept, SettleSaveKept DEF HistoryInv
  <2>2. CASE s = task.session
    <3>1. task'.session = task.session
      BY <1>5, PlanMoves DEF InitSave, SettleSave, PlanFailure, TypeOK, TaskType
    <3>2. OnlyUsable(task.session)'
      BY <1>1, <2>1, <2>2 DEF TaskKeepsRecords
    <3> QED BY <2>2, <3>1, <3>2 DEF OnlyUsable, Usable
  <2>3. CASE s # task.session
    BY <2>1, <2>3 DEF TaskKeepsRecords, OnlyUsable, Usable
  <2> QED BY <2>2, <2>3
<1>6. CASE PowerLoss
  BY <1>6 DEF PowerLoss, OnlyUsable
<1>7. CASE ChildStep \/ TaskStep
  BY <1>3, <1>5, <1>7
     DEF ChildStep, ChildInitialized, ChildDelta, ChildTerminal, ChildEof, ChildError, TaskStep,
         StartTurn, Spawned, SpawnCancelled, SpawnFailed, CancelRunning, SendDelta, InitLoad,
         SendInitialized, ChildExit, CancelFinishing, SettleLoad, FinishTurn
<1> QED
  BY <1>3, <1>4, <1>6, <1>7 DEF Next, Crash, vars, storeVars, CoordinatorSide

\* For any number of sessions and turns, no settlement, repair, rollback, stale
\* save or power loss takes back an establishment that every copy confirms.
THEOREM EstablishedStays == Spec => EstablishedForGood
<1>1. TypeOK /\ CreationInv /\ HistoryInv /\ [Next]_vars =>
        [\A s \in Sessions : Confirmed(s) =>
           \A r \in durable'[s] : r.lifecycle \in {"Established", "Absent"}]_vars
  BY StepKeepsEstablished
<1> QED
  BY <1>1, TypeSafety, CreationClaimed, HistoryKept, PTL DEF Spec, EstablishedForGood

-----------------------------------------------------------------------------
(* The queue is the stream that TurnStream promises.                       *)

\* The open turn's session, and whether it was initialized, as Stream sees them.
StreamSession == IF stream.open = NoTurn THEN NoSession
                 ELSE IF stream.open = task.turn THEN task.session
                 ELSE prepared.session
StreamInitialized == /\ stream.open # NoTurn /\ stream.open = task.turn
                     /\ task.established /\ task.pc # "sendInitialized"

\* A step that leaves the queue and the open turn as they are leaves the stream
\* as it is, when the turn's session and initialization do not change.
LEMMA StreamStutters ==
  ASSUME UNCHANGED <<events, stream>>, StreamSession' = StreamSession,
         StreamInitialized' = StreamInitialized
  PROVE  UNCHANGED Stream!streamVars
BY DEF Stream!streamVars, StreamSession, StreamInitialized

\* The actions of the stream, in terms of the service's state.  TurnStarted is
\* sent: TurnStream's Begin.
LEMMA StreamBegins ==
  ASSUME NEW t \in Turns, NEW s \in Sessions,
         stream.open = NoTurn /\ t > stream.last, stream' = [open |-> t, last |-> t],
         StreamSession' = s, StreamInitialized' = FALSE,
         events' = Append(events, Event("TurnStarted", s, t, "InProgress", FALSE))
  PROVE  Stream!Next
<1>1. Stream!Begin(t, s)
  BY DEF Stream!Begin, Stream!Say, StreamSession, StreamInitialized, Event
<1> QED BY <1>1 DEF Stream!Next

\* Initialized is sent: TurnStream's Initialize.
LEMMA StreamInitializes ==
  ASSUME stream.open # NoTurn, ~StreamInitialized, StreamInitialized' = TRUE,
         UNCHANGED stream, StreamSession' = StreamSession,
         events' = Append(events, Event("Initialized", StreamSession, stream.open,
                                        "InProgress", FALSE))
  PROVE  Stream!Next
<1>1. Stream!Initialize
  BY DEF Stream!Initialize, Stream!Say, StreamSession, StreamInitialized, Event
<1> QED BY <1>1 DEF Stream!Next

\* A text delta is sent: TurnStream's Speak.
LEMMA StreamSpeaks ==
  ASSUME StreamInitialized, StreamInitialized' = StreamInitialized,
         UNCHANGED stream, StreamSession' = StreamSession,
         events' = Append(events, Event("TextDelta", StreamSession, stream.open,
                                        "InProgress", FALSE))
  PROVE  Stream!Next
<1>1. Stream!Speak
  BY DEF Stream!Speak, Stream!Say, StreamSession, StreamInitialized, Event
<1> QED BY <1>1 DEF Stream!Next

\* TurnFinished is sent: TurnStream's Finish.
LEMMA StreamFinishes ==
  ASSUME NEW outcome \in Outcomes \ {"InProgress"}, NEW uncertain \in BOOLEAN,
         stream.open # NoTurn,
         outcome = "Completed" => StreamInitialized /\ ~uncertain,
         events' = Append(events, Event("TurnFinished", StreamSession, stream.open,
                                        outcome, uncertain)),
         stream'.open = NoTurn, StreamSession' = NoSession, StreamInitialized' = FALSE,
         stream'.last = stream.last
  PROVE  Stream!Next
<1>1. Stream!Finish(outcome, uncertain)
  BY DEF Stream!Finish, Stream!Say, StreamSession, StreamInitialized, Event
<1> QED BY <1>1 DEF Stream!Next

\* The coordinator takes an event: TurnStream's Receive.
LEMMA StreamReceives ==
  ASSUME events # <<>>, events' = Tail(events), UNCHANGED stream,
         StreamSession' = StreamSession, StreamInitialized' = StreamInitialized
  PROVE  Stream!Next
<1>1. Stream!Receive
  BY DEF Stream!Receive, StreamSession, StreamInitialized
<1> QED BY <1>1 DEF Stream!Next

\* A drain takes the rest: TurnStream's ReceiveAll.
LEMMA StreamReceivesAll ==
  ASSUME stream.open = NoTurn, events' = <<>>, UNCHANGED stream,
         StreamSession' = StreamSession, StreamInitialized' = StreamInitialized
  PROVE  Stream!Next
<1>1. Stream!ReceiveAll
  BY DEF Stream!ReceiveAll, StreamSession, StreamInitialized
<1> QED BY <1>1 DEF Stream!Next

\* The process ends: TurnStream's Lose.
LEMMA StreamLoses ==
  ASSUME events' = <<>>, stream'.open = NoTurn, StreamSession' = NoSession,
         StreamInitialized' = FALSE, stream'.last = stream.last
  PROVE  Stream!Next
<1>1. Stream!Lose
  BY DEF Stream!Lose, StreamSession, StreamInitialized
<1> QED BY <1>1 DEF Stream!Next


\* Without a task, its locals are those of none.
IdleTask == task.pc = "none" => task = NoTask

\* A task that is gone has left no locals behind (service.active = None).
LEMMA NextKeepsIdle == TypeOK /\ IdleTask /\ [Next]_vars => IdleTask'
<1> SUFFICES ASSUME TypeOK, IdleTask, [Next]_vars PROVE IdleTask'
  OBVIOUS
<1>1. CASE task' = task \/ task' = NoTask
  BY <1>1 DEF IdleTask
<1>2. CASE LaunchTask \/ InterruptTurn \/ \E latch \in BOOLEAN : BeginDrain(latch)
  <2>1. task' = task \/ task'.pc # "none"
    BY <1>2 DEF LaunchTask, InterruptTurn, BeginDrain, TaskOf, NoTask, TypeOK, TaskType
  <2> QED BY <2>1 DEF IdleTask
<1>3. CASE ChildStep \/ TaskStep
  <2>1. CASE StartTurn \/ FinishTurn
    BY <2>1 DEF StartTurn, FinishTurn, IdleTask, TypeOK, TaskType
  <2>2. CASE TaskGoesOn
    BY <2>2 DEF TaskGoesOn, TaskRunning, IdleTask
  <2> QED BY <1>3, <2>1, <2>2, TaskStepsGoOn
<1> QED
  BY <1>1, <1>2, <1>3
     DEF Next, vars, CoordinatorStep, CreateSession, LoadSession, DeleteSession, PrepareTurn,
         PrepareRefused, LaunchRefused, LaunchInline, InlineStep, InlineStart, InlineSettle,
         InlineFinish, DrainStep, DrainReceive, DrainJoined, NextEvent, Crash, PowerLoss,
         ProcessDies

\* The stream as the running turn shows it, and without one.
TaskShows ==
  /\ TaskRunning /\ task.pc # "start" =>
       /\ stream.open = task.turn /\ stream.open # NoTurn
       /\ StreamSession = task.session
       /\ StreamInitialized = (task.established /\ task.pc # "sendInitialized")
  /\ stream.open = NoTurn => StreamSession = NoSession /\ StreamInitialized = FALSE

\* The stream shows the turn that runs, by its locals.
LEMMA StreamOfTask == TypeOK /\ OrderInv => TaskShows
<1> SUFFICES ASSUME TypeOK, OrderInv PROVE TaskShows
  OBVIOUS
<1>1. TaskRunning => task.turn # NoTurn
  BY DEF TypeOK, TaskRunning, Turns, NoTurn
<1>2. TaskRunning /\ task.pc # "start" => stream.open = task.turn
  BY DEF OrderInv
<1>3. task.established \in BOOLEAN
  BY DEF TypeOK, TaskType
<1>4. ASSUME stream.open = NoTurn
      PROVE  StreamSession = NoSession /\ StreamInitialized = FALSE
  BY <1>4 DEF StreamSession, StreamInitialized
<1>5. ASSUME stream.open = task.turn, stream.open # NoTurn
      PROVE  /\ StreamSession = task.session
             /\ StreamInitialized = (task.established /\ task.pc # "sendInitialized")
  BY <1>3, <1>5 DEF StreamSession, StreamInitialized
<1> QED BY <1>1, <1>2, <1>4, <1>5 DEF TaskShows

\* So it does after a step.
LEMMA StreamOfTaskNext == TypeOK' /\ OrderInv' => TaskShows'
BY StreamOfTask, PTL

\* A step of the task between its first and last event says nothing, unless it
\* sends; persist_initialized has not reported before its event is sent.
LEMMA StreamBesideTask ==
  ASSUME TypeOK, OrderInv, TypeOK', OrderInv', TaskGoesOn, UNCHANGED events,
         \/ /\ task'.established = task.established
            /\ task.pc # "sendInitialized" /\ task'.pc # "sendInitialized"
         \/ ~task.established /\ task'.pc = "sendInitialized"
  PROVE  UNCHANGED Stream!streamVars
<1>1. /\ StreamSession = task.session
      /\ StreamInitialized = (task.established /\ task.pc # "sendInitialized")
  BY StreamOfTask DEF TaskShows, TaskGoesOn
<1>2. /\ StreamSession' = task'.session
      /\ StreamInitialized' = (task'.established /\ task'.pc # "sendInitialized")
  BY StreamOfTaskNext DEF TaskShows, TaskGoesOn
<1> QED BY <1>1, <1>2, StreamStutters DEF TaskGoesOn, TypeOK, TaskType

\* The coordinator's steps: it opens and closes a turn it finishes itself,
\* receives, and otherwise leaves the stream alone.
LEMMA CoordinatorStreams ==
  ASSUME TypeOK, CreationInv, OrderInv, IdleTask, PreparedInv, TypeOK', OrderInv', CoordinatorSide
  PROVE  Stream!Next \/ UNCHANGED Stream!streamVars
<1> USE DEF storeVars
<1>1. CASE CoordinatorStep
  <2>1. coord = "idle" /\ UNCHANGED <<events, stream>>
    BY <1>1 DEF CoordinatorStep, CreateSession, LoadSession, DeleteSession, PrepareTurn,
         PrepareRefused, LaunchRefused, LaunchTask, LaunchInline, InterruptTurn, BeginDrain
  <2>2. CASE stream.open = NoTurn
    <3>1. StreamSession' = StreamSession /\ StreamInitialized' = StreamInitialized
      BY <2>1, <2>2, StreamOfTask, StreamOfTaskNext DEF TaskShows
    <3> QED BY <2>1, <3>1, StreamStutters
  <2>3. CASE stream.open # NoTurn
    <3>1. TaskRunning /\ task.pc # "start"
      BY <2>1, <2>3 DEF OrderInv
    <3>2. prepared = NoPrepared
      BY <3>1 DEF CreationInv, PreparedMayCreate, TaskRunning
    <3>3. task' = task \/ task' = [task EXCEPT !.cancelled = TRUE]
      BY <1>1, <3>1, <3>2
         DEF CoordinatorStep, CreateSession, LoadSession, DeleteSession, PrepareTurn,
             PrepareRefused, LaunchRefused, LaunchTask, LaunchInline, InterruptTurn, BeginDrain,
             TaskRunning
    <3>4. /\ task'.pc = task.pc /\ task'.turn = task.turn /\ task'.session = task.session
          /\ task'.established = task.established
      BY <3>3 DEF TypeOK, TaskType
    <3>5. TaskRunning' /\ task'.pc # "start"
      BY <3>1, <3>4 DEF TaskRunning
    <3>6. /\ StreamSession = task.session /\ StreamSession' = task'.session
          /\ StreamInitialized = (task.established /\ task.pc # "sendInitialized")
          /\ StreamInitialized' = (task'.established /\ task'.pc # "sendInitialized")
      BY <3>1, <3>5, StreamOfTask, StreamOfTaskNext DEF TaskShows
    <3> QED BY <2>1, <3>4, <3>6, StreamStutters
  <2> QED BY <2>2, <2>3
<1>2. ASSUME UNCHANGED <<prepared, task, stream>>
      PROVE  StreamSession' = StreamSession /\ StreamInitialized' = StreamInitialized
  BY <1>2 DEF StreamSession, StreamInitialized
<1>3. CASE NextEvent \/ DrainReceive
  BY <1>2, <1>3, StreamReceives DEF NextEvent, DrainReceive
<1>4. CASE DrainJoined
  <2>1. /\ stream.open = NoTurn /\ events' = <<>> /\ UNCHANGED stream
    BY <1>4 DEF DrainJoined, OrderInv
  <2>2. /\ StreamSession = NoSession /\ StreamInitialized = FALSE
        /\ StreamSession' = NoSession /\ StreamInitialized' = FALSE
    BY <2>1, StreamOfTask, StreamOfTaskNext DEF TaskShows
  <2> QED BY <2>1, <2>2, StreamReceivesAll
<1>5. ASSUME coord \in {"inlineStart", "inlineSettle", "inlineFinish"}
      PROVE  /\ prepared # NoPrepared /\ prepared \in PreparedType /\ task.turn = NoTurn
             /\ prepared.turn \in Turns /\ prepared.turn # NoTurn
             /\ prepared.session \in Sessions /\ prepared.recovering
  <2>1. prepared # NoPrepared /\ prepared \in PreparedType
    BY <1>5 DEF TypeOK
  <2>2. task.pc = "none" /\ prepared.recovering
    BY <1>5, <2>1 DEF CreationInv, PreparedMayCreate, PreparedInv
  <2> QED BY <2>1, <2>2 DEF IdleTask, NoTask, PreparedType, Turns, NoTurn
<1>6. CASE InlineStart
  <2>1. /\ coord = "inlineStart" /\ UNCHANGED <<prepared, task>>
        /\ events' = Append(events, Event("TurnStarted", prepared.session, prepared.turn,
                                          "InProgress", FALSE))
        /\ stream' = [open |-> prepared.turn, last |-> prepared.turn]
    BY <1>6 DEF InlineStart, Send
  <2>2. stream.open = NoTurn /\ stream.last < prepared.turn
    BY <1>5, <2>1 DEF OrderInv
  <2>3. StreamSession' = prepared.session /\ StreamInitialized' = FALSE
    BY <1>5, <2>1 DEF StreamSession, StreamInitialized
  <2>4. prepared.turn > stream.last
    BY <1>5, <2>2 DEF TypeOK, Turns, NoTurn
  <2> QED BY <1>5, <2>1, <2>2, <2>3, <2>4, StreamBegins
<1>7. ASSUME NEW status \in CommitStatuses, InlineSettle(status)
      PROVE  UNCHANGED Stream!streamVars
  BY <1>2, <1>7, StreamStutters DEF InlineSettle
<1>8. CASE InlineFinish
  <2>1. /\ coord = "inlineFinish" /\ stream'.open = NoTurn /\ stream'.last = stream.last
        /\ events' = Append(events, Event("TurnFinished", prepared.session, prepared.turn,
                                          "Failed", prepared.recovering))
    BY <1>8 DEF InlineFinish, Send, TypeOK
  <2>2. stream.open = prepared.turn
    BY <1>5, <2>1 DEF OrderInv
  <2>3. StreamSession = prepared.session
    BY <1>5, <2>1, <2>2 DEF StreamSession
  <2>4. StreamSession' = NoSession /\ StreamInitialized' = FALSE
    BY <2>1, StreamOfTaskNext DEF TaskShows
  <2>5. "Failed" \in Outcomes \ {"InProgress"} /\ prepared.recovering \in BOOLEAN
    BY <1>5, <2>1 DEF Outcomes, PreparedType
  <2> QED BY <1>5, <2>1, <2>2, <2>3, <2>4, <2>5, StreamFinishes
<1> QED BY <1>1, <1>3, <1>4, <1>6, <1>7, <1>8 DEF CoordinatorSide, InlineStep, DrainStep

\* The task's steps: it opens its turn, initializes it, speaks and finishes it.
LEMMA TaskStreams ==
  ASSUME TypeOK, OrderInv, LocalsInv, TypeOK', OrderInv', ChildStep \/ TaskStep
  PROVE  Stream!Next \/ UNCHANGED Stream!streamVars
<1>1. CASE StartTurn
  <2>1. /\ TaskRunning /\ task.pc = "start" /\ ~task.established
        /\ task.turn \in Turns /\ task.session \in Sessions
        /\ stream' = [open |-> task.turn, last |-> task.turn]
        /\ events' = Append(events, Event("TurnStarted", task.session, task.turn,
                                          "InProgress", FALSE))
        /\ task'.pc = "spawn" /\ task'.session = task.session
        /\ task'.established = task.established
    BY <1>1 DEF StartTurn, Send, Progress, TaskRunning, TypeOK, TaskType, LocalsInv
  <2>2. stream.open = NoTurn /\ stream.last < task.turn
    BY <2>1 DEF OrderInv
  <2>3. StreamSession' = task.session /\ StreamInitialized' = FALSE
    BY <2>1, StreamOfTaskNext DEF TaskShows, TaskRunning
  <2>4. task.turn > stream.last
    BY <2>1, <2>2 DEF TypeOK, Turns, NoTurn
  <2> QED BY <2>1, <2>2, <2>3, <2>4, StreamBegins
<1>2. CASE FinishTurn
  <2>1. /\ TaskRunning /\ task.pc = "finish"
        /\ events' = Append(events, Event("TurnFinished", task.session, task.turn,
                                          task.report.outcome, task.report.uncertain))
        /\ stream'.open = NoTurn /\ stream'.last = stream.last
        /\ task.report.outcome \in Outcomes /\ task.report.uncertain \in BOOLEAN
    BY <1>2 DEF FinishTurn, Send, TaskRunning, TypeOK, TaskType
  <2>2. /\ task.report.outcome # "InProgress"
        /\ task.report.outcome = "Completed" => task.established /\ ~task.report.uncertain
    BY <2>1 DEF LocalsInv
  <2>3. /\ stream.open = task.turn /\ stream.open # NoTurn /\ StreamSession = task.session
        /\ StreamInitialized = (task.established /\ task.pc # "sendInitialized")
    BY <2>1, StreamOfTask DEF TaskShows
  <2>4. StreamSession' = NoSession /\ StreamInitialized' = FALSE
    BY <2>1, StreamOfTaskNext DEF TaskShows
  <2>5. /\ task.report.outcome \in Outcomes \ {"InProgress"}
        /\ task.report.outcome = "Completed" => StreamInitialized /\ ~task.report.uncertain
    BY <2>1, <2>2, <2>3
  <2> QED BY <2>1, <2>3, <2>4, <2>5, StreamFinishes
<1>3. ASSUME TaskGoesOn
      PROVE  /\ stream.open = task.turn /\ stream.open # NoTurn
             /\ StreamSession = task.session /\ StreamSession' = StreamSession
             /\ StreamInitialized = (task.established /\ task.pc # "sendInitialized")
             /\ StreamInitialized' = (task'.established /\ task'.pc # "sendInitialized")
             /\ UNCHANGED stream
  <2>1. /\ stream.open = task.turn /\ stream.open # NoTurn /\ StreamSession = task.session
        /\ StreamInitialized = (task.established /\ task.pc # "sendInitialized")
    BY <1>3, StreamOfTask DEF TaskShows, TaskGoesOn
  <2>2. /\ StreamSession' = task'.session
        /\ StreamInitialized' = (task'.established /\ task'.pc # "sendInitialized")
    BY <1>3, StreamOfTaskNext DEF TaskShows, TaskGoesOn
  <2> QED BY <1>3, <2>1, <2>2 DEF TaskGoesOn
<1>4. ASSUME TaskGoesOn, SendInitialized
      PROVE  Stream!Next
  <2>1. /\ task.pc = "sendInitialized" /\ task.established
        /\ task'.pc = "running" /\ task'.established
        /\ events' = Append(events, Event("Initialized", task.session, task.turn,
                                          "InProgress", FALSE))
    BY <1>4 DEF SendInitialized, Send, Progress, TypeOK, TaskType, LocalsInv, TaskGoesOn
  <2> QED BY <1>3, <1>4, <2>1, StreamInitializes
<1>5. ASSUME TaskGoesOn, SendDelta
      PROVE  Stream!Next
  <2>1. /\ task.pc = "sendDelta" /\ task.established
        /\ task'.pc = "running" /\ task'.established = TRUE
        /\ events' = Append(events, Event("TextDelta", task.session, task.turn,
                                          "InProgress", FALSE))
    BY <1>5 DEF SendDelta, Send, Progress, TypeOK, TaskType, LocalsInv, TaskGoesOn
  <2>2. StreamInitialized /\ StreamInitialized' = StreamInitialized
    BY <1>3, <1>5, <2>1
  <2> QED BY <1>3, <1>5, <2>1, <2>2, StreamSpeaks
<1>6. ASSUME TaskGoesOn, ~SendInitialized, ~SendDelta, ~StartTurn, ~FinishTurn
      PROVE  UNCHANGED Stream!streamVars
  <2>1. ASSUME NEW outcome, NEW attempted, NEW fallback, NEW sticky, NEW failed,
               Plan(outcome, attempted, fallback, sticky, failed), UNCHANGED events,
               task.pc # "sendInitialized"
        PROVE  UNCHANGED Stream!streamVars
    BY <1>6, <2>1, PlanMoves, StreamBesideTask
  <2>2. CASE ChildStep
    <3>1. CASE ChildError
      BY <2>1, <3>1 DEF ChildError, PlanFailure
    <3>2. CASE ChildInitialized \/ ChildEof
      BY <1>6, <3>2, StreamBesideTask DEF ChildInitialized, ChildEof, TypeOK, TaskType
    <3>3. CASE ChildDelta
      <4>1. /\ task.pc = "running" /\ task'.pc = "sendDelta" /\ UNCHANGED events
            /\ task'.established = task.established
        BY <3>3 DEF ChildDelta, TypeOK, TaskType
      <4> QED BY <1>6, <4>1, StreamBesideTask
    <3>4. ASSUME NEW result, ChildTerminal(result)
          PROVE  UNCHANGED Stream!streamVars
      BY <1>6, <3>4, StreamBesideTask DEF ChildTerminal, TypeOK, TaskType
    <3> QED BY <2>2, <3>1, <3>2, <3>3, <3>4 DEF ChildStep
  <2>3. CASE Spawned
    BY <1>6, <2>3, StreamBesideTask DEF Spawned, TypeOK, TaskType
  <2>4. ASSUME NEW ran \in BOOLEAN, SpawnCancelled(ran)
        PROVE  UNCHANGED Stream!streamVars
    BY <2>1, <2>4 DEF SpawnCancelled
  <2>5. ASSUME NEW ran \in BOOLEAN, NEW attempted \in BOOLEAN, SpawnFailed(ran, attempted)
        PROVE  UNCHANGED Stream!streamVars
    BY <2>1, <2>5 DEF SpawnFailed, PlanFailure
  <2>6. ASSUME NEW failed \in BOOLEAN, CancelRunning(failed) \/ CancelFinishing
        PROVE  UNCHANGED Stream!streamVars
    BY <2>1, <2>6 DEF CancelRunning, CancelFinishing, PlanInterrupted
  <2>7. ASSUME NEW readable \in BOOLEAN, InitLoad(readable)
        PROVE  UNCHANGED Stream!streamVars
    <3>1. CASE readable /\ disk[task.session].lifecycle # "Absent"
      <4>1. task' = [task EXCEPT !.pc = "initSave", !.copy = disk[task.session]]
        BY <2>7, <3>1 DEF InitLoad
      <4>2. /\ task'.pc = "initSave" /\ task'.established = task.established
            /\ task'.session = task.session
        BY <4>1 DEF TypeOK, TaskType
      <4>3. task.pc = "initLoad" /\ UNCHANGED events
        BY <2>7 DEF InitLoad
      <4> QED BY <1>6, <4>2, <4>3, StreamBesideTask
    <3>2. CASE ~(readable /\ disk[task.session].lifecycle # "Absent")
      BY <2>1, <2>7, <3>2 DEF InitLoad, PlanFailure
    <3> QED BY <3>1, <3>2
  <2>8. ASSUME NEW status \in CommitStatuses, InitSave(status)
        PROVE  UNCHANGED Stream!streamVars
    <3>1. CASE status = "verified"
      <4>1. ~task.established /\ task'.pc = "sendInitialized" /\ UNCHANGED events
        BY <1>6, <2>8, <3>1, InitSaveMoves DEF LocalsInv, TaskGoesOn
      <4> QED BY <1>6, <4>1, StreamBesideTask
    <3>2. CASE status # "verified"
      BY <2>1, <2>8, <3>2 DEF InitSave, PlanFailure
    <3> QED BY <3>1, <3>2
  <2>9. ASSUME NEW ok \in BOOLEAN, ChildExit(ok)
        PROVE  UNCHANGED Stream!streamVars
    BY <2>1, <2>9 DEF ChildExit
  <2>10. ASSUME \/ \E readable \in BOOLEAN : SettleLoad(readable)
                \/ \E status \in CommitStatuses : SettleSave(status)
         PROVE  UNCHANGED Stream!streamVars
    <3>0. task \in TaskType
      BY DEF TypeOK
    <3>1. ASSUME NEW readable \in BOOLEAN, SettleLoad(readable)
          PROVE  /\ task.pc = "settleLoad" /\ task'.pc \in {"settleSave", "finish"}
                 /\ task'.established = task.established /\ UNCHANGED events
      BY <3>0, <3>1 DEF SettleLoad, TaskType
    <3>2. ASSUME NEW status \in CommitStatuses, SettleSave(status)
          PROVE  /\ task.pc = "settleSave" /\ task'.pc = "finish"
                 /\ task'.established = task.established /\ UNCHANGED events
      <4> DEFINE report == Report(status = "verified",
                                  Settled(task.copy, task.turn, task.plan.outcome,
                                          task.plan.attempted).lifecycle)
      <4>1. /\ task.pc = "settleSave" /\ UNCHANGED events
            /\ task' = [task EXCEPT !.pc = "finish", !.report = report]
        BY <3>2 DEF SettleSave
      <4> HIDE DEF report
      <4> QED BY <3>0, <4>1 DEF TaskType
    <3> QED BY <1>6, <2>10, <3>1, <3>2, StreamBesideTask
  <2> QED
    BY <1>6, <2>2, <2>3, <2>4, <2>5, <2>6, <2>7, <2>8, <2>9, <2>10 DEF TaskStep
<1> QED BY <1>1, <1>2, <1>4, <1>5, <1>6, TaskStepsGoOn

\* Every step of the service is a step of the promised stream, or none of it.
LEMMA NextStreams ==
  ASSUME TypeOK, CreationInv, OrderInv, LocalsInv, PreparedInv, IdleTask, TypeOK', OrderInv',
         [Next]_vars
  PROVE  [Stream!Next]_(Stream!streamVars)
<1>1. CASE CoordinatorSide
  BY <1>1, CoordinatorStreams
<1>2. CASE ChildStep \/ TaskStep
  BY <1>2, TaskStreams
<1>3. CASE Crash \/ PowerLoss
  <2>1. events' = <<>> /\ stream'.open = NoTurn /\ stream'.last = stream.last
    BY <1>3 DEF Crash, PowerLoss, ProcessDies, TypeOK
  <2>2. StreamSession' = NoSession /\ StreamInitialized' = FALSE
    BY <2>1, StreamOfTaskNext DEF TaskShows
  <2> QED BY <2>1, <2>2, StreamLoses
<1>4. CASE UNCHANGED vars
  BY <1>4, StreamStutters DEF vars, StreamSession, StreamInitialized
<1> QED BY <1>1, <1>2, <1>3, <1>4 DEF Next, CoordinatorSide

\* For any number of sessions and turns and any queue capacity, what the service
\* queues is a well-formed stream of turns, as TurnStream specifies it.
THEOREM StreamImplemented == Spec => ImplementsTurnStream
<1>1. Init => Stream!Init
  <2> SUFFICES ASSUME Init PROVE Stream!Init
    OBVIOUS
  <2>1. /\ events = <<>> /\ stream.open = NoTurn /\ stream.last = NoTurn
    BY DEF Init
  <2> QED BY <2>1 DEF Stream!Init
<1>2. Init => IdleTask
  BY DEF Init, IdleTask
<1>3. TypeOK /\ IdleTask /\ [Next]_vars => IdleTask'
  BY NextKeepsIdle
<1>4. TypeOK /\ CreationInv /\ HistoryInv /\ IdleTask /\ TypeOK' /\ HistoryInv' /\ [Next]_vars
        => [Stream!Next]_(Stream!streamVars)
  BY NextStreams DEF HistoryInv
<1> QED
  BY <1>1, <1>2, <1>3, <1>4, TypeSafety, CreationClaimed, HistoryKept, PTL
     DEF Spec, ImplementsTurnStream, Stream!Spec
=============================================================================
