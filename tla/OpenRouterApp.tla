--------------------------- MODULE OpenRouterApp ---------------------------
(***************************************************************************)
(* OpenRouter conversations and credentials: the service with its chat     *)
(* task, its control task and their two queues (src/src/openrouter), the   *)
(* coordinator that executes effects and reads both queues                 *)
(* (src/src/backend), and the reducer's OpenRouter state (src/src/app).    *)
(*                                                                         *)
(* As in ClaudeApp the coordinator runs an intent or an event, with its    *)
(* effects, to the end; the two tasks go on meanwhile.  The other          *)
(* providers are one, "Other", whose own state is not modelled.  There is  *)
(* one model, enabled by the user: a catalog is whether it lists it.       *)
(***************************************************************************)
EXTENDS Naturals, Sequences

CONSTANTS
  MaxConversations, \* conversation ids the model hands out
  MaxTurns,         \* turn ids the model hands out
  MaxOps,           \* ids of control operations in one process
  MaxRestarts,      \* quits and crashes
  MaxWork,          \* all of these together: these five bound the behaviours
  QueueCapacity,    \* EVENT_QUEUE, for each of the two queues
  Faults            \* what may go wrong around the service (see FaultKinds)

\* preferences, conversations: a save of the file may fail, after it replaced the
\* file or before.  credential: so may a write of the key file or its removal, and
\* it may not be readable.
FaultKinds == {"preferences", "conversations", "credential"}

ASSUME OpenRouterAssumption ==
  /\ {MaxConversations, MaxTurns, MaxOps, MaxRestarts, MaxWork} \subseteq Nat
  /\ QueueCapacity \in Nat \ {0}
  /\ Faults \subseteq FaultKinds

Conversations == 1..MaxConversations
Turns == 1..MaxTurns
Ops == 1..MaxOps
None == 0         \* no conversation, no turn, no operation

Ended == {"Completed", "Interrupted", "Failed"}
Providers == {"OpenRouter", "Other"}

VARIABLES
  app,          \* AppState, its OpenRouter part, with the preferences in it
  pending,      \* pending_openrouter_auto_resume
  saved,        \* the preferences file
  effect,       \* the effect the coordinator is executing
  deaf,         \* the scheduler no longer receives events (~event_open)
  chat,         \* chat_task with its cancellation token, or the prepared turn
  chatQueue,    \* chat_events
  control,      \* control_task
  controlQueue, \* control_events
  nextOp,       \* next_control_operation_id
  disk,         \* the key file and the catalog file
  file,         \* each conversation's file
  next,         \* the next conversation and turn ids
  restarts,     \* quits and crashes so far
  reported,     \* history: the turns that were announced as completed
  signedOut     \* history: signed out, and no credential entered since

tasks == <<chat, chatQueue, control, controlQueue, nextOp>>
stores == <<saved, disk, file>>
history == <<restarts, reported, signedOut>>
\* What was handed out and done so far, each from its first number on; a restart hands
\* out operation ids anew and counts twice.
Work == next.conversation + next.turn + nextOp + 2 * restarts

vars == <<app, pending, effect, deaf, tasks, stores, next, history>>

-----------------------------------------------------------------------------
(* The reducer's state.                                                    *)

NoConversation == [kind |-> "None", id |-> None]
Ready(c) == [kind |-> "Ready", id |-> c]
ResumeFailed(c) == [kind |-> "ResumeFailed", id |-> c]

\* A turn that ended, however it did, is as good as none: what it was announced as
\* is in `reported`.
TurnIs(kind) == [kind |-> kind, conversation |-> None, turn |-> None]
Streaming(c, t) == [kind |-> "Streaming", conversation |-> c, turn |-> t]

Idle == [kind |-> "Idle", op |-> None, saved |-> FALSE]
Refreshing(op) == [kind |-> "Refreshing", op |-> op, saved |-> FALSE]
Validating(op, candidateSaved) ==
  [kind |-> "Validating", op |-> op, saved |-> candidateSaved]

NoPending == [op |-> None, conversation |-> None, model |-> FALSE]

TurnActive(a) == a.turn.kind \in {"Starting", "Streaming"}

Preferences(a) == [provider |-> a.provider, pointer |-> a.pointer, model |-> a.model]

\* send_block_reason, for OpenRouter: a conversation that failed to resume does not
\* hold a message up.
MaySend(a) == /\ a.provider = "OpenRouter" /\ a.auth = "Valid"
              /\ a.model /\ a.catalog
              /\ ~TurnActive(a) /\ a.picker = "closed"

\* Mutant: a credential that is gone leaves the validation waiting.
AuthChangedKeeps(a, auth) ==
  [a EXCEPT !.auth = auth, !.picker = IF auth = "Missing" THEN "closed" ELSE @]

\* OpenRouterAuthChanged
AuthChanged(a, auth) ==
  [a EXCEPT !.auth = auth,
            !.validation = IF auth = "Valid" THEN @ ELSE Idle,
            !.picker = IF auth = "Missing" THEN "closed" ELSE @]

\* OpenRouterCatalogLoaded: with OpenRouter active the selection follows the catalog.
CatalogLoaded(a, catalog) ==
  [a EXCEPT !.validation = Idle, !.auth = "Valid", !.catalog = catalog,
            !.model = IF a.provider = "OpenRouter" THEN catalog ELSE @]

AuthAfter(a, category) == CASE category = "Unauthorized"      -> "Invalid"
                            [] category = "MissingCredential" -> "Missing"
                            [] category = "CredentialStore"   -> "CredentialUnavailable"
                            [] OTHER                          -> a.auth

\* OpenRouterOperationFailed: a candidate that was saved is only given up when the
\* provider itself rejects it.
OperationFailed(a, category) ==
  LET candidateSaved == a.validation.saved /\ a.auth = "Valid"
  IN [a EXCEPT !.validation = Idle,
               !.auth = IF candidateSaved /\ category # "Unauthorized" THEN @
                        ELSE AuthAfter(a, category)]

Matches(a, kind, op) == a.validation.kind = kind /\ a.validation.op = op

\* Mutant: a failure counts for a refresh only.
FailureOfRefresh(a, e) == Matches(a, "Refreshing", e.op)

FailureCounts(a, e) == a.validation.op = e.op

\* reduce_openrouter_service_event of a control event: it counts only for the
\* operation the reducer waits for.
ControlReduced(a, e) ==
  CASE e.kind = "AuthValidated" /\ Matches(a, "Refreshing", e.op) ->
         AuthChanged(a, "Valid")
    [] e.kind = "AuthValidated" /\ Matches(a, "Validating", e.op) ->
         AuthChanged([a EXCEPT !.validation.saved = TRUE], "Valid")
    [] \/ e.kind = "LoginSucceeded" /\ Matches(a, "Validating", e.op)
       \/ e.kind = "CatalogLoaded" /\ Matches(a, "Refreshing", e.op) ->
         CatalogLoaded(a, e.catalog)
    [] e.kind = "LoginFailed" /\ Matches(a, "Validating", e.op) ->
         [a EXCEPT !.validation = Idle]
    [] e.kind = "CatalogFailed" /\ FailureCounts(a, e) ->
         OperationFailed(a, e.category)
    [] OTHER -> a

\* TurnFinished of the streaming turn.  A delta changes nothing but the transcript.
ChatReduced(a, e) ==
  IF e.kind = "TurnFinished" /\ a.turn = Streaming(e.conversation, e.turn)
  THEN [(IF e.unauthorized THEN AuthChanged(a, "Invalid") ELSE a)
          EXCEPT !.turn = TurnIs("Idle")]
  ELSE a

\* OpenRouterConversationRestored once it was asked for, its model being available.
Restored(a, c) ==
  [a EXCEPT !.provider = "OpenRouter", !.model = TRUE, !.pointer = c,
            !.conversation = Ready(c), !.turn = TurnIs("Idle"), !.picker = "closed"]

\* Mutant: also over a conversation that is on the screen.
AutomaticallyReplaced(a, c) ==
  IF a.provider = "OpenRouter" /\ a.pointer = c THEN Restored(a, c) ELSE a

\* OpenRouterConversationRestored, automatic.
AutomaticallyRestored(a, c) ==
  IF a.provider = "OpenRouter" /\ a.pointer = c /\ a.conversation.kind # "Ready"
  THEN Restored(a, c) ELSE a

\* OpenRouterResumeFailed
ResumeHasFailed(a, c) ==
  IF a.provider = "OpenRouter" /\ a.pointer = c
  THEN [a EXCEPT !.conversation = ResumeFailed(c)] ELSE a

-----------------------------------------------------------------------------
(* The service: its stores and its tasks.                                  *)

NoTurns == [t \in Turns |-> "None"]
NoFile == [there |-> FALSE, turns |-> NoTurns]
FileOf(turns) == [there |-> TRUE, turns |-> turns]

NoChat == [pc |-> "none", conversation |-> None, turn |-> None, copy |-> NoTurns,
           cancelled |-> FALSE, undelivered |-> FALSE, outcome |-> "None",
           unauthorized |-> FALSE]
NoControl == [pc |-> "none", kind |-> "refresh", op |-> None]
ControlTask(kind, op) == [pc |-> "validating", kind |-> kind, op |-> op]

ChatRunning == chat.pc \in {"streaming", "reporting"}
ControlRunning == control.pc \notin {"none", "done"}

\* How the save of a conversation can leave its file, and whether it succeeded.
Saves(c, turns) ==
  {<<[file EXCEPT ![c] = FileOf(turns)], TRUE>>} \cup
  IF "conversations" \in Faults
  THEN {<<[file EXCEPT ![c] = FileOf(turns)], FALSE>>, <<file, FALSE>>}
  ELSE {}

CoordinatorFree == effect = "none"
CoordinatorKeeps == UNCHANGED <<app, pending, saved, effect, deaf, next, restarts>>

\* A delta that finds the queue full cancels the turn.
ChatDelta ==
  /\ chat.pc = "streaming"
  /\ IF Len(chatQueue) < QueueCapacity
     THEN /\ chatQueue' = Append(chatQueue, [kind |-> "TextDelta"])
          /\ UNCHANGED chat
     ELSE /\ chat' = [chat EXCEPT !.undelivered = TRUE, !.cancelled = TRUE]
          /\ UNCHANGED chatQueue
  /\ CoordinatorKeeps
  /\ UNCHANGED <<control, controlQueue, nextOp, disk, file, reported, signedOut>>

\* Mutant: what could not be saved is announced as it was.
AnnouncedUnsaved(outcome, isSaved) == outcome

Announced(outcome, isSaved) == IF isSaved THEN outcome ELSE "Failed"

\* The end of the answer: the outcome is saved, and what cannot be saved is a failure.
ChatSaves ==
  /\ chat.pc = "streaming"
  /\ \E outcome \in Ended, unauthorized \in BOOLEAN :
       /\ outcome = "Interrupted" => chat.cancelled
       /\ chat.undelivered => outcome = "Interrupted"
       /\ unauthorized => outcome = "Failed"
       /\ \E save \in Saves(chat.conversation, [chat.copy EXCEPT ![chat.turn] = outcome]) :
            /\ file' = save[1]
            /\ chat' = [chat EXCEPT !.pc = "reporting", !.cancelled = FALSE,
                                    !.undelivered = FALSE, !.copy = NoTurns,
                                    !.outcome = Announced(outcome, save[2]),
                                    !.unauthorized = save[2] /\ unauthorized]
  /\ CoordinatorKeeps
  /\ UNCHANGED <<chatQueue, control, controlQueue, nextOp, disk, reported, signedOut>>

ChatReports ==
  /\ chat.pc = "reporting" /\ Len(chatQueue) < QueueCapacity
  /\ chatQueue' = Append(chatQueue,
                    [kind |-> "TurnFinished", conversation |-> chat.conversation,
                     turn |-> chat.turn, unauthorized |-> chat.unauthorized])
  /\ chat' = [NoChat EXCEPT !.pc = "done"]
  /\ reported' = IF chat.outcome = "Completed"
                 THEN reported \cup {<<chat.conversation, chat.turn>>} ELSE reported
  /\ CoordinatorKeeps
  /\ UNCHANGED <<control, controlQueue, nextOp, disk, file, signedOut>>

Announces(event, pc) ==
  /\ Len(controlQueue) < QueueCapacity
  /\ controlQueue' = Append(controlQueue, event)
  /\ control' = IF pc = "done" THEN [NoControl EXCEPT !.pc = pc]
                ELSE [control EXCEPT !.pc = pc]
  /\ CoordinatorKeeps
  /\ UNCHANGED <<chat, chatQueue, nextOp, file, reported, signedOut>>

\* How loading the stored key can end: "found" or a failure's category.
KeyLoads == (IF disk.key THEN {"found"} ELSE {"MissingCredential"})
              \cup (IF "credential" \in Faults THEN {"CredentialStore"} ELSE {})

\* What a request that presents a key can answer, cancelled or not.
Rejections == {"Unauthorized", "Other"}

AuthValidated == [kind |-> "AuthValidated", op |-> control.op]
LoginFailed == [kind |-> "LoginFailed", op |-> control.op]
CatalogFailed(category) ==
  [kind |-> "CatalogFailed", op |-> control.op, category |-> category]

\* A candidate is written only after the provider accepted it.
ControlReplacesKey ==
  /\ control.pc = "validating" /\ control.kind = "login"
  /\ \/ /\ disk' = [disk EXCEPT !.key = TRUE]
        /\ control' = [control EXCEPT !.pc = "announcing"]
     \/ /\ "credential" \in Faults
        /\ \E key \in {disk.key, TRUE} : disk' = [disk EXCEPT !.key = key]
        /\ control' = [control EXCEPT !.pc = "rejecting"]
  /\ CoordinatorKeeps
  /\ UNCHANGED <<chat, chatQueue, controlQueue, nextOp, file, reported, signedOut>>

ControlRejectsCandidate ==
  /\ \/ control.pc = "validating" /\ control.kind = "login"
     \/ control.pc = "rejecting"
  /\ Announces(LoginFailed, "done")
  /\ UNCHANGED disk

ControlAcceptsKey ==
  /\ \/ control.pc = "announcing"
     \/ control.pc = "validating" /\ control.kind = "refresh" /\ "found" \in KeyLoads
  /\ Announces(AuthValidated, "fetching")
  /\ UNCHANGED disk

\* A stored key that is not there, not readable or not accepted.
ControlFails ==
  /\ \/ control.pc = "validating" /\ control.kind = "refresh"
     \/ control.pc = "fetching"
  /\ \E category \in (KeyLoads \ {"found"})
                       \cup (IF "found" \in KeyLoads THEN Rejections ELSE {}) :
       Announces(CatalogFailed(category), "done")
  /\ UNCHANGED disk

\* The catalog that was fetched is saved before it is announced.
ControlSavesCatalog ==
  /\ control.pc = "fetching" /\ "found" \in KeyLoads
  /\ \E catalog \in BOOLEAN : disk' = [disk EXCEPT !.catalog = catalog]
  /\ control' = [control EXCEPT !.pc = "finishing"]
  /\ CoordinatorKeeps
  /\ UNCHANGED <<chat, chatQueue, controlQueue, nextOp, file, reported, signedOut>>

ControlFinishes ==
  /\ control.pc = "finishing"
  /\ \/ Announces([kind |-> IF control.kind = "login" THEN "LoginSucceeded"
                            ELSE "CatalogLoaded",
                   op |-> control.op, catalog |-> disk.catalog], "done")
     \/ "conversations" \in Faults /\ Announces(CatalogFailed("CredentialStore"), "done")
  /\ UNCHANGED disk

-----------------------------------------------------------------------------
(* Sending a message: the intent, then send_openrouter_message_effect.     *)

IntentKeeps == UNCHANGED <<pending, deaf, tasks, stores, next, history>>

SendMessage ==
  /\ CoordinatorFree /\ MaySend(app)
  /\ next.turn \in Turns /\ Work < MaxWork
  /\ app.conversation.kind = "None" => next.conversation \in Conversations
  /\ app' = [app EXCEPT !.turn = TurnIs("Starting")]
  /\ effect' = "send"
  /\ IntentKeeps

\* The early return for a conversation that failed to resume: a notice, and the
\* turn stays as the intent left it.
SendUnresolved ==
  /\ effect = "send" /\ app.conversation.kind = "ResumeFailed"
  /\ effect' = "none"
  /\ UNCHANGED app /\ IntentKeeps

\* TurnOperationFailed
TurnFails(a) == [a EXCEPT !.turn = IF TurnActive(a) THEN TurnIs("Idle") ELSE @]

Target == IF app.conversation.kind = "Ready" THEN app.conversation.id
          ELSE next.conversation

\* prepare_turn: the file gets the turn before anything is sent for it.
SendPrepares ==
  /\ effect = "send" /\ app.conversation.kind # "ResumeFailed"
  /\ ~ChatRunning
  /\ LET turns == [file[Target].turns EXCEPT ![next.turn] = "InProgress"]
     IN \E save \in Saves(Target, turns) :
          /\ file' = save[1]
          /\ IF save[2]
             THEN /\ chat' = [NoChat EXCEPT !.pc = "prepared", !.turn = next.turn,
                                            !.conversation = Target, !.copy = turns]
                  /\ effect' = "launch"
                  /\ UNCHANGED app
             ELSE /\ chat' = NoChat
                  /\ effect' = "none"
                  /\ app' = TurnFails(app)
  /\ next' = [turn |-> next.turn + 1,
              conversation |-> IF Target = next.conversation THEN Target + 1
                               ELSE next.conversation]
  /\ UNCHANGED <<pending, deaf, chatQueue, control, controlQueue, nextOp, saved, disk,
                 history>>

\* prepare_turn fails: while a task runs, or when the file cannot be read.
SendRefused ==
  /\ effect = "send" /\ app.conversation.kind # "ResumeFailed"
  /\ ChatRunning \/ "conversations" \in Faults
  /\ app' = TurnFails(app)
  /\ chat' = IF ChatRunning THEN chat ELSE NoChat
  /\ effect' = "none"
  /\ UNCHANGED <<pending, deaf, chatQueue, control, controlQueue, nextOp, stores, next,
                 history>>

\* Mutant: what is saved before the request names no conversation yet.
WithoutPointer == Preferences(app)

WithPointer == [Preferences(app) EXCEPT !.provider = "OpenRouter",
                                        !.pointer = chat.conversation]

\* The request is only sent once the pointer to the conversation is saved.
\* OpenRouterTurnStarted is reduced here, its Persist effect dropped.
SendLaunches ==
  /\ effect = "launch"
  /\ saved' = WithPointer
  /\ app' = [app EXCEPT !.conversation = Ready(chat.conversation),
                        !.pointer = chat.conversation,
                        !.turn = Streaming(chat.conversation, chat.turn)]
  /\ chat' = [chat EXCEPT !.pc = "streaming"]
  /\ effect' = "none"
  /\ UNCHANGED <<pending, deaf, chatQueue, control, controlQueue, nextOp, disk, file,
                 next, history>>

\* abandon_prepared_turn: the turn is marked failed in the file, if that can be saved.
SendAbandons ==
  /\ effect = "launch" /\ "preferences" \in Faults
  /\ saved' \in {saved, WithPointer}
  /\ \E save \in Saves(chat.conversation, [chat.copy EXCEPT ![chat.turn] = "Failed"]) :
       file' = save[1]
  /\ app' = TurnFails(app)
  /\ chat' = NoChat
  /\ effect' = "none"
  /\ UNCHANGED <<pending, deaf, chatQueue, control, controlQueue, nextOp, disk, next,
                 history>>

\* interrupt_turn reaches the task by its token; what comes of it is the task's event.
Interrupt ==
  /\ CoordinatorFree /\ app.turn.kind = "Streaming"
  /\ chat' = [chat EXCEPT !.cancelled = (chat.pc = "streaming")]
  /\ UNCHANGED <<app, pending, effect, deaf, chatQueue, control, controlQueue, nextOp,
                 stores, next, history>>

-----------------------------------------------------------------------------
(* Other intents on the conversation.  Those that end in a notice are left *)
(* out.                                                                    *)

Takes(a, ensuing) == app' = a /\ effect' = ensuing /\ IntentKeeps

\* /new and start_new_openrouter_conversation_effect: the conversation is created
\* on disk before it replaces the one on the screen.
NewThread ==
  /\ CoordinatorFree /\ MaySend(app)
  /\ next.conversation \in Conversations /\ Work < MaxWork
  /\ \E save \in Saves(next.conversation, NoTurns) :
       /\ file' = save[1]
       /\ IF save[2]
          THEN /\ app' = [app EXCEPT !.conversation = Ready(next.conversation),
                                     !.pointer = next.conversation]
               /\ effect' = "persistIntent"
          ELSE UNCHANGED <<app, effect>>
  /\ next' = [next EXCEPT !.conversation = @ + 1]
  /\ UNCHANGED <<pending, deaf, tasks, saved, disk, history>>

\* Within OpenRouter another model keeps the conversation, also during a turn.
SelectModel ==
  /\ CoordinatorFree /\ app.provider = "OpenRouter" /\ app.catalog
  /\ Takes([app EXCEPT !.model = TRUE, !.picker = "closed"], "persistIntent")

SwitchProvider(provider) ==
  /\ CoordinatorFree /\ app.provider # provider /\ ~TurnActive(app)
  /\ provider = "OpenRouter" => app.catalog
  /\ Takes([app EXCEPT !.provider = provider, !.pointer = None,
                       !.conversation = NoConversation, !.turn = TurnIs("Idle"),
                       !.model = TRUE, !.picker = "closed"],
           "persistIntent")

Resume ==
  /\ CoordinatorFree /\ ~TurnActive(app) /\ app.picker = "closed"
  /\ Takes([app EXCEPT !.picker = "ready"], "none")

PickerClose ==
  /\ CoordinatorFree /\ app.picker = "ready"
  /\ Takes([app EXCEPT !.picker = "closed"], "none")

\* What is listed is what is there.  If it cannot be read nothing changes.
PickerSelect(c) ==
  /\ CoordinatorFree /\ app.picker = "ready" /\ file[c].there
  /\ ~(app.provider = "OpenRouter" /\ app.conversation = Ready(c))
  /\ app.auth # "CredentialUnavailable" /\ app.catalog
  /\ Takes(Restored(app, c), "persistIntent")

PickerSelectOther ==
  /\ CoordinatorFree /\ app.picker = "ready"
  /\ Takes([app EXCEPT !.provider = "Other", !.pointer = None,
                       !.conversation = NoConversation, !.turn = TurnIs("Idle"),
                       !.model = TRUE, !.picker = "closed"], "persistIntent")

\* Mutant: OpenRouter conversations are not protected.
ActiveSavedElsewhere(a) == None

\* active_saved_thread_id, if it is an OpenRouter conversation.
ActiveSaved(a) == CASE a.provider # "OpenRouter"       -> None
                    [] a.pointer # None                -> a.pointer
                    [] a.conversation.kind = "Ready"   -> a.conversation.id
                    [] OTHER                           -> None

PickerDelete(c) ==
  /\ CoordinatorFree /\ app.picker = "ready" /\ file[c].there
  /\ c # ActiveSaved(app)
  /\ file' = [file EXCEPT ![c] = NoFile]
  /\ UNCHANGED <<app, pending, effect, deaf, tasks, saved, disk, next, history>>

-----------------------------------------------------------------------------
(* The credential.                                                         *)

\* accept_openrouter_credential, which the credential popup leads to: the picker is
\* closed.
AcceptCredential ==
  /\ CoordinatorFree /\ nextOp \in Ops /\ Work < MaxWork
  /\ app.turn.kind # "Streaming"
  /\ ~(app.provider = "OpenRouter" /\ app.turn.kind = "Starting")
  /\ ~ChatRunning /\ ~ControlRunning
  /\ control' = ControlTask("login", nextOp)
  /\ app' = [app EXCEPT !.validation = Validating(nextOp, FALSE), !.picker = "closed"]
  /\ nextOp' = nextOp + 1
  /\ signedOut' = FALSE
  /\ UNCHANGED <<pending, effect, deaf, chat, chatQueue, controlQueue, stores, next,
                 restarts, reported>>

\* revalidate_and_refresh
RefreshOpenRouter ==
  /\ CoordinatorFree /\ nextOp \in Ops /\ Work < MaxWork
  /\ ~ControlRunning
  /\ control' = ControlTask("refresh", nextOp)
  /\ app' = [app EXCEPT !.validation = Refreshing(nextOp)]
  /\ nextOp' = nextOp + 1
  /\ UNCHANGED <<pending, effect, deaf, chat, chatQueue, controlQueue, stores, next,
                 history>>

\* Mutant: the events are thrown away once the task has ended.
MayDropAfterwards == control.pc = "done" /\ controlQueue # <<>>

MayDropControl == control.pc # "none" /\ controlQueue # <<>>

\* /logout first cancels and awaits the control task, throwing away what it sends.
LogoutOpenRouter == CoordinatorFree /\ Takes(app, "logoutControl")

LogoutDropsControl ==
  /\ effect = "logoutControl" /\ MayDropControl
  /\ controlQueue' = Tail(controlQueue)
  /\ UNCHANGED <<app, pending, effect, deaf, chat, chatQueue, control, nextOp, stores,
                 next, history>>

\* It may leave events of the task in the queue.  Then the chat task is cancelled.
LogoutEndsControl ==
  /\ effect = "logoutControl" /\ ~ControlRunning
  /\ control' = NoControl
  /\ chat' = [chat EXCEPT !.cancelled = (chat.pc = "streaming")]
  /\ effect' = "logoutChat"
  /\ UNCHANGED <<app, pending, deaf, chatQueue, controlQueue, nextOp, stores, next,
                 history>>

\* The chat task is awaited, and all its events are reduced.
LogoutReadsChat ==
  /\ effect = "logoutChat" /\ chatQueue # <<>>
  /\ app' = ChatReduced(app, Head(chatQueue))
  /\ chatQueue' = Tail(chatQueue)
  /\ UNCHANGED <<pending, effect, deaf, chat, control, controlQueue, nextOp, stores,
                 next, history>>

\* Then the key is removed.  A turn that were still displayed as active would end.
LogoutEnds ==
  /\ effect = "logoutChat" /\ ~ChatRunning /\ chatQueue = <<>>
  /\ LET settled == [app EXCEPT !.turn = IF @.kind = "Streaming" THEN TurnIs("Idle")
                                         ELSE @]
     IN \/ /\ disk' = [disk EXCEPT !.key = FALSE]
           /\ app' = AuthChanged(settled, "Missing")
           /\ signedOut' = TRUE
        \/ /\ "credential" \in Faults
           /\ \E key \in {disk.key, FALSE} : disk' = [disk EXCEPT !.key = key]
           /\ app' = AuthChanged(settled, "CredentialUnavailable")
           /\ UNCHANGED signedOut
  /\ chat' = NoChat
  /\ effect' = "none"
  /\ UNCHANGED <<pending, deaf, chatQueue, control, controlQueue, nextOp, saved, file,
                 next, restarts, reported>>

-----------------------------------------------------------------------------
(* The coordinator's loop.                                                 *)

\* pending_openrouter_resume_is_current
PendingIsCurrent(a) == /\ a.provider = "OpenRouter"
                       /\ a.pointer = pending.conversation
                       /\ a.model = pending.model

\* What the end of the refresh it waited for makes of the automatic resume: the
\* conversation is attached with the very model that was saved for it, or is
\* reported as not resumed.
Resumes(a, catalogLoaded, found) ==
  LET c == pending.conversation
  IN IF catalogLoaded /\ pending.model /\ a.catalog /\ found /\ PendingIsCurrent(a)
     THEN AutomaticallyRestored(a, c)
     ELSE IF PendingIsCurrent(a) THEN ResumeHasFailed(a, c) ELSE a

\* OpenRouterCatalogLoadedForAutomaticResume leaves the selection alone.
CatalogLoadedForResume(a, catalog) ==
  [a EXCEPT !.validation = Idle, !.auth = "Valid", !.catalog = catalog]

EndsPending(e) == /\ e.kind \in {"CatalogLoaded", "CatalogFailed"}
                  /\ pending.op = e.op

\* process_openrouter_service_event of a control event.
ReceiveControl ==
  /\ CoordinatorFree /\ ~deaf /\ controlQueue # <<>>
  /\ LET e == Head(controlQueue)
     IN /\ pending' = IF EndsPending(e) THEN NoPending ELSE pending
        /\ IF /\ EndsPending(e)
              /\ Matches(app, "Refreshing", e.op) /\ PendingIsCurrent(app)
           THEN \E found \in {file[pending.conversation].there}
                              \cup (IF "conversations" \in Faults THEN {FALSE} ELSE {}) :
                  app' = Resumes(IF e.kind = "CatalogLoaded"
                                 THEN CatalogLoadedForResume(app, e.catalog)
                                 ELSE ControlReduced(app, e),
                                 e.kind = "CatalogLoaded", found)
           ELSE app' = ControlReduced(app, e)
        /\ effect' = IF \/ app'.conversation.kind = "Ready" /\ app.conversation.kind # "Ready"
                        \/ app'.model # app.model
                     THEN "persistEvent" ELSE "none"
  /\ controlQueue' = Tail(controlQueue)
  /\ UNCHANGED <<deaf, chat, chatQueue, control, nextOp, stores, next, history>>

ReceiveChat ==
  /\ CoordinatorFree /\ ~deaf /\ chatQueue # <<>>
  /\ app' = ChatReduced(app, Head(chatQueue))
  /\ chatQueue' = Tail(chatQueue)
  /\ UNCHANGED <<pending, effect, deaf, chat, control, controlQueue, nextOp, stores,
                 next, history>>

\* Effect::Persist.  An error after an event closes the scheduler's event source.
Persist ==
  /\ effect \in {"persistIntent", "persistEvent"}
  /\ \/ /\ saved' = Preferences(app)
        /\ UNCHANGED deaf
     \/ /\ "preferences" \in Faults
        /\ saved' \in {saved, Preferences(app)}
        /\ deaf' = (deaf \/ effect = "persistEvent")
  /\ effect' = "none"
  /\ UNCHANGED <<app, pending, tasks, disk, file, next, history>>

-----------------------------------------------------------------------------
(* Starting, quitting, crashing.                                           *)

\* What startup finds of the stored key.
StoredAuth(found) == CASE found = "found"             -> "Unverified"
                       [] found = "MissingCredential" -> "Missing"
                       [] OTHER                       -> "CredentialUnavailable"

\* AppState once startup has loaded the preferences and the OpenRouter service has
\* started: the selection is only revised when there is nothing to resume.
Started(prefs, auth, catalog) ==
  LET resumes == prefs.provider = "OpenRouter" /\ prefs.pointer # None
  IN [provider |-> prefs.provider, pointer |-> prefs.pointer,
      model |-> IF prefs.provider = "OpenRouter" /\ ~resumes THEN catalog ELSE prefs.model,
      conversation |-> IF resumes /\ auth # "Unverified" THEN ResumeFailed(prefs.pointer)
                       ELSE NoConversation,
      turn |-> TurnIs("Idle"), auth |-> auth, catalog |-> catalog,
      validation |-> IF auth = "Unverified" THEN Refreshing(1) ELSE Idle,
      picker |-> "closed"]

\* A key that was found is validated at once, and the saved conversation waits for
\* the end of that operation.
Start(prefs, found, catalog) ==
  LET auth == StoredAuth(found)
      validates == auth = "Unverified"
  IN [app |-> Started(prefs, auth, catalog),
      control |-> IF validates THEN ControlTask("refresh", 1) ELSE NoControl,
      nextOp |-> IF validates THEN 2 ELSE 1,
      pending |-> IF validates /\ prefs.provider = "OpenRouter" /\ prefs.pointer # None
                  THEN [op |-> 1, conversation |-> prefs.pointer, model |-> prefs.model]
                  ELSE NoPending]

\* A first start, or one after a conversation without turns was saved.
Init ==
  \E c \in {None} \cup ({1} \cap Conversations), key \in BOOLEAN :
    /\ saved = [provider |-> "OpenRouter", pointer |-> c, model |-> TRUE]
    /\ disk = [key |-> key, catalog |-> TRUE]
    /\ file = [d \in Conversations |-> IF d = c THEN FileOf(NoTurns) ELSE NoFile]
    /\ next = [conversation |-> c + 1, turn |-> 1]
    /\ \E found \in KeyLoads :
         LET start == Start(saved, found, TRUE)
         IN /\ app = start.app /\ control = start.control
            /\ nextOp = start.nextOp /\ pending = start.pending
    /\ effect = "none" /\ deaf = FALSE
    /\ chat = NoChat /\ chatQueue = <<>> /\ controlQueue = <<>>
    /\ restarts = 0 /\ reported = {} /\ signedOut = FALSE

\* FileOpenRouterStore::new: a turn that was in progress was interrupted.
Repaired(f) ==
  [c \in Conversations |->
     [f[c] EXCEPT !.turns = [t \in Turns |-> IF @[t] = "InProgress" THEN "Interrupted"
                                             ELSE @[t]]]]

\* An empty catalog is what startup makes of a file it cannot read.
Restarts ==
  /\ Work < MaxWork /\ restarts < MaxRestarts /\ restarts' = restarts + 1
  /\ \E found \in KeyLoads', catalog \in {FALSE, disk'.catalog} :
       LET start == Start(saved', found, catalog)
       IN /\ app' = start.app /\ control' = start.control
          /\ nextOp' = start.nextOp /\ pending' = start.pending
  /\ effect' = "none" /\ deaf' = FALSE
  /\ chat' = NoChat /\ chatQueue' = <<>> /\ controlQueue' = <<>>
  /\ UNCHANGED <<next, reported, signedOut>>

\* Both tasks are cancelled and awaited, and the preferences are saved.  What a task
\* still writes that it could not have written before: a turn's interruption.
Quit ==
  /\ CoordinatorFree
  /\ saved' \in {Preferences(app)} \cup IF "preferences" \in Faults THEN {saved} ELSE {}
  /\ IF chat.pc = "streaming"
     THEN \E outcome \in Ended :
            \E save \in Saves(chat.conversation,
                              [chat.copy EXCEPT ![chat.turn] = outcome]) :
              file' = Repaired(save[1])
     ELSE file' = Repaired(file)
  /\ UNCHANGED disk
  /\ Restarts

Crash == /\ file' = Repaired(file) /\ UNCHANGED <<saved, disk>>
         /\ Restarts

-----------------------------------------------------------------------------

Execute ==
  \/ SendUnresolved \/ SendPrepares \/ SendRefused \/ SendLaunches \/ SendAbandons
  \/ LogoutDropsControl \/ LogoutEndsControl \/ LogoutReadsChat \/ LogoutEnds
  \/ Persist

Intent ==
  \/ SendMessage \/ Interrupt \/ NewThread \/ SelectModel
  \/ \E provider \in Providers : SwitchProvider(provider)
  \/ Resume \/ PickerClose \/ PickerSelectOther
  \/ \E c \in Conversations : PickerSelect(c) \/ PickerDelete(c)
  \/ AcceptCredential \/ RefreshOpenRouter \/ LogoutOpenRouter

Chat == ChatDelta \/ ChatSaves \/ ChatReports

Control ==
  \/ ControlReplacesKey \/ ControlRejectsCandidate \/ ControlAcceptsKey
  \/ ControlFails \/ ControlSavesCatalog \/ ControlFinishes

Next == \/ Intent \/ Execute \/ Chat \/ Control
        \/ ReceiveControl \/ ReceiveChat
        \/ Quit \/ Crash

Spec == Init /\ [][Next]_vars

-----------------------------------------------------------------------------
(* Properties.                                                             *)

\* A turn announced as completed is completed in its conversation's file, for as long
\* as the file is there: through later turns, their failed saves, a logout, /resume,
\* quits and crashes (launch_prepared_turn, prepare_turn, rebuild_index).
DoneIsKept ==
  \A r \in reported : file[r[1]].there => file[r[1]].turns[r[2]] = "Completed"

\* After a /logout no key comes back and nothing counts as signed in until the user
\* enters another credential: not by a login or refresh that was in flight, nor by
\* events of theirs still queued (logout, reduce_openrouter_service_event).
SignedOutStaysOut == signedOut => ~disk.key /\ app.auth # "Valid"

\* The conversation on the screen is not deleted under it, whichever way it got there
\* (active_saved_thread_id, OpenRouterConversationStarted, prepare_turn).
ConversationIsKept ==
  app.conversation.kind = "Ready" => file[app.conversation.id].there

\* A turn the service is still running is the one the reducer waits for: neither the
\* automatic resume, nor another conversation, nor a logout lets the user go on
\* beside it.
NoOrphanTurn == ChatRunning => app.turn = Streaming(chat.conversation, chat.turn)

\* A message that was taken has started a turn or failed by the time the coordinator
\* is free again.
SendIsSettled == effect = "none" => app.turn.kind # "Starting"

\* A message is on its way to the provider only when a restart would find it again:
\* its turn is in the conversation's file, and the saved preferences name the
\* conversation (prepare_turn, send_openrouter_message_effect).
SentIsRecorded ==
  chat.pc = "streaming" =>
    /\ file[chat.conversation].turns[chat.turn] = "InProgress"
    /\ saved.provider = "OpenRouter" /\ saved.pointer = chat.conversation

\* A turn displayed as active has an end in sight: its task runs or its TurnFinished
\* is queued.  So has a validation displayed as in progress, whichever of its steps
\* fails and whatever an earlier operation left in the queue; a logout ends it itself.
EndsAreInSight ==
  /\ app.turn.kind = "Streaming" =>
       \/ ChatRunning
       \/ \E i \in 1..Len(chatQueue) : ChatReduced(app, chatQueue[i]).turn.kind = "Idle"
  /\ app.validation.kind # "Idle" =>
       \/ ControlRunning /\ control.op = app.validation.op
       \/ \E i \in 1..Len(controlQueue) :
            ControlReduced(app, controlQueue[i]).validation.kind = "Idle"
       \/ effect \in {"logoutControl", "logoutChat"}

\* While /logout waits somebody can move, whatever the tasks are doing and however
\* full their queues are: the coordinator never waits for a task that waits for it
\* (cancel_and_join_control, cancel_active_turn, next_chat_event).
LogoutIsNotStuck ==
  effect \in {"logoutControl", "logoutChat"} =>
    ENABLED Execute \/ ENABLED Chat \/ ENABLED Control

\* Turns, validations and logouts: whatever is under way, somebody will end it.
NothingIsStuck == EndsAreInSight /\ LogoutIsNotStuck
=============================================================================
