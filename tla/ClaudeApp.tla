----------------------------- MODULE ClaudeApp -----------------------------
(***************************************************************************)
(* A Claude conversation as the user meets it: the reducer's Claude state  *)
(* (src/src/app), the coordinator that runs intents, effects and service   *)
(* events one at a time (src/src/backend, src/src/runtime/scheduler.rs),   *)
(* and the turn task behind the event queue.                               *)
(*                                                                         *)
(* The service is the one of module ClaudeService seen from outside: what  *)
(* it queues is a TurnStream, which ClaudeService implements.  An intent   *)
(* and the effects it produces run to their end before the coordinator     *)
(* takes the next intent or event; the task goes on meanwhile.  The other  *)
(* two providers are one, "Other", whose own turns are not modelled.       *)
(***************************************************************************)
EXTENDS Naturals, Sequences

CONSTANTS
  Sessions,       \* session ids
  NoSession,      \* the absence of one
  Aliases,        \* Claude model aliases
  MaxTurns,       \* turn ids the model hands out: bounds the behaviours
  QueueCapacity,  \* EVENT_QUEUE_CAPACITY
  Faults          \* what may go wrong around the reducer (see FaultKinds)

\* preferences: a save of the preferences file may fail or not be verified.
\* registration: so may the save of a new session.  records: so may the save
\* that prepares a turn.  codex: the Codex app-server may send a request that
\* the client denies.
FaultKinds == {"preferences", "registration", "records", "codex"}

ASSUME AppAssumption == /\ NoSession \notin Sessions
                        /\ Aliases # {}
                        /\ MaxTurns \in Nat
                        /\ QueueCapacity \in Nat \ {0}
                        /\ Faults \subseteq FaultKinds

Turns == 1..MaxTurns
NoTurn == 0
Outcomes == {"InProgress", "Completed", "Interrupted", "Failed"}
Providers == {"Claude", "Other"}

VARIABLES
  app,          \* AppState, its Claude part, with the preferences in it
  saved,        \* the preferences file
  effect,       \* the effect the coordinator is executing
  deaf,         \* the scheduler no longer receives events (~event_open)
  active,       \* service.active: the turn task
  record,       \* the lifecycle in each session's file
  nextTurn,     \* the next turn id
  owner,        \* the session whose record has each turn
  unresolved,   \* history: sessions that reported uncertainty, not resumed since
  attached,     \* history: sessions started or resumed by the user in this process
  \* the event queue and what was sent on it (module TurnStream)
  queue, current, session, initialized, last

Stream == INSTANCE TurnStream

streamVars == <<queue, current, session, initialized, last>>
serviceVars == <<active, record, nextTurn, owner, streamVars>>
vars == <<app, saved, effect, deaf, unresolved, attached, serviceVars>>

-----------------------------------------------------------------------------
(* The reducer's state.                                                    *)

NoConversation == [kind |-> "None", id |-> NoSession]
Ready(s) == [kind |-> "Ready", id |-> s]
Uncertain(s) == [kind |-> "CreationUncertain", id |-> s]
Blocked(s) == [kind |-> "ResumeFailed", id |-> s]

TurnIs(kind) == [kind |-> kind, session |-> NoSession, turn |-> NoTurn]
Streaming(s, t) == [kind |-> "Streaming", session |-> s, turn |-> t]

TurnActive(a) == a.turn.kind \in {"Starting", "Streaming"}

Preferences(a) == [provider |-> a.provider, alias |-> a.alias, pointer |-> a.pointer]

\* Mutant: startup attaches the saved session once it finds a subscription.
RestoredAttaches(prefs, subscribed) ==
  [provider |-> prefs.provider, alias |-> prefs.alias, pointer |-> prefs.pointer,
   conversation |-> IF prefs.provider # "Claude" \/ prefs.pointer = NoSession
                    THEN NoConversation
                    ELSE IF subscribed THEN Ready(prefs.pointer) ELSE Blocked(prefs.pointer),
   turn |-> TurnIs("Idle"), shown |-> {}, picker |-> "closed",
   subscribed |-> subscribed, authOp |-> "idle"]

\* AppState once startup has loaded the preferences: a saved Claude session is
\* never attached by itself.
Restored(prefs, subscribed) ==
  [provider |-> prefs.provider, alias |-> prefs.alias, pointer |-> prefs.pointer,
   conversation |-> IF prefs.provider = "Claude" /\ prefs.pointer # NoSession
                    THEN Blocked(prefs.pointer) ELSE NoConversation,
   turn |-> TurnIs("Idle"), shown |-> {}, picker |-> "closed",
   subscribed |-> subscribed, authOp |-> "idle"]

\* Mutant: a turn that is starting or streaming does not hold up the next one.
MaySendAgain(a) ==
  /\ a.provider = "Claude" /\ a.authOp = "idle" /\ a.subscribed
  /\ a.picker = "closed"
  /\ a.conversation.kind \notin {"ResumeFailed", "CreationUncertain"}

\* send_block_reason, for Claude.  A pending /new is never seen by an intent.
MaySend(a) ==
  /\ a.provider = "Claude" /\ a.authOp = "idle" /\ a.subscribed
  /\ ~TurnActive(a) /\ a.picker = "closed"
  /\ a.conversation.kind \notin {"ResumeFailed", "CreationUncertain"}

\* Mutant: the turn is failed by a control operation, too.
OperationFailedEndsTurn(a) ==
  IF TurnActive(a) THEN [a EXCEPT !.authOp = "idle", !.turn.kind = "Failed"]
  ELSE [a EXCEPT !.authOp = "idle"]

\* ClaudeOperationFailed: it ends the control operation in progress, or else the
\* active turn.
OperationFailed(a) ==
  IF a.authOp # "idle" THEN [a EXCEPT !.authOp = "idle"]
  ELSE IF a.turn.kind = "Streaming" \/ (a.turn.kind = "Starting" /\ a.provider = "Claude")
       THEN [a EXCEPT !.turn.kind = "Failed"] ELSE a

\* ClaudeAuthChanged, and block_unscoped_saved_claude_after_auth when a probe of
\* its own, not one before a turn, found a subscription.
AuthVerified(a, subscribed) ==
  [a EXCEPT !.subscribed = subscribed, !.authOp = "idle",
            !.conversation = IF subscribed /\ a.provider = "Claude" /\ a.pointer # NoSession
                             THEN Blocked(a.pointer) ELSE @]

\* Mutant: /new keeps the transcript.
SessionBegunKeeps(a, conversation, new) ==
  [a EXCEPT !.conversation = conversation, !.pointer = conversation.id,
            !.turn = IF new THEN TurnIs("Idle") ELSE @]

\* ClaudeSessionStarted and ClaudeSessionCreationUncertain.  `new`: for /new, which
\* starts from a blank transcript.
SessionBegun(a, conversation, new) ==
  [a EXCEPT !.conversation = conversation, !.pointer = conversation.id,
            !.turn = IF new THEN TurnIs("Idle") ELSE @,
            !.shown = IF new THEN {} ELSE @]

\* matches_claude_turn
Matches(a, e) == a.turn = Streaming(e.session, e.turn)

Accepts(a, e) == a.provider = "Claude" /\ a.turn.kind = "Starting"

\* What became of a turn's text when it is reconciled with the streamed one.
Texts == {"none", "agrees", "contradicts"}

\* Mutant: the uncertain session is not made the saved one.
FinishedForgetsPointer(a, e, text) ==
  [a EXCEPT
     !.turn.kind = IF e.outcome = "Completed" /\ text = "contradicts" THEN "Failed"
                   ELSE e.outcome,
     !.shown = IF text = "agrees" /\ e.outcome \in {"Completed", "Failed"}
               THEN @ \cup {e.turn} ELSE @,
     !.conversation = IF e.uncertain THEN Uncertain(e.session) ELSE @]

\* Mutant: an interrupted turn's uncertainty is not looked at.
FinishedIgnoresDoubt(a, e, text) ==
  [a EXCEPT
     !.turn.kind = IF e.outcome = "Completed" /\ text = "contradicts" THEN "Failed"
                   ELSE e.outcome,
     !.shown = IF text = "agrees" /\ e.outcome \in {"Completed", "Failed"}
               THEN @ \cup {e.turn} ELSE @,
     !.conversation = IF e.uncertain /\ e.outcome = "Failed" THEN Uncertain(e.session)
                      ELSE @]

\* ClaudeTurnFinished of the streaming turn.
Finished(a, e, text) ==
  [a EXCEPT
     !.turn.kind = IF e.outcome = "Completed" /\ text = "contradicts" THEN "Failed"
                   ELSE e.outcome,
     !.shown = IF text = "agrees" /\ e.outcome \in {"Completed", "Failed"}
               THEN @ \cup {e.turn} ELSE @,
     !.conversation = IF e.uncertain THEN Uncertain(e.session) ELSE @,
     !.pointer = IF e.uncertain THEN e.session ELSE @]

\* reduce_claude_event of a service event.
Reduced(a, e, text) ==
  CASE e.kind = "TurnStarted" /\ Accepts(a, e) ->
         [a EXCEPT !.conversation = Ready(e.session), !.pointer = e.session,
                   !.turn = Streaming(e.session, e.turn)]
    [] e.kind = "TextDelta" /\ Matches(a, e) -> [a EXCEPT !.shown = @ \cup {e.turn}]
    [] e.kind = "TurnFinished" /\ Matches(a, e) -> Finished(a, e, text)
    [] OTHER -> a

\* Whether the reducer asks for the preferences to be saved.
Persists(a, e) == \/ e.kind = "TurnStarted" /\ Accepts(a, e)
                  \/ e.kind = "TurnFinished" /\ Matches(a, e) /\ e.uncertain

-----------------------------------------------------------------------------
(* The service, seen from outside.                                         *)

NoTask == [pc |-> "none", turn |-> NoTurn, session |-> NoSession, cancelled |-> FALSE]

TaskRunning == active.pc \in {"launched", "open"}

Cancelled(t) == IF t.pc = "none" THEN t ELSE [t EXCEPT !.cancelled = TRUE]

MaySendEvent == Len(queue) < QueueCapacity

Init ==
  \E subscribed \in BOOLEAN, alias \in Aliases :
    /\ saved = [provider |-> "Claude", alias |-> alias, pointer |-> NoSession]
    /\ app = Restored(saved, subscribed)
    /\ effect = "none"
    /\ deaf = FALSE
    /\ active = NoTask
    /\ record = [s \in Sessions |-> "Absent"]
    /\ nextTurn = 1
    /\ owner = [t \in Turns |-> NoSession]
    /\ unresolved = {}
    /\ attached = {}
    /\ Stream!Init

TaskKeeps == UNCHANGED <<app, saved, effect, deaf, nextTurn, owner, attached>>

TaskBegins ==
  /\ active.pc = "launched" /\ MaySendEvent
  /\ Stream!Begin(active.turn, active.session)
  /\ active' = [active EXCEPT !.pc = "open"]
  /\ TaskKeeps /\ UNCHANGED <<record, unresolved>>

\* The record is established before Initialized is sent.
TaskInitializes ==
  /\ active.pc = "open" /\ MaySendEvent
  /\ Stream!Initialize
  /\ record' = [record EXCEPT ![active.session] = "Established"]
  /\ TaskKeeps /\ UNCHANGED <<active, unresolved>>

TaskSpeaks ==
  /\ active.pc = "open" /\ MaySendEvent
  /\ Stream!Speak
  /\ TaskKeeps /\ UNCHANGED <<active, record, unresolved>>

\* What a reader of the session's file finds after a turn that was not established
\* (the load repairs a creation that did not settle).
Settled(was, uncertain) ==
  CASE was \in {"Established", "Deleted"} -> {was}
    [] uncertain /\ was \notin {"Established", "Deleted"} ->
         {"CreationUncertain", "Established"}
    [] OTHER -> {was, "CreationUncertain"}

\* A turn ends uncertain only if its session was not established, and always if
\* the session was uncertain and still is.
TaskFinishes(outcome, uncertain) ==
  /\ active.pc = "open" /\ MaySendEvent
  /\ outcome = "Interrupted" => active.cancelled
  /\ uncertain => record[active.session] # "Established"
  /\ ~uncertain => record[active.session] # "CreationUncertain"
  /\ Stream!Finish(outcome, uncertain)
  /\ active' = [active EXCEPT !.pc = "done"]
  /\ \E after \in Settled(record[active.session], uncertain) :
       record' = [record EXCEPT ![active.session] = after]
  /\ unresolved' = IF uncertain THEN unresolved \cup {active.session} ELSE unresolved
  /\ TaskKeeps

\* An interrupted task ends, whatever its child does (ClaudeService!WaitsEnd).
TaskSettles == /\ active.cancelled
               /\ \E outcome \in Outcomes \ {"InProgress"}, uncertain \in BOOLEAN :
                    TaskFinishes(outcome, uncertain)

-----------------------------------------------------------------------------
(* Sending a message: the intent, then send_claude_message_effect.         *)

\* How a save may end: "unverified" has replaced the file all the same.
Commits(fault) == IF fault \in Faults THEN {"verified", "unverified", "failed"}
                  ELSE {"verified"}

Unused == {s \in Sessions : record[s] = "Absent"}

\* The model has an id left for what the intent may create.
IdsLeft == /\ nextTurn \in Turns
           /\ app.conversation.kind = "None" => Unused # {}

CoordinatorFree == effect = "none"

SendMessage ==
  /\ CoordinatorFree /\ MaySend(app) /\ IdsLeft
  /\ app' = [app EXCEPT !.turn = TurnIs("Starting")]
  /\ effect' = "send"
  /\ UNCHANGED <<saved, deaf, unresolved, attached, serviceVars>>

\* The probe before the turn does not find a subscription.
SendUnauthenticated ==
  /\ effect = "send"
  /\ app' = OperationFailed([app EXCEPT !.subscribed = FALSE, !.authOp = "idle"])
  /\ effect' = "none"
  /\ UNCHANGED <<saved, deaf, unresolved, attached, serviceVars>>

\* The first message of a conversation registers its session, then saves the
\* pointer to it, and only then goes on to the turn.
SendCreates(s, registration, pointer) ==
  /\ effect = "send" /\ app.conversation.kind = "None"
  /\ s \in Unused
  /\ record' = IF registration = "failed" THEN record
               ELSE [record EXCEPT ![s] = "Fresh"]
  /\ saved' \in IF registration # "verified" THEN {saved}
                ELSE {Preferences([app EXCEPT !.pointer = s])}
                       \cup IF pointer = "failed" THEN {saved} ELSE {}
  /\ app' = CASE registration = "failed" -> OperationFailed(app)
              [] registration = "verified" /\ pointer = "verified" ->
                   SessionBegun(app, Ready(s), FALSE)
              [] OTHER -> SessionBegun(OperationFailed(app), Uncertain(s), FALSE)
  /\ effect' = CASE registration = "failed" -> "none"
                 [] registration = "verified" /\ pointer = "verified" -> "send"
                 [] registration = "verified" /\ pointer = "unverified" -> "none"
                 [] OTHER -> "persistIntent"
  /\ attached' = IF registration = "failed" THEN attached ELSE attached \cup {s}
  /\ UNCHANGED <<deaf, unresolved, active, nextTurn, owner, streamVars>>

\* Mutant: a message that could not be prepared leaves its turn behind.
SendRefusedSilently ==
  /\ effect = "send" /\ app.conversation.kind = "Ready"
  /\ effect' = "none"
  /\ active' = IF TaskRunning THEN active ELSE NoTask
  /\ UNCHANGED <<app, saved, deaf, unresolved, attached, record, nextTurn, owner,
                 streamVars>>

\* prepare_turn fails: always while a task runs, else if the record cannot be
\* read or saved.  A finished task has been reaped all the same.
SendRefused ==
  /\ effect = "send" /\ app.conversation.kind = "Ready"
  /\ app' = OperationFailed(app)
  /\ effect' = "none"
  /\ active' = IF TaskRunning THEN active ELSE NoTask
  /\ UNCHANGED <<saved, deaf, unresolved, attached, record, nextTurn, owner, streamVars>>

Prepares(s) == /\ effect = "send" /\ app.conversation = Ready(s)
               /\ ~TaskRunning
               /\ record[s] \in {"Fresh", "Established", "CreationUncertain"}
               /\ nextTurn' = nextTurn + 1
               /\ owner' = [owner EXCEPT ![nextTurn] = s]
               /\ UNCHANGED <<app, saved, deaf, attached, record>>

SendLaunches(s) ==
  /\ Prepares(s)
  /\ active' = [NoTask EXCEPT !.pc = "launched", !.turn = nextTurn, !.session = s]
  /\ effect' = "none"
  /\ UNCHANGED <<unresolved, streamVars>>

\* The record of an uncertain session's turn could not be verified: the
\* coordinator sends both events of the turn and no task is started.
SendStartsInline(s) ==
  /\ "records" \in Faults
  /\ Prepares(s) /\ record[s] = "CreationUncertain" /\ MaySendEvent
  /\ Stream!Begin(nextTurn, s)
  /\ active' = NoTask
  /\ effect' = "sendInline"
  /\ UNCHANGED unresolved

SendFinishesInline ==
  /\ effect = "sendInline" /\ MaySendEvent
  /\ Stream!Finish("Failed", TRUE)
  /\ unresolved' = unresolved \cup {session}
  /\ effect' = "none"
  /\ UNCHANGED <<app, saved, deaf, active, record, nextTurn, owner, attached>>

-----------------------------------------------------------------------------
(* Other intents on the conversation.                                      *)

\* A notice instead of the effect is left out throughout.
NewThread ==
  /\ CoordinatorFree /\ Unused # {}
  /\ app.provider = "Claude" /\ app.authOp = "idle" /\ app.subscribed
  /\ ~TurnActive(app) /\ app.picker = "closed"
  /\ effect' = "startNew"
  /\ UNCHANGED <<app, saved, deaf, unresolved, attached, serviceVars>>

\* start_new_claude_session_effect: the conversation before it stays unless the
\* new session and the pointer to it are both on disk.
StartNew(s, registration, pointer) ==
  /\ effect = "startNew" /\ s \in Unused
  /\ record' = IF registration = "failed" THEN record
               ELSE [record EXCEPT ![s] = "Fresh"]
  /\ saved' \in IF registration # "verified" THEN {saved}
                ELSE {Preferences([app EXCEPT !.pointer = s])}
                       \cup IF pointer = "failed" THEN {saved} ELSE {}
  /\ LET begun == registration = "verified" /\ pointer # "failed"
     IN /\ app' = CASE registration = "failed" -> OperationFailed(app)
                    [] begun -> SessionBegun(app, IF pointer = "verified" THEN Ready(s)
                                                  ELSE Uncertain(s), TRUE)
                    [] OTHER -> app
        /\ attached' = IF begun THEN attached \cup {s} ELSE attached
  /\ effect' = "none"
  /\ UNCHANGED <<deaf, unresolved, active, nextTurn, owner, streamVars>>

\* SelectProviderModel within Claude: another alias is another conversation.  It
\* does not ask whether a turn is active.
SelectAlias(alias) ==
  /\ CoordinatorFree /\ app.provider = "Claude"
  /\ app' = IF alias = app.alias THEN [app EXCEPT !.picker = "closed"]
            ELSE [app EXCEPT !.picker = "closed", !.alias = alias, !.shown = {},
                             !.conversation = NoConversation, !.pointer = NoSession]
  /\ effect' = "persistIntent"
  /\ UNCHANGED <<saved, deaf, unresolved, attached, serviceVars>>

SwitchProvider(provider) ==
  /\ CoordinatorFree /\ app.provider # provider /\ ~TurnActive(app)
  /\ \E alias \in Aliases :
       /\ provider = "Other" => alias = app.alias
       /\ app' = [app EXCEPT !.provider = provider, !.alias = alias,
                             !.conversation = NoConversation, !.pointer = NoSession,
                             !.turn = TurnIs("Idle"), !.shown = {}, !.picker = "closed"]
  /\ effect' = "persistIntent"
  /\ UNCHANGED <<saved, deaf, unresolved, attached, serviceVars>>

\* There is no turn to interrupt in the service when its events are still queued
\* and it was reaped, or never had a task.
Interrupt ==
  /\ CoordinatorFree /\ app.turn.kind = "Streaming"
  /\ app' = IF active.pc = "none" THEN OperationFailed(app) ELSE app
  /\ active' = Cancelled(active)
  /\ UNCHANGED <<saved, effect, deaf, unresolved, attached, record, nextTurn, owner,
                 streamVars>>

-----------------------------------------------------------------------------
(* The conversation picker.                                                *)

\* /resume, and the list it asks for.
Resume ==
  /\ CoordinatorFree /\ ~TurnActive(app) /\ app.picker = "closed"
  /\ \E phase \in {"ready", "failed"} : app' = [app EXCEPT !.picker = phase]
  /\ UNCHANGED <<saved, effect, deaf, unresolved, attached, serviceVars>>

PickerClose ==
  /\ CoordinatorFree /\ app.picker # "closed"
  /\ app' = [app EXCEPT !.picker = "closed"]
  /\ UNCHANGED <<saved, effect, deaf, unresolved, attached, serviceVars>>

Listed(s) == record[s] \notin {"Absent", "Deleted"}

TurnsOf(s) == {t \in Turns : owner[t] = s}

\* The saved alias comes with the session, and its history replaces the transcript.
PickerSelect(s) ==
  /\ CoordinatorFree /\ app.picker = "ready" /\ Listed(s)
  /\ ~(app.provider = "Claude" /\ app.conversation = Ready(s))
  /\ app.subscribed
  /\ \E alias \in Aliases :
       app' = [app EXCEPT !.provider = "Claude", !.alias = alias, !.picker = "closed",
                          !.conversation = Ready(s), !.pointer = s,
                          !.turn = TurnIs("Idle"), !.shown = TurnsOf(s)]
  /\ unresolved' = unresolved \ {s}
  /\ attached' = attached \cup {s}
  /\ effect' = "persistIntent"
  /\ UNCHANGED <<saved, deaf, serviceVars>>

\* A conversation of another provider: the Claude conversation is left as it was,
\* behind the provider that is now active.
PickerSelectOther ==
  /\ CoordinatorFree /\ app.picker = "ready"
  /\ app' = [app EXCEPT !.provider = "Other", !.pointer = NoSession, !.picker = "closed",
                        !.turn = TurnIs("Idle"), !.shown = {}]
  /\ effect' = "persistIntent"
  /\ UNCHANGED <<saved, deaf, unresolved, attached, serviceVars>>

\* Mutant: only a conversation that takes messages is protected.
ActiveSavedReadyOnly(a) ==
  IF a.provider = "Claude" /\ a.conversation.kind = "Ready" THEN a.conversation.id
  ELSE NoSession

\* active_saved_thread_id, if it is a Claude session.
ActiveSaved(a) == CASE a.provider # "Claude"      -> NoSession
                    [] a.pointer # NoSession      -> a.pointer
                    [] a.conversation.kind = "Ready" -> a.conversation.id
                    [] OTHER                      -> NoSession

PickerDelete(s) ==
  /\ CoordinatorFree /\ app.picker = "ready" /\ Listed(s)
  /\ s # ActiveSaved(app)
  /\ record' = [record EXCEPT ![s] = "Deleted"]
  /\ UNCHANGED <<app, saved, effect, deaf, active, nextTurn, owner, unresolved,
                 attached, streamVars>>

-----------------------------------------------------------------------------
(* Authentication.                                                         *)

\* /login runs in the terminal: its end is another command (AuthFinished).
LoginClaude ==
  /\ CoordinatorFree /\ app.authOp = "idle" /\ ~app.subscribed /\ ~TurnActive(app)
  /\ app' = [app EXCEPT !.authOp = "login", !.picker = "closed"]
  /\ UNCHANGED <<saved, effect, deaf, unresolved, attached, serviceVars>>

\* /logout settles the turn first: it interrupts the task and reduces what is
\* queued while it waits for it.
LogoutClaude ==
  /\ CoordinatorFree /\ app.authOp = "idle"
  /\ active' = Cancelled(active)
  /\ effect' = "drain"
  /\ UNCHANGED <<app, saved, deaf, unresolved, attached, record, nextTurn, owner,
                 streamVars>>

\* Only an established session has said anything.
TextsOf(e) == IF record[e.session] = "Established" THEN Texts ELSE {"none"}

Draining == effect \in {"drain", "drainPersist"}

\* Mutant: the drained events are thrown away.
DrainDiscards ==
  /\ Draining
  /\ Stream!Receive
  /\ UNCHANGED <<app, saved, effect, deaf, unresolved, attached, active, record,
                 nextTurn, owner>>

DrainReceives ==
  /\ Draining
  /\ Stream!Receive
  /\ \E text \in TextsOf(Head(queue)) : app' = Reduced(app, Head(queue), text)
  /\ effect' = IF Persists(app, Head(queue)) THEN "drainPersist" ELSE effect
  /\ UNCHANGED <<saved, deaf, unresolved, attached, active, record, nextTurn, owner>>

\* Mutant: what is queued when the task has ended is thrown away.
DrainEndsEarly ==
  /\ Draining /\ ~TaskRunning
  /\ Stream!ReceiveAll
  /\ active' = NoTask
  /\ app' = [app EXCEPT !.subscribed = FALSE, !.authOp = "logout", !.picker = "closed"]
  /\ effect' = IF effect = "drainPersist" THEN "persistIntent" ELSE "none"
  /\ UNCHANGED <<saved, deaf, unresolved, attached, record, nextTurn, owner>>

DrainEnds ==
  /\ Draining /\ ~TaskRunning /\ queue = <<>>
  /\ active' = NoTask
  /\ app' = [app EXCEPT !.subscribed = FALSE, !.authOp = "logout", !.picker = "closed"]
  /\ effect' = IF effect = "drainPersist" THEN "persistIntent" ELSE "none"
  /\ UNCHANGED <<saved, deaf, unresolved, attached, record, nextTurn, owner, streamVars>>

\* complete_claude_auth: the command failed, or it ended and the account was probed.
AuthFinished ==
  /\ CoordinatorFree /\ app.authOp \in {"login", "logout"}
  /\ \/ /\ app' = OperationFailed([app EXCEPT !.authOp = "checking"])
        /\ UNCHANGED attached
     \/ \E subscribed \in BOOLEAN :
          /\ app' = IF app.authOp = "login" THEN AuthVerified(app, subscribed)
                    ELSE [app EXCEPT !.authOp = "idle", !.subscribed = subscribed]
          /\ attached' = IF app.authOp = "login" /\ subscribed THEN {} ELSE attached
  /\ UNCHANGED <<saved, effect, deaf, unresolved, serviceVars>>

\* A probe of the account, whose failure ends the operation it runs as.
RefreshClaude ==
  /\ CoordinatorFree /\ app.authOp = "idle"
  /\ \/ app' = OperationFailed([app EXCEPT !.authOp = "checking", !.subscribed = FALSE])
     \/ \E subscribed \in BOOLEAN : app' = AuthVerified(app, subscribed)
  /\ UNCHANGED <<saved, effect, deaf, unresolved, attached, serviceVars>>

-----------------------------------------------------------------------------
(* The coordinator's loop.                                                 *)

Receive ==
  /\ CoordinatorFree /\ ~deaf
  /\ Stream!Receive
  /\ \E text \in TextsOf(Head(queue)) : app' = Reduced(app, Head(queue), text)
  /\ effect' = IF Persists(app, Head(queue)) THEN "persistEvent" ELSE "none"
  /\ UNCHANGED <<saved, deaf, unresolved, attached, active, record, nextTurn, owner>>

\* Effect::Persist.  An error after an intent is a notice; after an event it
\* closes the scheduler's event source.
Persist ==
  /\ effect \in {"persistIntent", "persistEvent"}
  /\ \/ /\ saved' = Preferences(app)
        /\ UNCHANGED deaf
     \/ /\ "preferences" \in Faults
        /\ saved' \in {saved, Preferences(app)}
        /\ deaf' = (deaf \/ effect = "persistEvent")
  /\ effect' = "none"
  /\ UNCHANGED <<app, unresolved, attached, serviceVars>>

\* The Codex transport denied a request of its server: SafetyViolation fails the
\* turn that is active, whichever provider it is of.
CodexSafetyViolation ==
  /\ "codex" \in Faults
  /\ CoordinatorFree /\ ~deaf
  /\ app' = [app EXCEPT !.turn.kind = IF TurnActive(app) THEN "Failed" ELSE @,
                        !.picker = IF @ = "closed" THEN @ ELSE "failed"]
  /\ UNCHANGED <<saved, effect, deaf, unresolved, attached, serviceVars>>

\* The next process: what it finds in the file of the session whose turn ran is
\* what settling, or the repair of what was not settled, made of it.
Restarts ==
  /\ \E subscribed \in BOOLEAN : app' = Restored(saved', subscribed)
  /\ effect' = "none" /\ deaf' = FALSE
  /\ active' = NoTask
  /\ record' \in IF TaskRunning
                 THEN {[record EXCEPT ![active.session] = after] :
                         after \in UNION {Settled(record[active.session], uncertain) :
                                            uncertain \in BOOLEAN}}
                 ELSE {record}
  /\ attached' = {}
  /\ Stream!Lose
  /\ UNCHANGED <<nextTurn, owner, unresolved>>

\* Quit: the reducer takes nothing any more, the turn is drained unread, and the
\* preferences are saved.
Quit ==
  /\ CoordinatorFree
  /\ saved' \in {Preferences(app)} \cup IF "preferences" \in Faults THEN {saved} ELSE {}
  /\ Restarts

Crash == UNCHANGED saved /\ Restarts

Send ==
  \/ SendUnauthenticated
  \/ \E s \in Sessions, registration \in Commits("registration"),
        pointer \in Commits("preferences") : SendCreates(s, registration, pointer)
  \/ SendRefused
  \/ \E s \in Sessions : SendLaunches(s)
  \/ \E s \in Sessions : SendStartsInline(s)
  \/ SendFinishesInline

\* Executing an effect.
Execute ==
  \/ Send
  \/ \E s \in Sessions, registration \in Commits("registration"),
        pointer \in Commits("preferences") : StartNew(s, registration, pointer)
  \/ DrainReceives \/ DrainEnds
  \/ Persist

Intent ==
  \/ SendMessage \/ NewThread \/ Interrupt
  \/ \E alias \in Aliases : SelectAlias(alias)
  \/ \E provider \in Providers : SwitchProvider(provider)
  \/ Resume \/ PickerClose \/ PickerSelectOther
  \/ \E s \in Sessions : PickerSelect(s)
  \/ \E s \in Sessions : PickerDelete(s)
  \/ LoginClaude \/ LogoutClaude \/ RefreshClaude

Task == \/ TaskBegins \/ TaskInitializes \/ TaskSpeaks
        \/ \E outcome \in Outcomes \ {"InProgress"}, uncertain \in BOOLEAN :
             TaskFinishes(outcome, uncertain)

Next == \/ Intent \/ AuthFinished \/ Execute
        \/ Task \/ Receive \/ CodexSafetyViolation
        \/ Quit \/ Crash

Spec == Init /\ [][Next]_vars

\* An effect runs to its end.  The scheduler prefers an event after each command,
\* so intents cannot starve the queue.  A task that may send does; one that was
\* cancelled is told so with its child's next line at the latest, by a fair choice.
Fairness == /\ WF_vars(Execute)
            /\ SF_vars(Receive)
            /\ WF_vars(TaskBegins)
            /\ SF_vars(TaskSettles)

FairSpec == Spec /\ Fairness

-----------------------------------------------------------------------------
(* Properties.                                                             *)

\* What is displayed belongs to one conversation: every turn whose text is on the
\* screen is a turn of the session the next message goes to, through /new, /resume,
\* changes of model and provider, late events and restarts (SelectProviderModel,
\* ClaudeSessionRestored, ClaudeSessionStarted, matches_claude_turn).
OneConversation ==
  app.provider = "Claude" =>
    \A t \in app.shown : app.conversation.id = owner[t]

\* A turn the service is still running is the one the reducer waits for: no intent,
\* failed control operation or stale event lets the user go on beside it.
NoOrphanTurn ==
  TaskRunning => \/ app.turn.kind = "Starting"
                 \/ app.turn = Streaming(active.session, active.turn)

Queued(kind, t) == \E i \in 1..Len(queue) : queue[i].kind = kind /\ queue[i].turn = t

\* A turn displayed as active has an end in sight: its task runs, or its
\* TurnFinished is queued, or the coordinator is still sending it.
TurnHasAnEnd ==
  /\ app.turn.kind = "Streaming" =>
       \/ TaskRunning /\ active.turn = app.turn.turn
       \/ Queued("TurnFinished", app.turn.turn)
       \/ effect = "sendInline" /\ current = app.turn.turn
  /\ app.turn.kind = "Starting" =>
       \/ effect \in {"send", "sendInline"}
       \/ active.pc = "launched"
       \/ \E t \in Turns : Queued("TurnStarted", t)

\* After a turn that ended uncertain the conversation does not take messages until
\* the user resumed or replaced it (ClaudeTurnFinished, send_block_reason).
DoubtIsShown ==
  \A s \in unresolved : app.conversation = Ready(s) =>
    \/ app.provider # "Claude"
    \/ Queued("TurnFinished", app.turn.turn) /\ app.turn.kind = "Streaming"
    \/ Queued("TurnStarted", last) /\ app.turn.kind = "Starting"

\* Messages only go to a session the user started or resumed in this process, and
\* since the last sign-in: neither startup nor sign-in attaches a saved session
\* by itself (startup_claude, block_unscoped_saved_claude_after_auth).
NeverAttachedSilently ==
  app.provider = "Claude" /\ app.conversation.kind = "Ready"
    => app.conversation.id \in attached

\* The conversation on the screen is not deleted under it (active_saved_thread_id).
\* A saved one that only blocks sending may be gone: its pointer may be out of date.
ConversationIsKept ==
  app.provider = "Claude" /\ app.conversation.kind \in {"Ready", "CreationUncertain"}
    => record[app.conversation.id] \notin {"Absent", "Deleted"}

\* A blocked or ready conversation is the one the saved pointer names, so that the
\* picker protects it and a restart finds it again.
PointerFollows ==
  app.provider = "Claude" => app.pointer = app.conversation.id

\* A message is only prepared with no task running and nothing left in the queue,
\* so that a turn the coordinator itself sends cannot wait for its own reader.
LaunchFindsQueueEmpty == effect = "send" => ~TaskRunning /\ queue = <<>>

\* The turns of the service and of the reducer do not overlap.
OneTurnAtATime == NoOrphanTurn /\ LaunchFindsQueueEmpty

\* A message that was taken starts a turn or fails visibly.
SendSettles == app.turn.kind = "Starting" ~> app.turn.kind # "Starting"

\* An interrupted turn does not stay active on the screen.
InterruptMarksTurn ==
  active.cancelled /\ app.turn.kind = "Streaming" ~> app.turn.kind # "Streaming"

\* Neither what was sent nor what was interrupted keeps the user waiting.
TurnsSettle == SendSettles /\ InterruptMarksTurn
=============================================================================
