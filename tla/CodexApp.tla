------------------------------ MODULE CodexApp ------------------------------
(***************************************************************************)
(* Codex accounts, threads and turns: the reducer's Codex state            *)
(* (src/src/app), the coordinator that executes effects and reads the      *)
(* session's events (src/src/backend, src/src/codex/session), and, as far  *)
(* as they use it, the app-server child behind the transport.              *)
(*                                                                         *)
(* The coordinator runs an intent or an event, with its effects, to the    *)
(* end; the app-server goes on meanwhile, so that what it answers and what *)
(* it notifies may be about an account or a turn the reducer does not know *)
(* of yet.  The other providers are one, "Other", whose own state is not   *)
(* modelled; `Transport` says what a call and the event queue can do.      *)
(***************************************************************************)
EXTENDS Naturals, Sequences

CONSTANTS
  Accounts,      \* the ChatGPT accounts that have an identity, an AccountScope
  MaxThreads,    \* thread ids the app-server hands out
  MaxTurns,      \* turn ids it hands out
  MaxLogins,     \* login ids it hands out
  MaxChanges,    \* account notifications it sends of its own accord
  MaxSwitches,   \* switches to another provider
  MaxRestarts,   \* quits and crashes
  MaxFaults,     \* calls and saves that fail, children that exit or are denied
  MaxWork,       \* all but the faults together: these eight bound the behaviours
  QueueCapacity, \* EVENT_QUEUE of the transport
  Faults         \* what may go wrong (see FaultKinds)

\* calls: a call may fail or time out, carried out or not.  saves: a save of the
\* preferences may fail, after it replaced the file or before.
FaultKinds == {"calls", "saves"}

ASSUME CodexAssumption ==
  /\ {MaxTurns, MaxLogins, MaxChanges, MaxSwitches, MaxRestarts, MaxFaults, MaxWork}
       \subseteq Nat
  /\ MaxThreads \in Nat \ {0}   \* one may have been saved by the version before
  /\ QueueCapacity \in Nat \ {0}
  /\ Faults \subseteq FaultKinds

Threads == 1..MaxThreads
Turns == 1..MaxTurns
Logins == 1..MaxLogins
None == 0            \* no thread, no turn, no login
NoScope == "unknown" \* AccountScope is None: an account without a usable email

Scopes == Accounts \cup {NoScope}
ServerAccounts == Scopes \cup {"signedOut", "unsupported"}
Providers == {"Codex", "Other"}

VARIABLES
  app,      \* AppState, its Codex part, with the preferences in it
  saved,    \* the preferences file
  effect,   \* the effect the coordinator is executing
  deaf,     \* the scheduler no longer receives events (~event_open)
  wire,     \* the transport; "gone" once the coordinator dropped its session
  events,   \* the transport's event queue
  server,   \* the app-server: its account, pending login, threads, running turns
  next,     \* the next thread, turn and login ids
  counts,   \* account changes, switches of provider, restarts and faults so far
  unsaved   \* history: a save of the preferences has failed

vars == <<app, saved, effect, deaf, wire, events, server, next, counts, unsaved>>

Work == next.thread + next.turn + next.login + counts.changes + counts.switches
          + 2 * counts.restarts

-----------------------------------------------------------------------------
(* The reducer's state.                                                    *)

NoThread == [kind |-> "None", id |-> None]
Resuming(t) == [kind |-> "Resuming", id |-> t]
Ready(t) == [kind |-> "Ready", id |-> t]
ResumeFailed(t) == [kind |-> "ResumeFailed", id |-> t]
AccountMismatch(t) == [kind |-> "AccountMismatch", id |-> t]

\* A turn that ended, however it did, is as good as none.
TurnIs(kind) == [kind |-> kind, thread |-> None, turn |-> None]
Streaming(t, u) == [kind |-> "Streaming", thread |-> t, turn |-> u]

AuthIs(kind) == [kind |-> kind, login |-> None, scope |-> NoScope]
SigningIn(l) == [AuthIs("SigningIn") EXCEPT !.login = l]
SignedIn(s) == [AuthIs("SignedIn") EXCEPT !.scope = s]

\* ThreadPickerState.  `targets` are the Codex threads a deletion asks to confirm,
\* `mixed` whether it is of other providers' conversations too.
Picker(phase, threads) ==
  [phase |-> phase, threads |-> threads, targets |-> {}, mixed |-> FALSE]
Closed == Picker("closed", {})

TurnActive(a) == a.turn.kind \in {"Starting", "Streaming"}
PickerOpen(a) == a.picker.phase # "closed"

Preferences(a) == [provider |-> a.provider, pointer |-> a.pointer, scope |-> a.scope,
                   registry |-> a.registry]

\* Mutant: the thread on the screen only.
ActiveSavedOnScreen(a) == IF a.thread.kind = "Ready" THEN a.thread.id ELSE None

\* active_saved_thread_id, of the Codex provider.
ActiveSaved(a) == IF a.pointer # None THEN a.pointer
                  ELSE IF a.thread.kind = "Ready" THEN a.thread.id ELSE None

IsActive(a, t) == a.provider = "Codex" /\ ActiveSaved(a) = t

\* register_thread_scope
Registered(a, t) ==
  IF a.auth.kind = "SignedIn" /\ a.auth.scope # NoScope
  THEN [a EXCEPT !.registry[t] = a.auth.scope] ELSE a

\* What a new thread and one that was switched to leave in the preferences.
Adopted(a, t) ==
  Registered([a EXCEPT !.thread = Ready(t), !.pointer = t,
                       !.scope = IF a.auth.kind = "SignedIn" THEN a.auth.scope ELSE @], t)

\* valid_codex and valid_preferences: the file takes no others.
Valid(p) == /\ p.pointer # None => p.provider = "Codex"
            /\ p.pointer # None /\ p.scope # NoScope =>
                 p.registry[p.pointer] \in {NoScope, p.scope}

\* PreferencesLoaded: a version that kept no registry left the pointer and its account.
Loaded(p) ==
  IF p.pointer # None /\ p.scope # NoScope /\ p.registry[p.pointer] = NoScope
  THEN [p EXCEPT !.registry[p.pointer] = p.scope] ELSE p

\* thread_action_block_reason, without an identity: pending_new_thread_scope is the
\* effect's and never outlives it.
MayAct(a) == /\ a.provider = "Codex" /\ ~PickerOpen(a)
             /\ a.connection = "Ready" /\ a.auth.kind = "SignedIn"
             /\ ~TurnActive(a) /\ a.models

\* send_block_reason, for Codex.
MaySend(a) == MayAct(a) /\ a.thread.kind \in {"None", "Ready"}

-----------------------------------------------------------------------------
(* Events as the reducer takes them.                                       *)

\* Mutant: every provider returns early.
AccountLoadedQuietly(a, s) == [a EXCEPT !.auth = SignedIn(s)]

\* AccountLoaded.  An account that was switched detaches the turn and the picker; the
\* saved thread is only resumed when no thread is there, and only by its own account.
AccountLoaded(a, s) ==
  LET switched == a.auth.kind = "SignedIn" /\ a.auth.scope # s
      seen == [a EXCEPT !.auth = SignedIn(s),
                        !.turn = IF switched THEN TurnIs("Idle") ELSE @,
                        !.picker = IF switched THEN Closed ELSE @]
  IN CASE a.provider # "Codex" -> [a EXCEPT !.auth = SignedIn(s)]
       [] a.provider = "Codex" /\ a.pointer = None ->
            [seen EXCEPT !.thread = IF switched THEN NoThread ELSE @]
       [] OTHER ->
            IF s = NoScope \/ s # a.scope
            THEN [seen EXCEPT !.picker = Closed, !.thread = AccountMismatch(a.pointer)]
            ELSE IF ~PickerOpen(a) /\ a.thread.kind = "None"
                 THEN [seen EXCEPT !.thread = Resuming(a.pointer)] ELSE seen

Detached(a, thread) ==
  [a EXCEPT !.thread = thread, !.turn = TurnIs("Idle"), !.picker = Closed]

LoggedOut(a) ==
  LET out == [a EXCEPT !.auth = AuthIs("SignedOut")]
  IN IF a.provider = "Codex" THEN Detached(out, NoThread) ELSE out

UnsupportedAccount(a) ==
  LET out == [a EXCEPT !.auth = AuthIs("Unsupported")]
  IN IF a.provider = "Codex"
     THEN Detached(out, IF a.pointer = None THEN NoThread ELSE AccountMismatch(a.pointer))
     ELSE out

LoginFailed(a) == [a EXCEPT !.auth = AuthIs("SignedOut")]

\* Mutant: with another provider on the screen the account is left as it was.
AccountReadIfActive(a, account) ==
  CASE a.provider # "Codex" /\ a.auth.kind = "SignedIn" -> a
    [] account = "signedOut"   -> LoggedOut(a)
    [] account = "unsupported" -> UnsupportedAccount(a)
    [] OTHER                   -> AccountLoaded(a, account)

\* reduce_account
AccountRead(a, account) == CASE account = "signedOut"   -> LoggedOut(a)
                             [] account = "unsupported" -> UnsupportedAccount(a)
                             [] OTHER                   -> AccountLoaded(a, account)

\* Mutant: only a turn with an id fails.
TurnFailedIfStreaming(a) ==
  IF a.turn.kind = "Streaming" THEN [a EXCEPT !.turn = TurnIs("Idle")] ELSE a

\* TurnOperationFailed
TurnFailed(a) == IF TurnActive(a) THEN [a EXCEPT !.turn = TurnIs("Idle")] ELSE a

FailedPicker(a) == IF PickerOpen(a) THEN [a.picker EXCEPT !.phase = "Failed", !.targets = {}]
                   ELSE Closed

\* Mutant: a turn that streams waits for its events.
ConnectionFailedMidTurn(a) ==
  LET failed == [a EXCEPT !.connection = "Failed"]
  IN IF a.provider = "Codex"
     THEN [failed EXCEPT !.picker = FailedPicker(a),
                         !.turn = IF a.turn.kind = "Starting" THEN TurnIs("Idle") ELSE @]
     ELSE failed

\* ConnectionFailed, ProcessExited
ConnectionFailed(a) ==
  LET failed == [a EXCEPT !.connection = "Failed"]
  IN IF a.provider = "Codex" THEN TurnFailed([failed EXCEPT !.picker = FailedPicker(a)])
     ELSE failed

\* SafetyViolation, whichever provider is active.
SafetyViolation(a) ==
  TurnFailed([a EXCEPT !.connection = "Failed", !.picker = FailedPicker(a)])

\* TurnStarted, with the answer to turn/start.  The notification of the same name comes
\* after it and says nothing new.
TurnStarted(a, t, u) ==
  IF a.thread = Ready(t) /\ a.turn.kind = "Starting"
  THEN [a EXCEPT !.turn = Streaming(t, u)] ELSE a

\* ThreadStarted
ThreadStarted(a, t) ==
  IF a.thread.kind = "None" /\ a.turn.kind = "Starting" THEN Adopted(a, t) ELSE a

\* NewThreadSucceeded, for the account it was asked for.
NewThreadSucceeded(a, t, s) ==
  IF a.auth = SignedIn(s)
  THEN [Adopted(a, t) EXCEPT !.turn = TurnIs("Idle"), !.picker = Closed] ELSE a

\* ThreadListLoaded: what is not registered to the account is not shown.
ThreadListLoaded(a, threads) ==
  LET own == {t \in threads : /\ a.auth.kind = "SignedIn" /\ a.auth.scope # NoScope
                              /\ a.registry[t] = a.auth.scope}
  IN [a EXCEPT !.picker = Picker("Ready", own)]

\* Mutant: the preferences keep the account of the thread before.
ThreadSwitchKeepsScope(a, t) ==
  [Adopted(a, t) EXCEPT !.provider = "Codex", !.turn = TurnIs("Idle"), !.picker = Closed,
                        !.scope = a.scope]

\* ThreadSwitchSucceeded
ThreadSwitchSucceeded(a, t) ==
  [Adopted(a, t) EXCEPT !.provider = "Codex", !.turn = TurnIs("Idle"), !.picker = Closed]

\* ResumeSucceeded: who owns the thread is as the preferences say.
ResumeSucceeded(a, t) ==
  IF a.thread = Resuming(t)
  THEN Registered([a EXCEPT !.thread = Ready(t), !.turn = TurnIs("Idle"), !.pointer = t], t)
  ELSE a

\* ThreadDeletionFinished: the active thread stays listed and registered.
ThreadDeletionFinished(a, deleted) ==
  LET safe == {t \in deleted : ~IsActive(a, t)}
  IN [a EXCEPT !.picker = Picker("Ready", @.threads \ safe),
               !.registry = [t \in Threads |-> IF t \in safe THEN NoScope ELSE @[t]]]

-----------------------------------------------------------------------------
(* Calls of the app-server, its notifications, and saves.                  *)

NoEffect == [kind |-> "none", id |-> None, left |-> {}, done |-> {}, mixed |-> FALSE,
             event |-> FALSE]
Effect(kind, id) == [NoEffect EXCEPT !.kind = kind, !.id = id]

CoordinatorFree == effect.kind = "none"

\* What the effect at hand leads to.
Then(kind) == effect' = [Effect(kind, None) EXCEPT !.event = effect.event]

\* The events of a Codex connection reach the reducer.
Heard == ~deaf /\ wire # "gone"

Outcome(heard, done) == [heard |-> heard, done |-> done, fault |-> FALSE]

MayFail == counts.faults < MaxFaults

Counted(fault) == counts' = IF fault THEN [counts EXCEPT !.faults = @ + 1] ELSE counts

\* What a caller hears, and whether the app-server carried the call out.
Outcomes ==
  CASE wire = "open" -> {Outcome("ok", TRUE)} \cup
                        (IF "calls" \in Faults /\ MayFail
                         THEN [heard : {"failed", "timeout"}, done : BOOLEAN, fault : {TRUE}]
                         ELSE {})
    [] wire = "denied" -> {Outcome("denied", FALSE)}
    [] OTHER           -> {Outcome("failed", FALSE)}

\* The app-server refuses a call about a thread it does not have.
OutcomesOn(t) == {o \in Outcomes : o.done => t \in server.threads}
                   \cup (IF t \in server.threads THEN {} ELSE {Outcome("failed", FALSE)})

\* is_fatal_transport
Fatal(o) == o.heard \in {"timeout", "denied"}

FailedIfFatal(o, a) == IF Fatal(o) THEN ConnectionFailed(a) ELSE a

\* reduce_mutating_error
MutatingError(o, a) == CASE o.heard = "timeout" -> ConnectionFailed(a)
                         [] o.heard = "denied"  -> SafetyViolation(a)
                         [] OTHER               -> TurnFailed(a)

\* What a child that ended takes with it.
Stopped(srv) == [srv EXCEPT !.running = {}, !.login = None]

Note(kind, thread, turn) ==
  [kind |-> kind, thread |-> thread, turn |-> turn, login |-> None, success |-> FALSE]
AccountUpdated == Note("AccountUpdated", None, None)
LoginCompleted(l, success) ==
  [Note("LoginCompleted", None, None) EXCEPT !.login = l, !.success = success]

\* The app-server is as `srv` and says so.  Without room for what it says the
\* transport gives the connection up.
Tell(srv, notes) ==
  IF wire = "open" /\ Len(events) + Len(notes) > QueueCapacity
  THEN /\ wire' = "closed"
       /\ events' = events \o SubSeq(notes, 1, QueueCapacity - Len(events))
       /\ server' = Stopped(srv)
  ELSE /\ events' = IF wire = "open" THEN events \o notes ELSE events
       /\ server' = srv
       /\ UNCHANGED wire

\* The coordinator drops its session, and the child with it.
Dropped == /\ wire' = "gone" /\ events' = <<>>
           /\ server' = Stopped(server)

Silently == UNCHANGED <<wire, events>>

\* What the file holds after a save of the preferences, and whether it succeeded.
Saves == LET new == Preferences(app)
         IN IF ~Valid(new) THEN {<<saved, FALSE>>}
            ELSE {<<new, TRUE>>} \cup
                 (IF "saves" \in Faults /\ MayFail THEN {saved, new} \X {FALSE} ELSE {})

\* What a call of the app-server leaves alone.
CallKeeps == UNCHANGED <<saved, deaf, unsaved>>

\* The same, of a step that names nothing new.
StepKeeps == CallKeeps /\ UNCHANGED <<next, counts>>

-----------------------------------------------------------------------------
(* Startup and the account.                                                *)

\* AccountLoaded may ask for the saved thread.
AccountTaken(a) ==
  /\ app' = a
  /\ IF a.thread.kind = "Resuming" /\ app.thread.kind # "Resuming"
     THEN effect' = [Effect("resume", a.thread.id) EXCEPT !.event = effect.event]
     ELSE effect' = NoEffect

\* initialize, account/read and model/list; a failure of any gives the startup up.
Startup ==
  /\ effect.kind = "startup"
  /\ IF wire = "gone"
     THEN UNCHANGED <<app, counts>> /\ effect' = NoEffect
     ELSE \E o \in Outcomes :
            /\ IF o.heard = "ok"
               THEN AccountTaken(AccountRead([app EXCEPT !.connection = "Ready",
                                                         !.models = TRUE], server.account))
               ELSE app' = ConnectionFailed(app) /\ effect' = NoEffect
            /\ Counted(o.fault)
  /\ Silently /\ CallKeeps /\ UNCHANGED <<next, server>>

Takes(a, ensuing) ==
  /\ app' = a /\ effect' = ensuing
  /\ Silently /\ StepKeeps /\ UNCHANGED server

\* begin_login
Login ==
  /\ CoordinatorFree /\ next.login \in Logins /\ Work < MaxWork
  /\ app.connection = "Ready" /\ app.auth.kind = "SignedOut"
  /\ Takes(app, Effect("login", None))

\* start_login: the app-server waits for one login at a time.
LoginStarts ==
  /\ effect.kind = "login"
  /\ \E o \in Outcomes :
       /\ Counted(o.fault)
       /\ app' = IF o.heard = "ok" THEN [app EXCEPT !.auth = SigningIn(next.login)]
                 ELSE LoginFailed(app)
       /\ server' = IF o.done THEN [server EXCEPT !.login = next.login] ELSE server
  /\ next' = [next EXCEPT !.login = @ + 1]
  /\ effect' = NoEffect
  /\ Silently /\ CallKeeps

Logout ==
  /\ CoordinatorFree
  /\ \/ app.auth.kind = "SigningIn" /\ Takes(app, Effect("cancel", app.auth.login))
     \/ app.auth.kind = "SignedIn" /\ Takes(app, Effect("logout", None))

\* cancel_login: if it cannot be cancelled the sign-in stays as it is.
CancelLogin ==
  /\ effect.kind = "cancel"
  /\ \E o \in Outcomes :
       /\ Counted(o.fault)
       /\ Then(IF o.heard = "ok" THEN "cancelRead" ELSE "none")
       /\ IF o.done /\ server.login = effect.id
          THEN Tell([server EXCEPT !.login = None], <<LoginCompleted(effect.id, FALSE)>>)
          ELSE Silently /\ UNCHANGED server
  /\ CallKeeps /\ UNCHANGED next /\ UNCHANGED app

CancelReads ==
  /\ effect.kind = "cancelRead"
  /\ \E o \in Outcomes :
       /\ Counted(o.fault)
       /\ AccountTaken(IF o.heard = "ok" THEN AccountRead(app, server.account)
                       ELSE LoginFailed(app))
  /\ Silently /\ CallKeeps /\ UNCHANGED next /\ UNCHANGED server

LogsOut ==
  /\ effect.kind = "logout"
  /\ \E o \in Outcomes :
       /\ Counted(o.fault)
       /\ app' = IF o.heard = "ok" THEN LoggedOut(app) ELSE app
       /\ IF o.done THEN Tell([server EXCEPT !.account = "signedOut"], <<AccountUpdated>>)
          ELSE Silently /\ UNCHANGED server
  /\ effect' = NoEffect
  /\ CallKeeps /\ UNCHANGED next

\* account/read for an event; an error ends the session.
ReadAccount ==
  /\ effect.kind = "read"
  /\ \E o \in Outcomes :
       /\ IF o.heard = "ok"
          THEN AccountTaken(AccountRead(app, server.account)) /\ Silently /\ UNCHANGED server
          ELSE app' = ConnectionFailed(app) /\ effect' = NoEffect /\ Dropped
       /\ Counted(o.fault)
  /\ CallKeeps /\ UNCHANGED next

-----------------------------------------------------------------------------
(* Threads.                                                                *)

WithThread(t) == [server EXCEPT !.threads = @ \cup {t}]

\* Whatever the call comes to, its id is used up.
UsesThread == next' = [next EXCEPT !.thread = @ + 1]

NewThread ==
  /\ CoordinatorFree /\ MayAct(app)
  /\ next.thread \in Threads /\ Work < MaxWork
  /\ Takes(app, Effect("new", None))

\* start_new_thread_effect
NewThreadStarts ==
  /\ effect.kind = "new"
  /\ \E o \in Outcomes :
       /\ Counted(o.fault)
       /\ app' = IF o.heard = "ok"
                 THEN NewThreadSucceeded(app, next.thread, app.auth.scope)
                 ELSE FailedIfFatal(o, app)
       /\ server' = IF o.done THEN WithThread(next.thread) ELSE server
       /\ Then(IF o.heard = "ok" THEN "persist" ELSE "none")
  /\ UsesThread
  /\ Silently /\ CallKeeps

\* resume_thread_effect: no error of it fails the connection.
ResumeThread ==
  /\ effect.kind = "resume"
  /\ \E o \in OutcomesOn(effect.id) :
       /\ Counted(o.fault)
       /\ app' = IF o.heard = "ok" THEN ResumeSucceeded(app, effect.id)
                 ELSE [app EXCEPT !.thread = ResumeFailed(effect.id)]
       /\ Then(IF o.heard = "ok" THEN "persist" ELSE "none")
  /\ Silently /\ CallKeeps /\ UNCHANGED next /\ UNCHANGED server

\* /resume
Resume ==
  /\ CoordinatorFree /\ ~TurnActive(app) /\ ~PickerOpen(app)
  /\ Takes([app EXCEPT !.picker = Picker("Loading", {})], Effect("list", None))

\* list_threads_effect: if the other providers list theirs, a failure shows no thread.
ListThreads ==
  /\ effect.kind = "list"
  /\ \E o \in Outcomes :
       /\ app' \in IF o.heard = "ok" THEN {ThreadListLoaded(app, server.threads)}
                  ELSE {ThreadListLoaded(app, {}),
                        [app EXCEPT !.picker = Picker("Failed", {})]}
       /\ Counted(o.fault)
  /\ effect' = NoEffect
  /\ Silently /\ CallKeeps /\ UNCHANGED <<next, server>>

\* What the user is not asked about is chosen.
Choosing == CoordinatorFree /\ app.picker.phase = "Ready"
            /\ app.picker.targets = {} /\ ~app.picker.mixed

\* select_thread_picker, of a Codex thread: whose it is was asked when it was listed.
PickerSelect(t) ==
  /\ Choosing /\ t \in app.picker.threads
  /\ IF app.thread = Ready(t) /\ app.provider = "Codex"
     THEN Takes([app EXCEPT !.picker = Closed], NoEffect)
     ELSE /\ app.connection = "Ready" /\ app.models
          /\ app.auth.kind = "SignedIn" /\ app.auth.scope # NoScope
          /\ Takes([app EXCEPT !.picker.phase = "Resuming"], Effect("switch", t))

\* switch_thread_effect
SwitchThread ==
  /\ effect.kind = "switch"
  /\ \E o \in OutcomesOn(effect.id) :
       /\ Counted(o.fault)
       /\ app' = IF o.heard = "ok" THEN ThreadSwitchSucceeded(app, effect.id)
                 ELSE FailedIfFatal(o, [app EXCEPT !.picker.phase = "Ready"])
       /\ Then(IF o.heard = "ok" THEN "persist" ELSE "none")
  /\ Silently /\ CallKeeps /\ UNCHANGED next /\ UNCHANGED server

\* A switch of provider starts a blank conversation.
Blank(provider) == [app EXCEPT !.provider = provider, !.pointer = None,
                               !.thread = NoThread, !.turn = TurnIs("Idle")]

\* It is saved.
Leaves(a) == /\ counts.switches < MaxSwitches /\ Work < MaxWork
             /\ counts' = [counts EXCEPT !.switches = @ + 1]
             /\ app' = a /\ effect' = Effect("persist", None)
             /\ Silently /\ CallKeeps /\ UNCHANGED <<next, server>>

\* Of another provider's conversation it is only modelled that it is there.
PickerSelectOther == Choosing /\ Leaves([Blank("Other") EXCEPT !.picker = Closed])

\* SelectProviderModel
SwitchProvider(provider) ==
  /\ CoordinatorFree /\ ~PickerOpen(app) /\ ~TurnActive(app)
  /\ app.provider # provider
  /\ IF provider = "Other" THEN Leaves(Blank(provider))
     ELSE app.models /\ Takes(Blank(provider), Effect("persist", None))

PickerClose ==
  /\ CoordinatorFree /\ app.picker.phase \in {"Ready", "Failed"}
  /\ Takes([app EXCEPT !.picker = Closed], NoEffect)

\* request_selected_thread_delete
RequestDelete(t) ==
  /\ Choosing /\ t \in app.picker.threads /\ ~IsActive(app, t)
  /\ Takes([app EXCEPT !.picker.targets = {t}], NoEffect)

\* request_clear_inactive_threads: other providers' conversations may be among them.
RequestClear(mixed) ==
  /\ Choosing
  /\ LET targets == {t \in app.picker.threads : ~IsActive(app, t)}
     IN /\ targets # {}
        /\ Takes([app EXCEPT !.picker.targets = targets, !.picker.mixed = mixed], NoEffect)

CancelDelete ==
  /\ CoordinatorFree /\ app.picker.targets # {}
  /\ Takes([app EXCEPT !.picker.targets = {}, !.picker.mixed = FALSE], NoEffect)

\* confirm_thread_delete, which asks again what is active.
ConfirmDelete ==
  /\ CoordinatorFree /\ app.picker.phase = "Ready" /\ app.picker.targets # {}
  /\ LET asked == [app EXCEPT !.picker.targets = {}, !.picker.mixed = FALSE]
     IN IF \E t \in app.picker.targets : IsActive(app, t)
        THEN Takes(asked, NoEffect)
        ELSE Takes([asked EXCEPT !.picker.phase = "Deleting"],
                   [Effect("delete", None) EXCEPT !.left = app.picker.targets,
                                                  !.mixed = app.picker.mixed])

\* delete_threads; delete_all_conversations if other providers' are among them.
Protected(t) == IF effect.mixed THEN IsActive(app, t)
                ELSE t = app.pointer \/ app.thread = Ready(t)

\* ThreadDeletionFinished, and its Persist.
DeletionEnds(done, o) ==
  LET finished == ThreadDeletionFinished(app, done)
  IN /\ app' = IF effect.mixed THEN finished ELSE FailedIfFatal(o, finished)
     /\ Then(IF finished.registry # app.registry THEN "persist" ELSE "none")

\* One thread after the other; a connection that became unusable ends a deletion of
\* Codex threads alone.
DeleteThread(t) ==
  /\ effect.kind = "delete" /\ t \in effect.left
  /\ \E o \in IF Protected(t) THEN {Outcome("failed", FALSE)} ELSE OutcomesOn(t) :
       LET done == IF o.heard = "ok" THEN effect.done \cup {t} ELSE effect.done
           left == effect.left \ {t}
       IN /\ Counted(o.fault)
          /\ server' = IF o.done
                       THEN [server EXCEPT !.threads = @ \ {t},
                                           !.running = {r \in @ : r[1] # t}]
                       ELSE server
          /\ IF left = {} \/ (Fatal(o) /\ ~effect.mixed)
             THEN DeletionEnds(done, o)
             ELSE /\ effect' = [effect EXCEPT !.left = left, !.done = done]
                  /\ UNCHANGED app
  /\ Silently /\ CallKeeps /\ UNCHANGED next

\* Persist.  A failed one of an event ends the receiving of events.
Persist ==
  /\ effect.kind = "persist"
  /\ \E save \in Saves :
       /\ saved' = save[1]
       /\ unsaved' = (unsaved \/ ~save[2])
       /\ deaf' = (deaf \/ (effect.event /\ ~save[2]))
       /\ Counted(~save[2])
  /\ effect' = NoEffect
  /\ UNCHANGED <<app, wire, events, server, next>>

-----------------------------------------------------------------------------
(* Turns.                                                                  *)

SendMessage ==
  /\ CoordinatorFree /\ MaySend(app)
  /\ next.turn \in Turns /\ Work < MaxWork
  /\ app.thread.kind = "None" => next.thread \in Threads
  /\ Takes([app EXCEPT !.turn = TurnIs("Starting")],
           Effect(IF app.thread.kind = "None" THEN "startThread" ELSE "startTurn", None))

\* send_message without a thread: the thread is on disk before the turn is sent.
SendStartsThread ==
  /\ effect.kind = "startThread"
  /\ \E o \in Outcomes :
       /\ Counted(o.fault)
       /\ app' = IF o.heard = "ok" THEN ThreadStarted(app, next.thread)
                 ELSE MutatingError(o, app)
       /\ server' = IF o.done THEN WithThread(next.thread) ELSE server
       /\ Then(IF o.heard = "ok" THEN "persistThread" ELSE "none")
  /\ UsesThread
  /\ Silently /\ CallKeeps

SendPersists ==
  /\ effect.kind = "persistThread"
  /\ \E save \in Saves :
       /\ saved' = save[1]
       /\ unsaved' = (unsaved \/ ~save[2])
       /\ app' = IF save[2] THEN app ELSE TurnFailed(app)
       /\ Then(IF save[2] THEN "startTurn" ELSE "none")
       /\ Counted(~save[2])
  /\ UNCHANGED <<deaf, wire, events, server, next>>

SendStartsTurn ==
  /\ effect.kind = "startTurn"
  /\ \E o \in OutcomesOn(app.thread.id) :
       /\ Counted(o.fault)
       /\ app' = IF o.heard = "ok" THEN TurnStarted(app, app.thread.id, next.turn)
                 ELSE MutatingError(o, app)
       /\ server' = IF o.done
                    THEN [server EXCEPT !.running = @ \cup {<<app.thread.id, next.turn>>}]
                    ELSE server
  /\ next' = [next EXCEPT !.turn = @ + 1]
  /\ effect' = NoEffect
  /\ Silently /\ CallKeeps

Interrupt ==
  /\ CoordinatorFree /\ app.turn.kind = "Streaming"
  /\ Takes(app, Effect("interrupt", None))

\* turn/interrupt; what comes of it is the turn's end.
InterruptCalls ==
  /\ effect.kind = "interrupt"
  /\ \E o \in Outcomes :
       /\ Counted(o.fault)
       /\ app' = IF o.heard = "ok" THEN app ELSE MutatingError(o, app)
  /\ effect' = NoEffect
  /\ Silently /\ CallKeeps /\ UNCHANGED next /\ UNCHANGED server

-----------------------------------------------------------------------------
(* The app-server.                                                         *)

ServerKeeps == UNCHANGED <<app, saved, effect, deaf, next, unsaved>>
Serves == wire = "open" /\ effect.kind # "startup"

AccountChanges(account) ==
  /\ Serves /\ account # server.account
  /\ counts.changes < MaxChanges /\ Work < MaxWork
  /\ counts' = [counts EXCEPT !.changes = @ + 1]
  /\ Tell([server EXCEPT !.account = account], <<AccountUpdated>>)
  /\ ServerKeeps

\* Its id may be left out.
LoginEnds(l) ==
  /\ Serves /\ server.login # None /\ l \in {server.login, None}
  /\ \/ Tell([server EXCEPT !.login = None], <<LoginCompleted(l, FALSE)>>)
     \/ \E s \in Scopes :
          Tell([server EXCEPT !.login = None, !.account = s],
               <<LoginCompleted(l, TRUE), AccountUpdated>>)
  /\ ServerKeeps /\ UNCHANGED counts

\* An answer is complete, or an error that is not retried ends the turn for its client.
TurnSays(r) ==
  /\ Serves /\ r \in server.running
  /\ \E kind \in {"AgentCompleted", "TurnFinished"} :
       Tell(server, <<Note(kind, r[1], r[2])>>)
  /\ ServerKeeps /\ UNCHANGED counts

TurnEnds(r) ==
  /\ Serves /\ r \in server.running
  /\ Tell([server EXCEPT !.running = @ \ {r}], <<Note("TurnFinished", r[1], r[2])>>)
  /\ ServerKeeps /\ UNCHANGED counts

ChildExits ==
  /\ wire = "open" /\ MayFail
  /\ wire' = "closed" /\ server' = Stopped(server)
  /\ Counted(TRUE)
  /\ ServerKeeps /\ UNCHANGED events

\* A request of the app-server is denied and ends its child; the session is told if
\* there is room.
RequestDenied ==
  /\ Serves /\ MayFail
  /\ wire' = "denied" /\ server' = Stopped(server)
  /\ events' = IF Len(events) < QueueCapacity
               THEN Append(events, Note("SafetyViolation", None, None)) ELSE events
  /\ Counted(TRUE)
  /\ ServerKeeps

-----------------------------------------------------------------------------
(* The coordinator receives.                                               *)

Receives == CoordinatorFree /\ Heard

\* The event leads to another state, and to account/read if `asks`.
Reduces(a, asks) ==
  /\ app' = a
  /\ effect' = IF asks THEN [Effect("read", None) EXCEPT !.event = TRUE] ELSE NoEffect
  /\ events' = Tail(events)
  /\ StepKeeps /\ UNCHANGED <<wire, server>>

\* AccountLoginCompleted counts for the login that is waited for.
Correlated(e) == app.auth.kind = "SigningIn" /\ e.login \in {app.auth.login, None}

\* process_received_event and reduce_protocol_event
ReceiveEvent ==
  /\ Receives /\ events # <<>>
  /\ LET e == Head(events)
         streaming == app.turn = Streaming(e.thread, e.turn)
     IN CASE e.kind = "AccountUpdated" -> Reduces(app, TRUE)
          [] e.kind = "LoginCompleted" /\ Correlated(e) ->
               IF e.success THEN Reduces(app, TRUE) ELSE Reduces(LoginFailed(app), FALSE)
          [] e.kind = "SafetyViolation" -> Reduces(SafetyViolation(app), FALSE)
          [] e.kind = "TurnFinished" /\ streaming ->
               Reduces([app EXCEPT !.turn = TurnIs("Idle")], FALSE)
          \* reconcile_final: an answer that contradicts its deltas fails the turn.
          [] e.kind = "AgentCompleted" /\ streaming ->
               \/ Reduces(app, FALSE)
               \/ Reduces(TurnFailed(app), FALSE)
          [] OTHER -> Reduces(app, FALSE)

\* What does not parse ends the session, as does its end.
ReceiveEnd ==
  /\ Receives
  /\ \/ events # <<>> /\ "calls" \in Faults /\ MayFail /\ Counted(TRUE)
     \/ events = <<>> /\ wire \in {"closed", "denied"} /\ Counted(FALSE)
  /\ app' = ConnectionFailed(app)
  /\ Dropped
  /\ CallKeeps /\ UNCHANGED <<effect, next>>

-----------------------------------------------------------------------------
(* The end of a process and the next one.                                  *)

Initial(p) ==
  [provider |-> p.provider, connection |-> "Disconnected", auth |-> AuthIs("Unknown"),
   models |-> FALSE, thread |-> NoThread, turn |-> TurnIs("Idle"), picker |-> Closed,
   pointer |-> p.pointer, scope |-> p.scope, registry |-> Loaded(p).registry]

Restart(p, fault) ==
  /\ counts.restarts < MaxRestarts /\ Work < MaxWork
  /\ counts' = [counts EXCEPT !.restarts = @ + 1, !.faults = @ + fault]
  /\ saved' = p /\ app' = Initial(p)
  /\ effect' = Effect("startup", None) /\ deaf' = FALSE
  /\ wire' \in {"open", "gone"} /\ events' = <<>>
  /\ server' = Stopped(server)
  /\ UNCHANGED next

\* Quit saves the preferences once more; a save that fails stops nothing.
Quit ==
  /\ CoordinatorFree
  /\ \E save \in Saves : /\ Restart(save[1], IF save[2] THEN 0 ELSE 1)
                        /\ unsaved' = (unsaved \/ ~save[2])

Crash == Restart(saved, 0) /\ UNCHANGED unsaved

-----------------------------------------------------------------------------
Unregistered == [t \in Threads |-> NoScope]

\* A first start, and the preferences of a version that kept no registry, with a thread
\* of an account.
SavedBefore ==
  LET first == [provider |-> "Codex", pointer |-> None, scope |-> NoScope,
                registry |-> Unregistered]
  IN {first} \cup {[first EXCEPT !.pointer = 1, !.scope = s] : s \in Accounts}

Init ==
  /\ saved \in SavedBefore
  /\ app = Initial(saved)
  /\ effect = Effect("startup", None) /\ deaf = FALSE
  /\ wire \in {"open", "gone"} /\ events = <<>>
  /\ \E account \in ServerAccounts :
       server = [account |-> account, login |-> None, running |-> {},
                 threads |-> {saved.pointer} \ {None}]
  /\ next = [thread |-> IF saved.pointer = None THEN 1 ELSE 2, turn |-> 1, login |-> 1]
  /\ counts = [changes |-> 0, switches |-> 0, restarts |-> 0, faults |-> 0]
  /\ unsaved = FALSE

Intents ==
  \/ Login \/ Logout \/ NewThread \/ Resume \/ SendMessage \/ Interrupt
  \/ \E t \in Threads : PickerSelect(t) \/ RequestDelete(t)
  \/ \E mixed \in BOOLEAN : RequestClear(mixed)
  \/ \E provider \in Providers : SwitchProvider(provider)
  \/ PickerSelectOther \/ PickerClose \/ CancelDelete \/ ConfirmDelete

Effects ==
  \/ Startup \/ LoginStarts \/ CancelLogin \/ CancelReads \/ LogsOut \/ ReadAccount
  \/ NewThreadStarts \/ ResumeThread \/ ListThreads \/ SwitchThread
  \/ \E t \in Threads : DeleteThread(t)
  \/ SendStartsThread \/ SendPersists \/ SendStartsTurn \/ InterruptCalls \/ Persist

AppServer ==
  \/ \E account \in ServerAccounts : AccountChanges(account)
  \/ \E l \in Logins \cup {None} : LoginEnds(l)
  \/ \E r \in Threads \X Turns : TurnSays(r) \/ TurnEnds(r)
  \/ ChildExits \/ RequestDenied

Next == Intents \/ Effects \/ AppServer \/ ReceiveEvent \/ ReceiveEnd \/ Quit \/ Crash

Spec == Init /\ [][Next]_vars

-----------------------------------------------------------------------------
(* Properties.                                                             *)

\* Once an effect has ended nothing waits for it: no turn is starting, no thread is
\* being resumed and no picker is busy, so that no intent is refused for ever.
IdleIsSettled ==
  CoordinatorFree => /\ app.turn.kind # "Starting" /\ app.thread.kind # "Resuming"
                     /\ app.picker.phase \notin {"Loading", "Resuming", "Deleting"}

AccountShown == CASE app.auth.kind = "SignedIn"    -> app.auth.scope
                  [] app.auth.kind = "Unsupported" -> "unsupported"
                  [] OTHER                         -> "signedOut"

\* The account on the screen is the app-server's, or an account notification is still
\* to be received: no answer or notification that is dropped, late or about another
\* login leaves the two apart.
AuthAgrees ==
  CoordinatorFree /\ ~deaf /\ wire = "open" /\ app.connection = "Ready" =>
    \/ AccountShown = server.account
    \/ \E i \in 1..Len(events) : events[i].kind = "AccountUpdated"

\* The thread on the screen is one of the account that is signed in, whatever account
\* notifications came while it was resumed, replaced or deleted.
OwnThread ==
  app.thread.kind = "Ready" /\ app.auth.kind = "SignedIn" /\ app.auth.scope # NoScope =>
    app.registry[app.thread.id] = app.auth.scope

\* A turn that streams on the screen runs, or its end, or the connection's, is still to
\* be received: it never streams for ever.
StreamEnds ==
  app.turn.kind = "Streaming" /\ ~deaf =>
    \/ <<app.turn.thread, app.turn.turn>> \in server.running
    \/ \E i \in 1..Len(events) :
         events[i] = Note("TurnFinished", app.turn.thread, app.turn.turn)
    \/ wire \in {"closed", "denied"}

\* No deletion takes the thread on the screen nor, as long as saves succeed, the one
\* that this start or the next resumes.
ThreadIsKept ==
  /\ app.thread.kind = "Ready" => app.thread.id \in server.threads
  /\ ~unsaved => {app.pointer, saved.pointer} \subseteq server.threads \cup {None}

\* What the coordinator saves is what the next start will accept: the file names one
\* owner of the saved thread, whichever accounts came and went.
PreferencesAreValid == Valid(Preferences(app))

\* src/README.md:63: /resume "exposes only thread IDs already registered to the
\* signed-in account".
ResumesOwnThreads ==
  [][effect.kind = "switch" /\ app'.thread = Ready(effect.id) =>
       app.registry[effect.id] = app.auth.scope]_vars
=============================================================================
