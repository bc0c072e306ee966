# A verification of Vairë in TLA+

Vairë (`src/`, Rust) is a terminal chat client with three providers: Codex (a child
`codex app-server` over JSON-RPC), OpenRouter (HTTP with server-sent events) and Claude Code (a
child `claude` per turn). This directory holds TLA+ modules that model its core, TLC
configurations that check them on small instances, and proofs for TLAPS of what holds for every
instance.

Paths below are relative to `src/src/` unless they say otherwise. `PROJECT.json` names, for every
definition, the lines of the code it stands for.

## 1. The system

```
 keyboard ──intents──▶ scheduler ──▶ coordinator ──▶ reducer (AppState)
                          ▲              │  ▲  └──effects──┘
                          │              │  └── one event at a time
                          │              ▼
                          │   Claude service    OpenRouter service    Codex session
                          │     │ task per turn   │ chat + control      │ transport actor
                          └─────┤ child process   │ HTTP/SSE            │ app-server child
                                ▼                 ▼                     ▼
                           session files   conversations, key      (remote threads)
                                     preferences file
```

One task, the coordinator (`backend/`), owns the application state. The scheduler
(`runtime/scheduler.rs`) hands it one intent or one provider event at a time; the reducer (`app/`)
turns it into a new state and a list of effects; the coordinator executes the effects to their end
before it looks at the next input. What runs beside it are the tasks of the three providers and their
children, and they speak to it only through bounded queues. Everything hard is at that boundary.

### Components

| Component | State | Operations | What is hard | What makes it correct |
|---|---|---|---|---|
| Claude turn service `claude/service.rs` | the active turn task, event queue of 64, shutting down | create, load, delete session; prepare, launch, abandon, interrupt turn; drain; next event | the task, the coordinator and the child interleave; the queue fills; the process dies anywhere | a session is created once; doubt is reported; what is reported done is on disk; interrupts and drains end |
| Claude session store `claude/store.rs`, `storage.rs` | a file per session, an index | save (verified / visible only / failed), load with repair, delete | power losses between rename and directory sync | a read returns what was saved or what was there before |
| Claude child `claude/process.rs`, `protocol.rs`, `config.rs` | process group, parser state; the tree of `claude auth` | spawn, next line, interrupt, finish; cancel the auth command | lines in any order, exits at any time, pids used again | lines reach the service in protocol order only; everything it started is ended and nothing else |
| Reducer, Claude part `app/reducer/event/claude.rs`, `app/reducer/intent.rs`, ... | conversation, turn, transcript, picker, preferences | every intent and Claude event | events of turns the user has left | one conversation on the screen, nothing attached silently |
| Coordinator `backend/` | the services, the preferences port | effects, startup, shutdown, event processing | effects that half succeed, errors that abort a list of effects | the saved pointer follows the conversation |
| Scheduler `runtime/scheduler.rs` | which source is preferred, whether events are open | select shutdown / event / command | starvation, shutdown during work | every source gets its turn |
| Codex transport `codex/transport/` | pending requests, retired ids, unusable reason, event queue of 64 | request, notify, response, notification, server request, tick, shutdown | late answers, a full queue, requests of the server | each request answered once, by its own response; closed for good after a server request |
| Codex session and safety `codex/session/`, `codex/safety.rs` | none of its own | account, catalogue, threads, turns, pagination | pages that repeat | bounded and complete lists |
| Codex account, threads and turns `app/account*`, `app/thread_*`, `app/turn.rs`, `backend/thread_ops.rs`, ... | account, thread, picker, pending deletions | login, resume, delete, switch account | answers for an account that is no longer the current one | no result of one account is shown to another |
| OpenRouter service `openrouter/service*` | chat task, control task, two queues of 64, operation number | prepare, launch, interrupt, replace key, refresh, logout, shutdown | key replaced while a chat runs; queue full in an answer | one turn at a time, results in the store before they are announced |
| OpenRouter store `openrouter/store*` | conversations, index, catalogue | save, load, list, delete | as the Claude store | as the Claude store |
| OpenRouter client `openrouter/client*`, `sse.rs` | decoder state | chat, validate, catalogue | chunk boundaries | the same events whatever the chunks |
| Transcript, thinking, context `app/transcript.rs`, `thinking.rs`, `text.rs` | bounded entries | append, reconcile, trim | bounds at their edges | never over its bound, the final text wins |
| Preferences `persistence/` | one file, version 4 | load, migrate, save | unverified saves, old versions | what is saved loads back |
| Credentials `credentials*` | a secret file | load, replace, delete | a crash in the middle | old or new, never half |
| Platform `platform*` | the data directory | migration of the old name | a crash in the middle, two processes | the data is in exactly one place |
| Commands and terminal `command.rs`, `tui*`, `terminal.rs`, `main.rs` | editor, scroll | parse, draw, read keys | - | the intents they can produce |

`PROJECT.json` lists the same components with the modules that model them, and under `hazards`
what in this code a test would hardly reach, each at its line.

## 2. Plan

Written so far, in this order, because the Claude provider is the newest, the only one that creates
something on somebody else's disk (a CLI session), and the one where the user's money and data depend
on the order of a save, a spawn and an event:

1. `ClaudeService` (service + store + child), with its abstract specification `TurnStream`;
2. `ClaudeService_proofs`;
3. `ClaudeApp` (reducer + coordinator + scheduler), composed with `TurnStream` in place of the service;
4. `Transport` (the Codex transport actor), with `Transport_proofs`;
5. `OpenRouterApp` (reducer + coordinator + service + stores + key of the OpenRouter provider, in one
   module, because its chat and control tasks are only interesting against the reducer);
6. `CodexApp` (account, threads, picker, deletions and turns of the Codex provider, with the app-server
   behind the transport);
7. the parts that run by themselves, in one run under `MCParts`: `AuthTree` and `ProcessGroup` (the
   processes of `claude`), `Migration` (the data directory), `SafeFile` (the key and the preferences),
   `Listing` (the Codex threads over pages and directories), `ChatStream` (one answer of OpenRouter,
   from bytes to events) and `TurnItems` (the messages of Codex turns, from item events to the
   transcript);
8. `OpenRouterApp_proofs`, `ClaudeApp_proofs`, `CodexApp_proofs`, and of the parts
   `AuthTree_proofs`, `Parts_proofs` and `TurnItems_proofs` (all but `ChatStream`).

Every safety property that a run checks is proved but three, which are beyond the prover (end of
section 5).

To come:

9. the stores' indexes and their rebuild, the migration of old preferences.

A new module's questions join an existing run, or take the place of a shallower property, where they can
be asked of the same instance.

## 3. Modules

### `ClaudeService` – one Claude turn, its record and its child

State and code:

| Variable | Code |
|---|---|
| `disk`, `durable` | the session file as `read_session` sees it, and the contents a power loss may leave. A save renames a new file over the old one and then syncs the directory (`write_atomic`): *verified* leaves one surviving content, *unverified* adds one, *failed* changes nothing |
| `registered` | the session ids handed out; UUIDs are not reused, also after a deletion |
| `prepared` | the `PreparedClaudeTurn` between `prepare_turn` and `launch_prepared_turn` |
| `coord` | the service call the coordinator is inside of, for the calls that await: the inline turn and the drain |
| `task` | the spawned `run_turn` with its locals; `pc` is where it awaits |
| `events`, `shuttingDown` | the bounded channel, `shutting_down` |
| `creations`, `stream` | history: children given `--session-id`, and the open turn of the events sent |

Actions are the calls of the coordinator (`CreateSession`, `LoadSession` with its repair,
`DeleteSession`, `PrepareTurn`, `LaunchRefused`, `LaunchTask`, `InterruptTurn`, ...), the three steps
of a turn that is finished without a child (`InlineStart/Settle/Finish`), the drain of logout and
shutdown, the steps of the task from one await to the next, and the lines and exits of the child. A
crash ends the process and keeps the files; a power loss also picks one of the surviving contents of
each. `settle_record` reads (`SettleLoad`) and writes (`SettleSave`) in two steps, because the
coordinator may repair or delete the session in between.

Prompts, answers, usage and effort are left out: no decision of the service depends on them, except the
bound on the length of an answer, which is one of the ways a child may fail.

### `TurnStream` – what the service promises

The abstract queue: one turn open at a time, each opened once, its text after its `Initialized` and
before its `TurnFinished`, nothing dropped but by a drain or the end of the process. `ClaudeService`
implements it (`ImplementsTurnStream`, with the refinement mapping in the module), and `ClaudeApp` uses
it in place of the service.

### `ClaudeApp` – the conversation as the user meets it

State and code:

| Variable | Code |
|---|---|
| `app` | the Claude part of `AppState`: provider, alias, saved pointer, `ClaudeConversationState`, `TurnState`, the picker, the account and the operation under way. `shown` stands for the transcript: the turns whose text is in it |
| `saved` | the preferences file |
| `effect` | the effect the coordinator is executing; `"none"` means that it is back in the scheduler's select |
| `deaf` | `event_open` is false: an error of `process_received_event` closed the event source |
| `active`, `record`, `nextTurn`, `owner` | the service from outside: its task, each session's lifecycle, and which session has which turn |
| `queue`, `current`, `session`, `initialized`, `last` | `TurnStream` |
| `unresolved`, `attached` | history: sessions that reported uncertainty, and sessions the user started or resumed here |

There is one action per intent (`SendMessage`, `NewThread`, `SelectAlias`, `SwitchProvider`,
`Interrupt`, `Resume`, the picker's actions, `LoginClaude`, `LogoutClaude`, `RefreshClaude`), one per
step of an effect that others may interleave with (`SendCreates`, `SendLaunches`, `SendStartsInline`,
`StartNew`, `DrainReceives`, `Persist`, ...), `Receive` for a service event, and `Quit` and `Crash`.
An intent that is answered by a notice only is left out: it changes nothing that is modelled. The other
two providers are one, `Other`, whose turns are not modelled here.

`Faults` says what may go wrong around the reducer: saves of the preferences, registrations of new
sessions, saves of turn records, and a request of the Codex app-server. Every run names its own set.

### `Transport` – the connection to the Codex app-server

State and code:

| Variable | Code |
|---|---|
| `call` | each call of `request` or `notify`: idle, waiting, or ended with what its caller got |
| `commands`, `incoming`, `events` | the three bounded channels, of 32, 128 and `EVENT_QUEUE_CAPACITY` |
| `handle` | the `AppServerTransport`: held, shut down, or dropped by the coordinator |
| `loop` | the actor: at the top of its loop, in its select, reaping the child, or gone |
| `nextId`, `pending`, `retired`, `unusable` | `OutboundRequestIds`, the table of requests in flight, `RetiredRequestIds`, `unusable_reason` |
| `heard`, `notes` | the child: the ids it may still answer, and its notifications |
| `seen`, `told`, `owner`, `retirements`, `ended` | history, for the properties |

Every branch of the actor's `select!` is an action that ends at the top of the loop (`Continue`) or
leaves it (`Break`), as `continue` and `break 'connection` do: commands (`RefuseCommand`,
`SendRequest`, `SendNotice`), frames (`TakeResponse`, `IgnoreResponse`, `UnknownResponse`,
`Notification`, `ToolNotification`, `ServerRequest`, `BadFrame`, `EndOfFrames`), `Tick` and
`TakeShutdown`. A write may succeed, be refused because its frame is too large, or fail or time out.
Requests whose caller has left are retired one by one at the top of the loop (`RetireCancelled`) before
the select; the second pass of a request's branch is the guard `Abandoned = {}` on those that look at
the table. A deadline may come at any moment, for the caller (`Leave`) and for the tick. Not modelled: a
sender that waits for room in the command channel (the call is then not taken yet), spawning the
child, its stderr, and the abort of an actor that does not stop within its grace.

The child may write what it likes: answers to what it was asked in any order, notifications, requests
of its own (fault `request`), lines that are no messages and responses nobody asked for (fault
`protocol`), and the end of its output.

### `OpenRouterApp` – the OpenRouter provider, from the key to the screen

State and code:

| Variable | Code |
|---|---|
| `app` | the OpenRouter part of `AppState`: provider, account, catalogue, selected model, conversation and its state, `TurnState`, picker, the operation under way, the saved pointer |
| `pending` | `pending_openrouter_auto_resume`, which the coordinator keeps beside the state |
| `saved`, `file` | the preferences file; the conversation files, with the turns each records |
| `disk` | the credential file and the cached catalogue |
| `effect`, `deaf` | as in `ClaudeApp` |
| `chat`, `control` | the chat task and the control task of the service, each with what it is about to do |
| `chatQueue`, `controlQueue`, `nextOp` | the two bounded queues, the number of the next control operation |
| `next`, `restarts`, `reported`, `signedOut` | identifiers handed out, and history for the properties |

The steps of the tasks are those between two awaits: `ChatDelta`, `ChatSaves` and `ChatReports`;
`ControlReplacesKey`, `ControlSavesCatalog` and `ControlFinishes` with their ways to fail. The steps of
a send and of a logout are those of the coordinator: `SendPrepares`, `SendLaunches`, `SendAbandons`;
`LogoutDropsControl`, `LogoutEndsControl`, `LogoutReadsChat`, `LogoutEnds`. `ReceiveControl` includes
the automatic resume of the saved conversation, `ReceiveChat` the reducer's part of a turn's end, and
`Crash` may come between any two steps. What a send does depends on the conversation's state, and
`SendUnresolved` is what is left of it when that state does not allow one.

`Faults`: a save of the preferences, of a conversation, or of the key may fail, before or
after the file was replaced, and the key may be unreadable. A catalogue is whether it lists the one model there is; transcripts, usage,
notices, the window that asks for the key and the read-only mode of the preferences are left out, and
so is a failure of Codex while a turn of OpenRouter runs, which is what it is for Claude (section 6). The other
providers are one, `Other`. Which of two queues with events is served (`next_event` takes turns) is a
free choice.

### `CodexApp` – Codex accounts, threads and turns

State and code:

| Variable | Code |
|---|---|
| `app` | the Codex part of `AppState`: provider, connection, account, whether models are loaded, thread, turn, picker with the threads to be deleted, and the preferences (`pointer`, `scope`, `registry`: the saved thread, its account, and the account each thread is registered to) |
| `saved`, `effect`, `deaf` | the preferences file, the effect under way, `event_open`; as in `ClaudeApp` |
| `wire`, `events` | the transport: open, denied, closed, or dropped by the coordinator; its event queue |
| `server` | the app-server: its account, the login it waits for, its threads and the turns that run |
| `next`, `counts`, `unsaved` | identifiers handed out, the counters of the bounds, and whether a save has failed |

One action per intent (`Login`, `Logout`, `NewThread`, `Resume`, `PickerSelect`, `RequestDelete`,
`RequestClear`, `ConfirmDelete`, `SwitchProvider`, `SendMessage`, `Interrupt`, ...), and one per call an
effect awaits: what a call is answered (`Outcomes`) includes a failure and a timeout after the
app-server has carried it out or has not. An effect of several calls is several actions
(`SendStartsThread`, `SendPersists`, `SendStartsTurn`; `CancelLogin`, `CancelReads`; `DeleteThread` for
each thread), and between any two of them the app-server goes on: `AccountChanges`, `LoginEnds`,
`TurnSays`, `TurnEnds`, `ChildExits`, `RequestDenied`. `ReceiveEvent` is `process_received_event` with
`reduce_protocol_event`; `ReceiveEnd` is what a closed connection or an event that does not parse leads
to. `Quit` and `Crash` start the program again.

The account's identity is its `AccountScope`, or `NoScope` for an account without a usable email. A
turn's text is not modelled, except that an answer may contradict its deltas and then fails the turn
(`reconcile_final`). The other providers are one, `Other`; that the picker may show and delete their
conversations too is `mixed`. The model catalogue is taken not to be empty once it is loaded.

### `AuthTree` – cancelling `claude auth`

`run_claude_auth_action` of `claude/process.rs` and its cleanup, against a kernel that hands pids out
again. `proc` is the process table: each pid with its status, parent, start time, and whether it
descends from the command; `cleaner` is the cleanup with its lists (the comment above `Init` names
them); `continued`, `victims` and `faults` are history and bounds, where `victims` holds who was killed and
did not descend from the command, as the cleanup had identified it. The actions of the cleanup are its
system calls (`Inspect`, `SendStop`, `AwaitStop`, `ListChildren`, `CheckBeforeKill`, `Kill`,
`KillLeader`, `Reap`), so that descendants fork, exit, are reaped and continued, and strangers take
their pids, between any two of them. The deadline may pass at each place where the code asks. A pid is
not handed out again between `CheckBeforeKill` and `Kill`, two adjacent system calls; that the code
cannot exclude this either is listed in section 6. `KillsOnlyTheTree` allows for one more case that is
listed there: once job control has continued the stopped tree, a stranger may come to be where a pinned
parent was, and then a child of it is taken for a descendant.

### `ProcessGroup` – the end of a turn's child

`ClaudeChild`: `spawn`, the stream of lines, `interrupt` and `finish`, and `cleanup_child` with its
signals (`Signal`), the task that reads stderr (`JoinStderr`) and the leader's reaping (`Reap`).
`leader` and `members` are the group, `reused` says that its id is a stranger's, `child` is where the
calls are and what they will return. `CleanupMode` is `child.mode`.

### `Migration` – the data directory gets its new name

`migrate_support_root_with` of `platform/migration.rs`, which looks at both names, renames without
replacing, looks again and syncs. `root` is what is at each name, `disk` what a power loss leaves there,
`start` each starting process with what it has seen; each look at a name is a step (`Inspect`). Two
starts, the program under its old name, crashes and a power loss come between.

### `SafeFile` – replacing a file

The key (`credentials/file.rs`) and the preferences (`persistence/file.rs`): create a temporary file,
write, sync, rename, sync the directory; the key's store also deletes, and removes the temporary files
it finds when it opens. `perhaps` is what a power loss may leave of the file, `data` how much of each
contents is on disk, `instance` where each running copy of the program is. Every step may fail, and two
copies do not lock each other out. When the sync of the directory fails (`SyncDirectory`), the file is read
back (`ReadBack`): it holds the new contents (`CommittedUnverified`), or others, or cannot be read. The last two
are the same error to the caller; the model calls the one "unread", as it says nothing of the file.

### `Listing` – threads over pages and directories

`list_threads_for` with `pagination.rs`: `Request` asks for a page, which may hold anything; `Retain` takes one
entry; `PageEnds` checks the cursor and goes on to the historical directory. `pages`, `items` and
`bytes` are the limits that both directories share.

### `ChatStream` – one answer of OpenRouter

`OpenRouterClient::chat` with `SseDecoder` and `ChatAccumulator` of `openrouter/sse.rs`. `stage` is what
the call awaits, `server` the bytes on their way, `decoder` and `chat` the fields of the two structures,
`delivered` what the callback was given. A byte of the model stands for a run that is read alike:
`"data"`, the two halves `"x"` and `"y"` of a payload, a comment, the parts of a line end, and a byte
that is no UTF-8. `Push` takes one byte and `ChunkEnds` ends a chunk, so that chunks are cut everywhere
and hold several events; `Eof`, `Waits` and `Timeout` are the other ends of the wait. A payload is
written on one data line or two, with either line end, after comments (`Encodings`), and may be text, a
finish, a usage that is valid or not, an error, another id, `[DONE]` or no JSON. If `push` fails, the
events of its chunk are lost (`Push`); if `consume` fails, those before it have been delivered
(`Consumes`). `heard` is history: what of the answer has been read, up to `[DONE]`.

### `TurnItems` – from item events to the transcript

`app/transcript.rs` with `CompletedItemTracker` and the item events of `reduce_protocol_event`. A text
is a sequence of narrow and wide characters and line feeds, `Bytes` and `Columns` what each takes.
`Bounded` is `enforce_transcript_bound`, `dropped` is `transcript_dropped_prefix_bytes` with the prefix
itself for its length and hash, `Delta` is an `AgentMessageDelta`, `Completed` an `ItemCompleted` with
`reconcile_final`. The app-server may send events of any message in any order. `taken` is history: the
text that was accepted of a message, the deltas and then the final text; `lost` holds the messages whose
whole entry was dropped while they streamed, `verdict` the last judgement. A resumed thread has one entry
a message, of one turn (`IsHistory`).

### `MCParts`

These seven parts share no state, so one run checks them all: its first state picks one of them, whose
variables then move while those of the others stay 0.

## 4. Runs

All runs end on two workers in about two minutes or less.

| Run | Asks | Instance |
|---|---|---|
| `claude_service` | single creation, reported doubt, recorded and durable turns, established for good, refinement of `TurnStream`, interrupts and drains end | one session, two turns, queue of 2, one delta |
| `claude_app_safety` | one conversation, one turn at a time, shown doubt, nothing attached silently | two sessions, two turns, one alias; preferences and registrations may fail |
| `claude_app_faults` | an active turn has an end, the pointer follows | two sessions, two turns, two aliases; turn records may fail, Codex may ask |
| `claude_app_live` | messages settle, interrupts show | one session, three turns, two aliases; registrations may fail |
| `codex_transport_safety` | own response, nobody forgotten, no gaps, told and closed after a denial | three requests and a notice, two ids, channels of 1, two in flight, one retired id |
| `codex_transport_live` | late responses are tolerated; every call ends | two requests, one retired id, a child that keeps to the protocol but may ask |
| `openrouter_app_safety` | completed turns are kept, signed out stays out, sent turns are recorded, nothing is attached to the wrong conversation, no turn, validation or logout is stuck | two conversations, two turns, two operations, one restart, `MaxWork` 7, queues of 1, all faults |
| `codex_app_safety` | nothing waits for ever, the account and the thread on the screen are the right ones, a stream ends, the thread in use is not deleted, what is saved loads | two accounts, two threads, a turn, a login, an account change, a switch, a restart and a fault, `MaxWork` 6, queue of 2 |
| `parts_safety` | the seven parts: no process is left or wrongly killed (`ProcessesAreEnded`), no file is torn or lost (`FilesAreSafe`), a listing is exact, an answer is delivered whole or not as finished (`AnswerIsExact`), the transcript keeps its bounds and what was completed (`TranscriptIsKept`) | four pids and two generations of descendants; two members of a group; two starts and three roots; two instances and two contents; four threads over five pages; two faults and one power loss; three events of eleven kinds in a frame of 7; two messages of up to three characters in a resumed and a new turn |
| `claude_alias_during_turn` | finding 1 | `OneConversation` with two aliases |
| `openrouter_unresolved_send` | finding 2 | `SendIsSettled`, with no fault at all |
| `codex_stale_picker` | finding 3 | `ResumesOwnThreads`, with no fault at all |

### The bounds, and why they are enough

* *Sessions.* A turn works on one session, and the store has a file for each. In the service, a
  second session would only add interleavings of calls about it; in the reducer two are needed, because
  what can go wrong is one taken for the other.
* *Turns.* A session's life has a first turn, which may create it, and one that finds what the first
  left, or what a recovery made of it: two in the service. In the reducer two, an old one whose
  events are late and a new one.
* *Queues.* `claude_service` and `ClaudeApp` have two places, because an inline turn queues two events
  before the coordinator receives again: with less room it would wait for ever, which is why the second
  half of `OneTurnAtATime` matters. Three events of an ordinary turn still fill it, so that every send
  of a task can wait.
* *Deltas.* One is what the stream needs to be out of order.
* *Transport.* Two ids run out with three requests; `MaxPending` 2 is reached by two; one retired id is
  forgotten when a second one is retired; two notifications are what a gap needs.

* *OpenRouter.* Two conversations, two turns and two operations, because what goes wrong is the late
  answer of one taken for the other. All of them at once are too many, so that `MaxWork` bounds them
  together (`Work`, in the guards of the actions that create one; a restart counts twice and hands out
  operation numbers anew, as the code does). Seven leaves room for both of each and a restart, and for
  every action.
* *Codex.* Two accounts and two threads, one of each being the one that is no longer current. A turn,
  a login, an account notification, a switch of provider, a restart (which counts twice) and two new
  threads are eight; `MaxWork` 6 leaves out any two of them at a time. One call, save or connection
  may fail besides. A queue of two holds what one login can say.
* *Parts.* In `AuthTree` four processes are ever started: the command, a child, a grandchild, and a
  stranger or a second child, which is one more than the limit of one; a pid comes back with the fourth.
  The case that `KillsOnlyTheTree` allows takes a fifth start and a limit of two: larger runs than the
  project's (7.5 million states) reach it, and the theorem has no bounds.
  In `Listing` two cursors allow six pages over both directories, one more than `MaxPages`; four threads
  are one more than `MaxListed`; and `MaxRetained` holds the sight of three threads and the showing of two, so
  that each of the three limits is the first to be reached in some behaviour.
  Two calls fail and the power fails once in a behaviour: two, because the failed sync of `SafeFile` is
  followed by a read that may fail as well, and so are a failed rename of `Migration` and a failed signal of
  `ProcessGroup` by further calls. The theorems have no such bound.

* *Chat stream.* The longest encoding but the last fits a frame of 7 by itself, and two comments before it
  do with their line ends counted only once; the last is one byte longer. Three events are a text, its
  finish and a usage or `[DONE]`; with three texts the bound of two is passed.
* *Turn items.* Five bytes and four columns, so that each of the three bounds is the first to be passed by
  some text; two entries, which the user's message and two others exceed; one tracked item, so that the
  second message saturates the tracker. A final text is what was streamed and at most two characters
  more, or differs in its first character.

`codex_transport_safety` uses a symmetry set (requests are interchangeable: nothing compares them) and
a view that forgets with which error a call failed, why the loop ended, and how many ids were retired:
no guard and none of this run's properties reads them. `claude_app_faults` uses a view without
the transcript and the two histories, which its properties do not mention either. No view or symmetry
is used where a liveness property is checked.

`codex_app_safety` uses the symmetry of the accounts: they are compared, never ordered.

`CHECK_DEADLOCK FALSE` is said of `Transport`, where a connection that was shut down stays so, of
`MCParts`, whose parts end or are bounded, and of nothing else: the others have restarts or intents that are always
possible.

### Faults that some runs leave out

`claude_app_safety` leaves out the faults that break its properties for a reason reported below
(`codex`), and `records`: with it, interrupting a turn that was never launched finds no task, fails the
turn at once, and the `TurnFinished` that reports the uncertainty is then ignored (hazard at
`backend/effects/claude.rs:414`). A second alias is left to the other runs for finding 1.
`claude_app_live` leaves out `preferences`, because a failed save closes the event source. `StreamEnds`
and `AuthAgrees` of `CodexApp` say so themselves (`~deaf`). A thread can be resumed for the wrong
account only as finding 3 describes; `OwnThread`, which holds there too, says that screen and registry
agree.

### Fairness

* *Service:* weak fairness of the task's own steps, of the inline turn, of the drain, and of the
  coordinator's next receive. tokio polls a task that is ready; the coordinator comes back to its loop
  because every effect ends. Nothing is assumed of the child: it may stay silent for ever.
* *App:* weak fairness of the effects and of a launched task's first event. Strong fairness of
  `Receive`: intents can keep the coordinator busy, and the scheduler prefers an event after each
  command (`prefer_event`). Strong fairness of a cancelled task's end: what it waits for, room in the
  queue, comes and goes, and a tokio channel serves its senders in order.
* *Transport:* weak fairness of retiring, of going back to the select and of reaping, all of them the
  actor's own steps. Strong fairness of taking a command and of the tick: tokio's `select!` starts at a
  random branch, so that a branch that is ready again and again is taken. The tick finds a request
  whose deadline comes. Nothing is assumed of the child, of the session or of a caller's own timeout.
* *OpenRouter:* none. That things end is stated as invariants: an active turn or a validation has
  somebody who will end it (`EndsAreInSight`: a task, an event in a queue, or an effect under way), and
  a logout can always take its next step (`LogoutIsNotStuck`). HTTP may be silent for ever.
* *Codex, the parts and the streams:* none. Every effect of `CodexApp` is a bounded number of calls, each with a
  deadline; that nothing waits once they have ended is the invariant `IdleIsSettled`, and that a
  stream has its end coming is `StreamEnds`. The app-server may be silent for ever.

## 5. Proofs

TLAPS checks these for every value of the constants that meets the assumptions
(`SessionsAssumption`, `BoundsAssumption`, `TransportAssumption`, `AppAssumption` and the like: the absent
session and call are none of the others, capacities are positive, bounds are natural numbers;
`CodexAssumption`: there is a thread for the saved pointer to name; `PartsAssumption`: the command's pid is
one of finitely many). A theorem
that needs more says so in its statement. Every invariant below was checked by TLC on the instances of
section 4 before it was proved.

`ClaudeService_proofs`:

* `TypeSafety`: `TypeOK`, which is inductive. One lemma per group of actions; those of the task share
  `TaskKeeps`.
* `CreationClaimed` and `NoSecondCreation`: `CreatedAtMostOnce` is not inductive, since it says
  nothing of who may still create the session. `CreationInv` adds that (1) a created session has no
  `Fresh` copy left, in any content a power loss may leave; (2) a prepared turn that is to create its
  session found it uncreated, removed its `Fresh` copies with a verified save, and is alone; (3) so does
  a task, until it spawns the child, and after that it settles the session as attempted; (4) the copy
  that `settle_record` is about to write back is never `Fresh`. Nothing in it is about the number of
  turns or sessions.
* `TurnsStay` (`TurnsAreKept`), `DoubtIsReported` (`UncertaintyIsReported`) and `EstablishedStays`
  (`EstablishedForGood`) follow from one invariant, `HistoryInv`, proved in `HistoryKept`. The hazard is
  that `settle_record` and `Initialized` write back a copy of the record they read some steps earlier, and
  that a power loss may bring back any copy that was not synced away. So `RecordInv` says of the *copy in
  hand* that writing it would keep every announced turn, and of the report in hand that it is true
  already; `StoreInv` and `PreparedInv` say the same of all surviving copies; `OrderInv` numbers the turns,
  so that a report of a turn and the turn under way are never the same one; and `LocalsInv` says how far
  `run_turn` came from its own variables. `EstablishedForGood` is an action property: `Confirmed` is kept
  by each step that `HistoryInv` allows.
* `StreamImplemented` (`ImplementsTurnStream`): the initial states map to initial states, and under the
  type invariant and `HistoryInv` each action maps to one action of `TurnStream` or to a stutter. The
  invariant is needed for the numbering: the turn a task opens is later than the last one opened, and no
  other is open.

`Transport_proofs`:

* `TypeSafety`: the types with the bounds of the tables and channels. The bound on `pending` needs
  `IsFiniteSet(pending)` beside it (`TypeInv`), and lemmas on cardinality.
* `ResponsesFindTheirCallers`: `OwnResponse` follows from `OwnInv`, which says that every request in
  flight and every result carries an id below `nextId` that was allocated for that call. An id is
  allocated only from `nextId`, so no step changes the owner of one in use.
* `NobodyIsForgotten`: `NobodyForgotten` is inductive with the types. Whoever is removed from the queue
  or the table is answered in the same step, or moves from one to the other, or the loop ends and
  `Reap` closes every channel.
* `DenialsAreTold`: `DenialIsTold` is inductive: the step that makes the connection unusable puts the
  event into its place or leaves the loop.
* `DenialIsForGood`: `FailsClosed` holds of every step that meets `WaitsUnanswered` (who still waits has
  no answer) and the types, since of all steps only `SendRequest` allocates an id and only a response
  gives a result, and both ask that the connection be usable.
* `NotificationsHaveNoGaps`: `NoGaps` is inductive as it is stated. It says that the events queued for the
  session are numbered on from the last one read, and those still in the reader's channel on from there to
  the last one written. Four lemmas say what appending to and taking from such a queue does
  (`NumberedNext`, `NumberedOther`, `NumberedHead`, `NumberedTail`).
* `LateResponsesAreTolerated`: `LateInv` adds that an id is asked for once and answered once by a child
  that keeps to the protocol (`AnsweredOnce`), and that as long as nothing was forgotten every id the
  child may still answer, or has answered on the channel, is pending or retired (`StillKnown`).

`Parts_proofs` and `AuthTree_proofs`, for any number of processes, starts, instances, contents, pages,
failures and power losses:
`StoredFilesAreSafe` (`FilesAreSafe`), `ListingsAreExact` (`ListingIsExact`) and `CancelledIsEnded`
(`ProcessesAreEnded`). Each is a statement about the part that runs, and rests on an invariant of that part:

* `MigrationInv` (`NoRootIsLost`, `AllUseOneRoot`, `MoveIsForGood`): a root at the current name stays there,
  because whoever renames finds the name free, until a power loss, which ends every start too. So what a
  start has seen there is still there.
* `FileInv` (`FileIsNeverTorn`, `VerifiedIsKept`, `FailedIsNotThere`): the contents an instance has in hand
  are nobody else's, until they are renamed no power loss can make them the file, and those about to be
  renamed were synced. That an instance removes the temporary files of another only makes a rename fail.
  `FailedIsNotThere` has one exception, which the code makes: an error after both the sync of the directory and
  the read that follows it have failed comes with the change in place.
* `GroupInv` (`OnlyItsGroupIsSignalled`, `NothingOutlivesTheTurn`): the leader is reaped last of all, so that
  the id of the group is its own as long as anything signals it; and after the last signal the group is
  dead or the failure to signal it has been noted.
* `ListingInv` (`ListingSafety`): as long as nothing was refused, what is to be shown is what was given,
  each once, and each id is known under the directory it came with.
* `TreeInv` (`TreeSafety` of `AuthTree_proofs`). Of the kernel: a parent is alive and of the tree if its child is
  (`ParentsAlive`), a start time that is seen is past (`StartsArePast`), the command keeps its pid
  (`LeaderKeepsPid`). Of the lists: each pid is pinned once, after its parent (`PinnedInOrder`); what is
  pinned is of the tree (`PinnedOfTheTree`) and, without job control, stays stopped (`PinnedIsStopped`). If
  nothing failed: the children of what is no longer in a list are pinned (`ChildrenArePinned`), the kills go
  from the leaves to the root (`LeafFirst`), and whatever of the tree is stopped or was orphaned is in a
  list (`NothingIsLeftStopped`). Looking for this strengthening showed that the property had been wrong as
  it was first stated: see the case of job control in section 6.

`TurnItems_proofs`, for any messages, texts and bounds: `CompletedStaysFinal` (`CompletedIsFinal`). The
invariant says that while a turn streams the tracker is about it, and that it knows each of its final
messages or is saturated.

`CodexApp_proofs`, for any accounts, threads, bounds and queue, and all faults. `Invariance` proves `Inv`,
and from it `IdleScreenIsSettled` (`IdleIsSettled`), `AccountShownIsRight` (`AuthAgrees`), `ShownThreadIsOwn`
(`OwnThread`), `StreamsEnd` (`StreamEnds`), `ShownThreadIsKept` (`ThreadIsKept`) and
`SavedPreferencesAreValid` (`PreferencesAreValid`). What each needs:

* *The screen* (`Screen`). The thread shown is the one the pointer names, and the registry gives it to the
  account of the pointer, which is the one signed in while the thread is `Ready`. A streaming turn is of the
  pointer's thread.
* *The effect* (`EffectInv`), both ways: whatever the screen waits for is the effect at hand (`Waits`), and
  the effect finds the screen as its intent left it (`Finds`), although events are not received meanwhile and
  the app-server goes on. A call may therefore write its result without another look.
* *The account* (`AuthInv`). The account shown is the app-server's, or an `AccountUpdated` is queued, or the
  account is being read: each of the steps that change one side leaves one of the other two.
* *The preferences* (`SavedInv`). What is not saved yet is what the effect is about to save, unless a save
  has failed.

`OpenRouterApp_proofs`, for any constants and all faults. `Invariance` proves `Inv`, and five theorems
follow from it: `CompletedTurnsAreKept` (`DoneIsKept`), `LogoutIsFinal` (`SignedOutStaysOut`),
`ShownConversationIsKept` (`ConversationIsKept`), `NoTurnIsOrphaned` (`NoOrphanTurn`) and
`SendIsRecordedFirst` (`SentIsRecorded`). What each needs:

* *Ids* (`IdsAreFresh`). Conversations and turns are handed out once, and no event in the queue ends the
  turn under way. Without it an old `TurnFinished` could end a new turn, and a new conversation could take
  the file of an old one.
* *The task's copy* (`CopyIsWhole`). The task writes a whole conversation back that it was given when the
  turn was prepared: the copy holds every turn completed before, and what the task is about to announce as
  completed is in the file.
* *The screen* (`ScreenInv`). The conversation on it is the one the pointer names; an active turn belongs
  to that conversation and keeps the picker closed; an automatic resume that is still pending while a turn
  streams finds a conversation on the screen, and so leaves it alone.
* *The credential* (`OpsAreFresh`, `NothingSignsIn`). Operations are numbered once; after a logout what
  still runs is a refresh that finds no key, and whatever is queued of the operation on the screen is a
  failure.

A sixth, `EndsComeInSight` (`EndsAreInSight`, one half of `NothingIsStuck`), has an invariant of its own,
`EndInv`: an active turn has its task or its `TurnFinished` in the queue, and a validation has its task, the
event that ends it, or the logout. That alone is not inductive, since the reducer ignores the result of a
login it does not wait for: `TaskIsAwaited` says that the control task is of the kind the reducer waits for,
so that its last event counts, and `OpsAreFresh` that no earlier operation's event is taken for it.

`ClaudeApp_proofs`, for any sessions, aliases, turns and queue capacity, through quits and crashes:

* Under all faults. `ScreenAndServiceAgree` proves `SafeInv`, from which `PointerIsFollowed`
  (`PointerFollows`) and `ActiveTurnsEnd` (`TurnHasAnEnd`) follow. It has the types; what an active turn
  excludes on the screen (`ScreenInv`: another provider, an open picker, a login); that whatever runs, is
  queued or streams was handed out, to one session (`StreamInv`); and that a turn that begins in the queue
  is still open or ends there (`QueueInv`), which is what `TurnHasAnEnd` needs when a `TurnStarted` is
  received.
* With nothing that fails the reducer's turn while its task still runs, or gives a turn no task
  (`Quiet`: no `codex`, no `records` among the faults; see *Faults that some runs leave out*).
  `TurnsAreInStep` proves `StageInv`: the queue holds events of one turn, its `TurnStarted` only first and
  only while the reducer waits for it, its `TurnFinished` only last and only when the task is done; an idle
  reducer has an empty queue and no task. `TurnsDoNotOverlap` (`OneTurnAtATime`) follows at once. Three more
  invariants rest on it:
  * `DoubtIsDisplayed` (`DoubtIsShown`): no turn is under way in a session that reported uncertainty, and
    the ends that are queued for one carry it (`DoubtInv`);
  * `SessionsAreChosen` (`NeverAttachedSilently`): the session of a turn that is starting was attached
    by the user (`AttachedInv`), since its `TurnStarted` makes that session the conversation;
  * `ShownSessionIsKept` (`ConversationIsKept`): the session of a turn under way is not deleted either
    (`KeptInv`), because the picker protects the pointer, and the pointer follows the screen.
* `OneConversationIsShown` (`OneConversation`): with any number of models, of every behaviour in which the
  model is not changed while a turn is active (`AliasIsHeld`). That is what finding 1 does, and so the
  finding is the only way to break the property. `ShownInv` adds that the turn under way belongs to the
  conversation on the screen. `OneModelOneConversation` is the instance of the run, which has one model.

`Quiet` is what the code needs: with `records` an interrupted turn that was never launched is failed before
its uncertainty arrives (hazard at `backend/effects/claude.rs:414`), and with `codex` a denied request of
the app-server fails a Claude turn whose task goes on (section 6).

Only model-checked:

* all liveness and every property with fairness (`WaitsEnd`, `TurnsSettle`, `CallsEnd`): TLAPS has neither
  fairness nor `ENABLED`;
* `LogoutIsNotStuck`, the other half of `NothingIsStuck`, for its `ENABLED`;
* `AnswerIsExact`: the decoder reads a line with `SelectSeq` and a chunk's events are taken one after the
  other in one step, so that a proof goes by induction over these sequences;
* `TranscriptIsKept`, except `CompletedIsFinal`: its texts are put together and measured by recursion.

## 6. Findings

1. `claude_alias_during_turn`. Choosing another Claude alias while a turn streams blanks the
   conversation but leaves the turn running, so that its remaining text and its uncertainty appear in
   the new one (`app/reducer/intent.rs:218`; `src/README.md:157` says that it starts a blank
   conversation). Switching provider is refused while a turn is active.
2. `openrouter_unresolved_send`. When the saved conversation could not be restored, a send starts a turn
   that nothing ends (`backend/effects/openrouter.rs:13` returns after a notice): it stays `Starting`, and
   `/resume` and `/new`, which the notice recommends, are then refused, as are sending, switching and a
   new key. Interrupt finds no turn, so that only a restart ends it.
3. `codex_stale_picker`. While another provider's conversation is on the screen and the picker lists Codex
   threads, a change of the Codex account is taken without closing the picker
   (`app/account.rs:72` returns early). Selecting one of its threads only asks that an account is there
   (`app/thread_picker.rs:177`), so that a thread of the old account is resumed under the new one and
   registered to it; `src/README.md:63` says that `/resume` shows only threads registered to the
   account that is signed in.

Observations for which there is no run:

* a new session whose registration could not be verified is kept as uncertain and its pointer saved:
  the next start shows it as blocked, whether it is there or not;
* `RefreshClaude` while a turn is starting blocks the saved session, and the turn's own `TurnStarted`
  makes it ready again;
* a notification or request whose deadline passes while it is queued behind a slow write ends the
  connection, because a write that is out of time is treated as a failed one (`write_frame_before`);
* an automatic resume whose operation is cancelled or superseded is dropped unsettled: no conversation is
  attached, the saved pointer stays, and the next send replaces it;
* `replace_with_commit` may report an error after the new key has been renamed into place, while the
  notice says that the existing credential was preserved;
* when a write fails or the event queue overflows the actor ends without a `ConnectionClosed`; the
  session learns of it from the closed channel.

Further observations on Claude: a `SafetyViolation` of the Codex connection fails a Claude turn as well
(`app/turn.rs:149`), whose task goes on unseen, and a save of the preferences that fails while an event
is processed closes the scheduler's event source (`runtime/scheduler.rs:184`), so that a turn can be
interrupted but stays on the screen. `src/docs/plans/claude-code-provider-2026-07-24.md` says that events of
another provider cannot touch the active turn (`:170`) and that an interrupt marks it interrupted (`:126`).

On Codex:

* an `AccountUpdated` that finds the account without a usable email turns a `Ready` thread into
  `AccountMismatch`, although nothing was switched (the comment at `app/account.rs:111`);
* signing in as another account and back leaves `AccountMismatch`, although the notice at
  `app/guards.rs:158` offers "the matching account" as a way out, until `/resume` or a restart;
* an `AccountUpdated` that was sent by a logout and arrives after the next sign-in has begun drops the
  pending `SigningIn`;
* a resume that times out leaves the connection `Ready`, unlike every other call;
* a thread created while the account changes is registered to the account the screen still shows;
* if the app-server streamed several messages at once, one of them could be dropped whole and begun anew by
  its next delta; its final text, which agrees with all that was streamed, would then fail the turn
  (`reconcile_final`; `lost` in `TurnItems`);
* an empty model catalogue at startup leaves a saved thread `Resuming`.

On the parts:

* `AuthTree`: a descendant is recognised by the pid of its parent (`claude/process.rs:316`), which is sound
  as long as the tree stays stopped; the comment at `:338` says that the pid "cannot normally be reused
  here". If job control continues the tree during the cleanup, a pinned parent may exit, a stranger get
  its pid, and a child of the stranger be pinned and killed.
* `AuthTree`: a `SIGSTOP` still under way at the deadline, or an inspection that fails before a kill,
  leaves a descendant stopped; the cleanup then reports a failure. A pid that is used again between two
  adjacent system calls is signalled. What a parent leaves behind by its own exit is out of reach.
* `SafeFile`: deleting a key that is not there returns `Verified` without a sync, though an earlier
  unverified delete may still be undone by a power loss. If the read that follows a failed sync fails too,
  which may have the same cause, an error is reported for a file that was replaced or deleted
  (`credentials/file.rs:254`, `:285`, `persistence/file.rs:213`; "unread" in `SafeFile`). Opening the key's
  store fails if another instance renames its temporary file during the cleanup.
* `Migration`: a start that finds the new name goes on without a sync of its own, and two looks that
  straddle another start's rename can refuse with a collision that was not there.

On OpenRouter's answers (`ChatStream`): what follows `[DONE]` in the same chunk fails the answer, and in a
later chunk is never read; an event that is too long, or no UTF-8, also loses the complete events that
came in its chunk.

## 7. Not modelled, and why

Listed per component in `PROJECT.json`. In short: drawing, key handling, wording and diagnostics have no
state others depend on; HTTP, TLS, the kernel and the operating system's files are the environment,
modelled by what they may do. The parsers (the child's lines, JSON-RPC), the text of the reasoning, the
catalogue's pages (`list_models`, the same loop as `Listing` with one directory), the stores' indexes
and limits, and the migration of old preferences are pure or sequential code that its own tests
reach; the plan has them next. In `ProcessGroup`, pids that do not fit and are not positive are left out:
the standard library returns none. `/reconnect` and the list of enabled models are left out of the
reducers.
