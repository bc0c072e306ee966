----------------------------- MODULE Transport -----------------------------
(***************************************************************************)
(* The JSON-RPC connection to the Codex app-server                         *)
(* (src/src/codex/transport): the client half that the session calls, the  *)
(* actor that owns the child's stdin and matches responses to requests     *)
(* (run_connection), the reader task, and the child.                       *)
(*                                                                         *)
(* A deadline may come at any moment: it is seen by the caller, whose      *)
(* reply channel then closes, and by the actor's tick, in either order.    *)
(* The contents of frames are left out.                                    *)
(***************************************************************************)
EXTENDS Naturals, Sequences, FiniteSets

CONSTANTS
  Calls,            \* calls of request and notify: bounds the behaviours
  Notices,          \* those of notify, which have no response
  NoCall,           \* the absence of one
  LastId,           \* u64::MAX
  CommandCapacity,  \* 32
  ReaderCapacity,   \* 128
  EventCapacity,    \* EVENT_QUEUE_CAPACITY
  MaxPending,       \* MAX_PENDING_REQUESTS
  RetiredCapacity,  \* RETIRED_REQUEST_CAPACITY
  MaxNotes,         \* notifications the child sends: bounds the behaviours
  ChildFaults       \* what the child does that it should not

\* protocol: malformed lines, and responses to ids it was not asked or has answered.
\* request: requests of its own.
ASSUME TransportAssumption ==
  /\ Notices \subseteq Calls
  /\ NoCall \notin Calls
  /\ LastId \in Nat /\ MaxNotes \in Nat
  /\ CommandCapacity \in Nat \ {0} /\ ReaderCapacity \in Nat \ {0}
  /\ EventCapacity \in Nat \ {0} /\ MaxPending \in Nat \ {0}
  /\ RetiredCapacity \in Nat \ {0}
  /\ ChildFaults \subseteq {"protocol", "request"}

Ids == 1..LastId
NoId == 0

VARIABLES
  call,         \* each call: where it is, and how it ended
  commands,     \* the command channel
  handle,       \* the AppServerTransport: held, shut down or dropped
  loop,         \* where the actor is in its loop
  nextId,       \* OutboundRequestIds; LastId + 1 is its None
  pending,      \* requests written and not answered
  retired,      \* RetiredRequestIds
  unusable,     \* unusable_reason is Some
  incoming,     \* frames the reader has read and the actor has not
  events,       \* the event channel
  heard,        \* the child: ids it was asked and has not answered
  notes,        \* the child: notifications it has sent
  seen,         \* notifications the session has received
  told,         \* history: a SafetyViolation was queued
  owner,        \* history: the call each id was allocated for
  retirements,  \* history: ids retired
  ended         \* history: why the actor left its loop

actorVars == <<nextId, pending, retired, unusable, told, owner, retirements>>
childVars == <<heard, notes>>
vars == <<call, commands, handle, loop, incoming, events, seen, ended,
          actorVars, childVars>>

Idle == [at |-> "idle", answer |-> "none", id |-> NoId]
Waiting == [at |-> "waiting", answer |-> "none", id |-> NoId]
Ended(answer, id) == [at |-> "ended", answer |-> answer, id |-> id]

\* What a caller may get: a response, an error of the transport, or nothing any
\* more because it has left (its own timeout, or its future was dropped).
Answers == {"result", "timeout", "protocol", "io", "violation", "closed", "left"}

\* oneshot sends: they reach the callers still there.
Answered(cs, answer, id) ==
  [c \in Calls |-> IF c \in cs /\ call[c].at = "waiting" THEN Ended(answer, id)
                   ELSE call[c]]

Reply(c, answer) == call' = Answered({c}, answer, NoId)

CallsOf(p) == {r.call : r \in p}
IdsOf(p) == {r.id : r \in p}

Init ==
  /\ call = [c \in Calls |-> Idle]
  /\ commands = <<>> /\ handle = "held" /\ loop = "top"
  /\ nextId = 1 /\ pending = {}
  /\ retired = [ids |-> {}, order |-> <<>>]
  /\ unusable = FALSE
  /\ incoming = <<>> /\ events = <<>>
  /\ heard = {} /\ notes = 0 /\ seen = 0
  /\ told = FALSE /\ owner = [i \in Ids |-> NoCall] /\ retirements = 0
  /\ ended = "no"

-----------------------------------------------------------------------------
(* The client.  request and notify borrow the transport, next_event and     *)
(* shutdown borrow it alone.                                                *)

NobodyCalls == \A c \in Calls : call[c].at # "waiting"

Ask(c) ==
  /\ handle = "held" /\ call[c] = Idle
  /\ \/ /\ loop # "stopped" /\ Len(commands) < CommandCapacity
        /\ commands' = Append(commands, c)
        /\ call' = [call EXCEPT ![c] = Waiting]
     \/ /\ loop = "stopped"
        /\ call' = [call EXCEPT ![c] = Ended("closed", NoId)]
        /\ UNCHANGED commands
  /\ UNCHANGED <<handle, loop, incoming, events, seen, ended, actorVars, childVars>>

\* timeout_at in request and notify, or a future that is dropped.
Leave(c) ==
  /\ call[c].at = "waiting"
  /\ call' = [call EXCEPT ![c] = Ended("left", NoId)]
  /\ UNCHANGED <<commands, handle, loop, incoming, events, seen, ended, actorVars,
                 childVars>>

\* The coordinator drops the session on ConnectionClosed, and on a notification that
\* does not parse.
NextEvent ==
  /\ handle = "held" /\ NobodyCalls /\ events # <<>>
  /\ events' = Tail(events)
  /\ seen' = IF Head(events).kind = "Notification" THEN seen + 1 ELSE seen
  /\ handle' \in CASE Head(events).kind = "ConnectionClosed" -> {"dropped"}
                   [] Head(events).kind = "Notification" -> {"held", "dropped"}
                   [] OTHER -> {"held"}
  /\ UNCHANGED <<call, commands, loop, incoming, ended, actorVars, childVars>>

EventsEnd ==
  /\ handle = "held" /\ NobodyCalls /\ events = <<>> /\ loop = "stopped"
  /\ handle' = "dropped"
  /\ UNCHANGED <<call, commands, loop, incoming, events, seen, ended, actorVars,
                 childVars>>

Shutdown ==
  /\ handle = "held" /\ NobodyCalls
  /\ handle' = "shutdown"
  /\ UNCHANGED <<call, commands, loop, incoming, events, seen, ended, actorVars,
                 childVars>>

-----------------------------------------------------------------------------
(* The actor.  Each handler goes back to the top of the loop, or leaves it. *)

Abandoned == {r \in pending : call[r.call].at # "waiting"}

\* Mutant: what is remembered is not bounded.
RetireKeeps(set, i) ==
  [ids |-> set.ids \cup {i}, order |-> Append(set.order, i)]

\* Mutant: room is made before it is needed.
RetireEarly(set, i) ==
  LET order == Append(set.order, i)
      full == Len(order) >= RetiredCapacity
  IN [ids |-> (set.ids \cup {i}) \ (IF full THEN {Head(order)} ELSE {}),
      order |-> IF full THEN Tail(order) ELSE order]

\* RetiredRequestIds::insert.  An id is retired once, and one answered late keeps
\* its place in the order.
Retire(set, i) ==
  LET order == Append(set.order, i)
      full == Len(order) > RetiredCapacity
  IN [ids |-> (set.ids \cup {i}) \ (IF full THEN {Head(order)} ELSE {}),
      order |-> IF full THEN Tail(order) ELSE order]

RetireRequest(r) ==
  /\ pending' = pending \ {r}
  /\ retired' = Retire(retired, r.id)
  /\ retirements' = retirements + 1

\* retire_cancelled_requests
RetireCancelled(r) ==
  /\ loop = "top" /\ r \in Abandoned
  /\ RetireRequest(r)
  /\ UNCHANGED <<call, commands, handle, loop, nextId, unusable, incoming, events,
                 seen, told, owner, ended, childVars>>

Select ==
  /\ loop = "top" /\ Abandoned = {}
  /\ loop' = "select"
  /\ UNCHANGED <<call, commands, handle, incoming, events, seen, ended, actorVars,
                 childVars>>

Continue == loop' = "top" /\ UNCHANGED ended
Break(why) == loop' = "reaping" /\ ended' = why

\* Mutant: those who wait for an answer are left to their timeouts.
FailNobody(answer) == pending' = {} /\ UNCHANGED call

\* fail_pending
FailPending(answer) ==
  /\ pending' = {}
  /\ call' = Answered(CallsOf(pending), answer, NoId)

TakesCommand(c) ==
  /\ loop = "select" /\ commands # <<>> /\ c = Head(commands)
  /\ commands' = Tail(commands)
  /\ UNCHANGED <<handle, unusable, retired, incoming, events, seen, told, retirements,
                 notes>>

\* A command that is answered without a write.
RefuseCommand(c) ==
  /\ TakesCommand(c)
  /\ \/ unusable /\ Reply(c, "violation")
     \/ ~unusable /\ c \notin Notices /\ Reply(c, "timeout")
     \/ /\ ~unusable /\ c \notin Notices /\ Abandoned = {}
        /\ Cardinality(pending) >= MaxPending \/ nextId > LastId
        /\ Reply(c, "protocol")
  /\ Continue
  /\ UNCHANGED <<nextId, pending, owner, heard>>

\* Mutant: the next id wraps around.
NextIdWraps == IF nextId = LastId THEN 1 ELSE nextId + 1

\* OutboundRequestIds::allocate
NextId == nextId + 1

\* Mutant: the connection is not known to be unusable.
MayWriteAnyway(c) == /\ c \notin Notices /\ Abandoned = {}
                     /\ Cardinality(pending) < MaxPending /\ nextId <= LastId

MayWrite(c) == /\ ~unusable /\ c \notin Notices /\ Abandoned = {}
               /\ Cardinality(pending) < MaxPending /\ nextId <= LastId

\* A request goes out, its frame is too large, or the write fails.  Requests whose
\* caller has left are retired first, as RetireCancelled does.
SendRequest(c) ==
  /\ TakesCommand(c) /\ MayWrite(c)
  /\ nextId' = NextId
  /\ owner' = [owner EXCEPT ![nextId] = c]
  /\ \/ /\ pending' = pending \cup {[id |-> nextId, call |-> c]}
        /\ heard' = heard \cup {nextId}
        /\ Continue
        /\ UNCHANGED call
     \/ /\ Reply(c, "protocol")
        /\ Continue
        /\ UNCHANGED <<pending, heard>>
     \/ /\ pending' = {}
        /\ call' = Answered(CallsOf(pending) \cup {c}, "io", NoId)
        /\ Break("write")
        /\ UNCHANGED heard

SendNotice(c) ==
  /\ TakesCommand(c)
  /\ ~unusable /\ c \in Notices
  /\ \/ /\ \E answer \in {"result", "protocol"} : Reply(c, answer)
        /\ Continue
        /\ UNCHANGED pending
     \/ /\ pending' = {}
        /\ call' = Answered(CallsOf(pending) \cup {c}, "io", NoId)
        /\ Break("write")
  /\ UNCHANGED <<nextId, owner, heard>>

Note(n) == [kind |-> "Notification", number |-> n]
Event(kind) == [kind |-> kind, number |-> 0]

HasRoom == handle # "dropped" /\ Len(events) < EventCapacity

\* send_event: the queue may be full, or its receiver gone.
SendEvent(e) == events' = IF HasRoom THEN Append(events, e) ELSE events

TakesFrame(kind) ==
  /\ loop = "select" /\ incoming # <<>>
  /\ Head(incoming).kind = kind
  /\ incoming' = Tail(incoming)
  /\ UNCHANGED <<commands, handle, nextId, seen, owner, retirements, childVars>>

\* The response of a request: reply.send reaches its caller unless it has left.
TakeResponse(r) ==
  /\ TakesFrame("response")
  /\ ~unusable /\ r \in pending /\ r.id = Head(incoming).number
  /\ pending' = pending \ {r}
  /\ call' = Answered({r.call}, "result", r.id)
  /\ Continue
  /\ UNCHANGED <<retired, unusable, events, told>>

\* A late response, or any once the connection is unusable.
IgnoreResponse ==
  /\ TakesFrame("response")
  /\ \/ unusable /\ UNCHANGED retired
     \/ /\ ~unusable /\ Head(incoming).number \notin IdsOf(pending)
        /\ Head(incoming).number \in retired.ids
        /\ retired' = [retired EXCEPT !.ids = @ \ {Head(incoming).number}]
  /\ Continue
  /\ UNCHANGED <<call, pending, unusable, events, told>>

CloseConnection(why, answer) ==
  /\ FailPending(answer)
  /\ SendEvent(Event("ConnectionClosed"))
  /\ Break(why)
  /\ UNCHANGED <<retired, unusable, told>>

UnknownResponse ==
  /\ TakesFrame("response")
  /\ ~unusable
  /\ Head(incoming).number \notin IdsOf(pending) \cup retired.ids
  /\ CloseConnection("response", "protocol")

\* A frame that is not JSON, too long or not a message.
BadFrame == TakesFrame("bad") /\ CloseConnection("protocol", "protocol")

EndOfFrames == TakesFrame("eof") /\ CloseConnection("eof", "closed")

\* Mutant: a notification that does not fit is dropped.
NotificationDropped ==
  /\ TakesFrame("notification")
  /\ IF unusable THEN UNCHANGED events ELSE SendEvent(Note(Head(incoming).number))
  /\ Continue
  /\ UNCHANGED <<call, pending, retired, unusable, told>>

\* A notification that does not fit ends the connection.
Notification ==
  /\ TakesFrame("notification")
  /\ IF unusable THEN UNCHANGED events ELSE SendEvent(Note(Head(incoming).number))
  /\ IF unusable \/ HasRoom THEN Continue /\ UNCHANGED <<call, pending>>
                            ELSE FailPending("protocol") /\ Break("backlog")
  /\ UNCHANGED <<retired, unusable, told>>

\* is_unrendered_tool_notification
ToolNotification ==
  /\ TakesFrame("tool")
  /\ Continue
  /\ UNCHANGED <<call, pending, retired, unusable, events, told>>

\* Mutant: it goes on when nobody could be told.
ServerRequestUntold ==
  /\ TakesFrame("request")
  /\ unusable' = TRUE
  /\ SendEvent(Event("SafetyViolation"))
  /\ told' = (told \/ HasRoom)
  /\ FailPending("violation")
  /\ Continue
  /\ UNCHANGED retired

\* The server asks for something: the client denies it and never uses the
\* connection again.
ServerRequest ==
  /\ TakesFrame("request")
  /\ \/ /\ FailPending("io") /\ Break("write")
        /\ UNCHANGED <<unusable, events, told>>
     \/ /\ unusable' = TRUE
        /\ SendEvent(Event("SafetyViolation"))
        /\ told' = (told \/ HasRoom)
        /\ FailPending("violation")
        /\ IF HasRoom THEN Continue ELSE Break("backlog")
  /\ UNCHANGED retired

\* Mutant: a request that timed out is retired without an answer.
TickForgets(r) ==
  /\ loop = "select" /\ r \in pending
  /\ RetireRequest(r)
  /\ Continue
  /\ UNCHANGED <<call, commands, handle, nextId, unusable, incoming, events, seen, told,
                 owner, childVars>>

\* The tick finds a request whose deadline has come: several are so many ticks.
Tick(r) ==
  /\ loop = "select" /\ r \in pending
  /\ RetireRequest(r)
  /\ Reply(r.call, "timeout")
  /\ Continue
  /\ UNCHANGED <<commands, handle, nextId, unusable, incoming, events, seen, told, owner,
                 childVars>>

\* A shutdown is taken, or the transport was dropped, whatever is still queued.
TakeShutdown ==
  /\ loop = "select"
  /\ handle \in {"shutdown", "dropped"}
  /\ Break("shutdown")
  /\ UNCHANGED <<call, commands, handle, incoming, events, seen, actorVars, childVars>>

\* reap_child, and the end of the actor: what it still holds is dropped, and whoever
\* waits for an answer sees its channel close.
Reap ==
  /\ loop = "reaping"
  /\ loop' = "stopped"
  /\ call' = Answered(Calls, "closed", NoId)
  /\ commands' = <<>> /\ incoming' = <<>>
  /\ pending' = {}
  /\ UNCHANGED <<handle, nextId, retired, unusable, events, seen, told, owner,
                 retirements, ended, childVars>>

-----------------------------------------------------------------------------
(* The child, and the reader of its stdout.                                *)

Frame(kind, number) == [kind |-> kind, number |-> number]

\* The child's output closes once, and nothing follows a line that is not a frame.
Open == \A k \in 1..Len(incoming) : incoming[k].kind \notin {"bad", "eof"}

Writes(frame) ==
  /\ loop \in {"top", "select"} /\ Open
  /\ Len(incoming) < ReaderCapacity
  /\ incoming' = Append(incoming, frame)
  /\ UNCHANGED <<call, commands, handle, loop, events, seen, ended, actorVars>>

ChildResponds(i) ==
  /\ i \in heard
  /\ Writes(Frame("response", i))
  /\ heard' = heard \ {i} /\ UNCHANGED notes

ChildNotifies ==
  /\ notes < MaxNotes
  /\ Writes(Frame("notification", notes + 1))
  /\ notes' = notes + 1 /\ UNCHANGED heard

ChildUsesTool ==
  /\ notes < MaxNotes
  /\ Writes(Frame("tool", 0)) /\ UNCHANGED childVars

ChildAsks ==
  /\ "request" \in ChildFaults
  /\ Writes(Frame("request", 0)) /\ UNCHANGED childVars

ChildErrs ==
  /\ "protocol" \in ChildFaults
  /\ \/ Writes(Frame("bad", 0))
     \/ \E i \in Ids \cup {NoId} : Writes(Frame("response", i))
  /\ UNCHANGED childVars

ChildExits == Writes(Frame("eof", 0)) /\ UNCHANGED childVars

Child == \/ \E i \in Ids : ChildResponds(i)
         \/ ChildNotifies \/ ChildUsesTool \/ ChildAsks \/ ChildErrs \/ ChildExits

-----------------------------------------------------------------------------

TakeCommand == \E c \in Calls : RefuseCommand(c) \/ SendRequest(c) \/ SendNotice(c)

TakeFrame == \/ \E r \in pending : TakeResponse(r)
             \/ IgnoreResponse \/ UnknownResponse \/ BadFrame \/ EndOfFrames
             \/ Notification \/ ToolNotification \/ ServerRequest

RetireSome == \E r \in pending : RetireCancelled(r)

TickSome == \E r \in pending : Tick(r)

Client == \/ \E c \in Calls : Ask(c) \/ Leave(c)
          \/ NextEvent \/ EventsEnd \/ Shutdown

Actor == RetireSome \/ Select \/ TakeCommand \/ TakeFrame \/ TickSome \/ TakeShutdown \/ Reap

Next == Client \/ Actor \/ Child

Spec == Init /\ [][Next]_vars

\* The actor's loop goes on, its select is fair to its branches, and deadlines come.
\* Nothing is assumed of the child, of the session, nor of a caller's own timeout.
Fairness == /\ WF_vars(RetireSome) /\ WF_vars(Select) /\ WF_vars(Reap)
            /\ SF_vars(TakeCommand) /\ SF_vars(TickSome)

FairSpec == Spec /\ Fairness

-----------------------------------------------------------------------------
(* Properties.                                                             *)

CallType == [at : {"idle", "waiting", "ended"}, answer : Answers \cup {"none"},
             id : Ids \cup {NoId}]

FrameType == [kind : {"response", "notification", "tool", "request", "bad", "eof"},
              number : Nat]

EventType == [kind : {"Notification", "SafetyViolation", "ConnectionClosed"},
              number : Nat]

ClientTypeOK ==
  /\ call \in [Calls -> CallType]
  /\ commands \in Seq(Calls) /\ Len(commands) <= CommandCapacity
  /\ handle \in {"held", "shutdown", "dropped"}
  /\ seen \in Nat

TableTypeOK ==
  /\ pending \subseteq [id : Ids, call : Calls]
  /\ Cardinality(pending) <= MaxPending
  /\ nextId \in 1..(LastId + 1)
  /\ owner \in [Ids -> Calls \cup {NoCall}]

RetiredTypeOK ==
  /\ retired \in [ids : SUBSET Ids, order : Seq(Ids)]
  /\ Len(retired.order) <= RetiredCapacity
  /\ retirements \in Nat

ActorTypeOK ==
  /\ loop \in {"top", "select", "reaping", "stopped"}
  /\ unusable \in BOOLEAN /\ told \in BOOLEAN
  /\ ended \in {"no", "write", "response", "protocol", "eof", "backlog", "shutdown"}

ChannelTypeOK ==
  /\ incoming \in Seq(FrameType) /\ Len(incoming) <= ReaderCapacity
  /\ events \in Seq(EventType) /\ Len(events) <= EventCapacity
  /\ heard \subseteq Ids /\ notes \in Nat

\* Every variable keeps its type, and every channel and table its bound.
TypeOK == ClientTypeOK /\ TableTypeOK /\ RetiredTypeOK /\ ActorTypeOK /\ ChannelTypeOK

\* A caller gets the response to its own request and no other, however late the
\* responses are, whatever ids the child invents, and also when ids run out.
OwnResponse ==
  \A c \in Calls \ Notices : call[c].answer = "result" => owner[call[c].id] = c

\* Whoever waits is still in the actor's hands: queued, in flight, or about to see
\* its channel close.
NobodyForgotten ==
  \A c \in Calls : call[c].at = "waiting" =>
    \/ \E k \in 1..Len(commands) : commands[k] = c
    \/ c \in CallsOf(pending)
    \/ loop = "reaping"

\* A late response is recognised as long as no more requests were retired than
\* are remembered: the connection to a child that keeps to the protocol is not
\* lost over it.
LateResponsesTolerated ==
  ended = "response" /\ "protocol" \notin ChildFaults => retirements > RetiredCapacity

\* The session does not go on with an unusable connection without being told.
DenialIsTold == unusable /\ loop \in {"top", "select"} => told

\* The notifications in a queue are numbered first + 1, ..., last, in that order.
Numbered(s, kind, first, last) ==
  LET notifications == {k \in DOMAIN s : s[k].kind = kind}
  IN /\ \A j, k \in notifications : j < k => s[j].number < s[k].number
     /\ {s[k].number : k \in notifications} = (first + 1)..last

\* What the session reads has no gaps: a notification that does not fit ends the
\* connection instead of disappearing from the middle of a turn, and as long as the
\* connection is used every notification of the child is on its way.
NoGaps ==
  \E last \in seen..notes :
    /\ Numbered(events, "Notification", seen, last)
    /\ loop \in {"top", "select"} /\ ~unusable /\ handle # "dropped" =>
         Numbered(incoming, "notification", last, notes)

\* Once a request of the server was denied nothing else is asked of it, and no
\* response of it is believed, queued or in flight as they may be.
FailsClosed ==
  [][unusable => /\ owner' = owner
                 /\ \A c \in Calls : call[c].at = "waiting" => call'[c].answer # "result"]_vars

\* Every call ends, without the help of the caller's own timeout and whatever
\* becomes of the child and the queues.
CallsEnd == \A c \in Calls : call[c].at = "waiting" ~> call[c].at = "ended"
=============================================================================
