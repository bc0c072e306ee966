-------------------------- MODULE ClaudeApp_proofs --------------------------
(***************************************************************************)
(* What holds of a Claude conversation for any sessions, aliases, turns    *)
(* and queue capacity, and across any quits and crashes.                   *)
(*                                                                         *)
(* Two things hold whatever may fail: an active turn has an end, and the   *)
(* pointer follows the conversation.  The others hold as long as nothing   *)
(* fails the reducer's turn while its task still runs (Quiet); and that    *)
(* the screen shows one conversation, as long as the model is not changed  *)
(* under an active turn (AliasIsHeld).                                     *)
(***************************************************************************)
EXTENDS ClaudeApp, TLAPS

\* The values the variables range over.
SomeSession == Sessions \cup {NoSession}
SomeTurn == Turns \cup {NoTurn}
Lifecycles == {"Absent", "Fresh", "Established", "CreationUncertain", "Deleted"}

PreferencesType == [provider : Providers, alias : Aliases, pointer : SomeSession]

AppType ==
  [provider : Providers, alias : Aliases, pointer : SomeSession,
   conversation : [kind : {"None", "Ready", "CreationUncertain", "ResumeFailed"},
                   id : SomeSession],
   turn : [kind : {"Idle", "Starting", "Streaming"} \cup Outcomes,
           session : SomeSession, turn : SomeTurn],
   shown : SUBSET Turns, picker : {"closed", "ready", "failed"},
   subscribed : BOOLEAN, authOp : {"idle", "login", "logout", "checking"}]

TaskType == [pc : {"none", "launched", "open", "done"}, turn : SomeTurn,
             session : SomeSession, cancelled : BOOLEAN]

EventType == [kind : {"TurnStarted", "Initialized", "TextDelta", "TurnFinished"},
              session : Sessions, turn : Turns, outcome : Outcomes, uncertain : BOOLEAN]

Effects == {"none", "send", "sendInline", "startNew", "drain", "drainPersist",
            "persistIntent", "persistEvent"}

ScreenTypeOK ==
  /\ app \in AppType /\ saved \in PreferencesType
  /\ effect \in Effects /\ deaf \in BOOLEAN
  /\ unresolved \subseteq Sessions /\ attached \subseteq Sessions

ServiceTypeOK ==
  /\ active \in TaskType /\ record \in [Sessions -> Lifecycles]
  /\ nextTurn \in Nat /\ owner \in [Turns -> SomeSession]
  /\ queue \in Seq(EventType) /\ current \in SomeTurn /\ session \in SomeSession
  /\ initialized \in BOOLEAN

TypeOK == ScreenTypeOK /\ ServiceTypeOK

\* An active turn is one of Claude's, with nothing to pick beside it and no login under
\* way; a message that is being sent has a turn to start.
ScreenInv ==
  /\ TurnActive(app) =>
       app.provider = "Claude" /\ app.picker = "closed" /\ app.authOp # "login"
  /\ effect = "send" =>
       app.turn.kind = "Starting" /\ app.authOp = "idle" /\ nextTurn \in Turns
  /\ effect = "startNew" =>
       app.provider = "Claude" /\ ~TurnActive(app) /\ app.authOp = "idle"

\* Turn t was handed out, to session s.
Issued(t, s) == t \in Turns /\ t < nextTurn /\ s \in Sessions /\ owner[t] = s

\* The event at k ends turn t.
Ends(k, t) == queue[k].kind = "TurnFinished" /\ queue[k].turn = t

\* What is queued was handed out, and a turn that begins in the queue is open or ends there.
QueueInv ==
  /\ \A k \in DOMAIN queue : Issued(queue[k].turn, queue[k].session)
  /\ \A k \in DOMAIN queue : queue[k].kind = "TurnStarted" =>
       \/ current = queue[k].turn
       \/ \E j \in DOMAIN queue : j > k /\ Ends(j, queue[k].turn)

\* What runs, is open or streams was handed out, and the open turn is the running task's or
\* the coordinator's.
StreamInv ==
  /\ \A t \in Turns : owner[t] # NoSession => t < nextTurn
  /\ TaskRunning => Issued(active.turn, active.session)
  /\ active.pc = "launched" => current = NoTurn
  /\ active.pc = "open" => current = active.turn /\ session = active.session
  /\ current # NoTurn =>
       /\ Issued(current, session)
       /\ active.pc = "open" \/ effect = "sendInline"
  /\ effect = "sendInline" => current # NoTurn /\ active.pc = "none"
  /\ initialized => current # NoTurn
  /\ app.turn.kind = "Streaming" => Issued(app.turn.turn, app.turn.session)
  /\ QueueInv

\* Nothing fails the reducer's turn behind the service's back: the Codex transport denies
\* nothing, and every turn gets its task.
Quiet == "codex" \notin Faults /\ "records" \notin Faults

\* The events that are queued are those of one turn, from where the reducer is to where
\* the task is.
StageInv ==
  /\ effect # "sendInline"
  /\ queue # <<>> \/ active.pc = "open" =>
       active.pc \in {"open", "done"} /\ last = active.turn
  /\ \A k \in DOMAIN queue :
       /\ queue[k].turn = active.turn /\ queue[k].session = active.session
       /\ queue[k].kind = "TurnStarted" <=> k = 1 /\ app.turn.kind = "Starting"
       /\ queue[k].kind = "TurnFinished" <=> k = Len(queue) /\ active.pc = "done"
  /\ active.pc = "launched" => queue = <<>> /\ app.turn.kind = "Starting"
  /\ active.pc = "open" /\ queue = <<>> => app.turn.kind = "Streaming"
  /\ app.turn.kind = "Streaming" =>
       /\ app.turn = Streaming(active.session, active.turn)
       /\ active.pc \in {"open", "done"} /\ (active.pc = "done" => queue # <<>>)
  /\ app.turn.kind = "Starting" /\ effect # "send" => active.pc = "launched" \/ queue # <<>>
  /\ ~TurnActive(app) \/ effect = "send" => queue = <<>> /\ ~TaskRunning

\* A session that reported uncertainty has no turn under way.
DoubtInv ==
  /\ DoubtIsShown
  /\ \A s \in unresolved : record[s] # "Absent"
  /\ TaskRunning => active.session \notin unresolved
  /\ \A k \in DOMAIN queue :
       queue[k].kind = "TurnFinished" /\ queue[k].session \in unresolved => queue[k].uncertain
  /\ TurnActive(app) /\ effect # "send" /\ app.conversation.kind = "Ready" =>
       app.conversation.id = active.session

\* The session of a turn that is starting is one the user chose.
AttachedInv ==
  /\ NeverAttachedSilently
  /\ app.turn.kind = "Starting" /\ effect # "send" => active.session \in attached

\* The session of a turn under way is there.
KeptInv ==
  /\ ConversationIsKept
  /\ app.conversation.kind \in {"Ready", "CreationUncertain"} => app.conversation.id \in Sessions
  /\ TaskRunning \/ queue # <<>> => record[active.session] \notin {"Absent", "Deleted"}

\* The model is not changed while a turn is active: SelectProviderModel allows it.
AliasIsHeld == TurnActive(app) /\ TurnActive(app') => app'.alias = app.alias

\* Under one alias a turn under way is one of the conversation displayed.
ShownInv ==
  /\ OneConversation
  /\ TurnActive(app) /\ effect # "send" => app.conversation.id = active.session
  /\ \A t \in app.shown : owner[t] # NoSession
  /\ app.conversation.kind = "None" => app.conversation.id = NoSession

-----------------------------------------------------------------------------
(* What the operators of the reducer return.                               *)

\* What an operation of the account leaves alone.
SameConversation(a, b) ==
  /\ b.provider = a.provider /\ b.alias = a.alias /\ b.pointer = a.pointer
  /\ b.conversation = a.conversation /\ b.shown = a.shown

ConversationType ==
  [kind : {"None", "Ready", "CreationUncertain", "ResumeFailed"}, id : SomeSession]

\* Every form of conversation is one.
LEMMA ConversationsType ==
  /\ NoConversation \in ConversationType
  /\ \A s \in SomeSession : /\ Ready(s) \in ConversationType
                            /\ Uncertain(s) \in ConversationType
                            /\ Blocked(s) \in ConversationType
BY DEF ConversationType, NoConversation, Ready, Uncertain, Blocked, SomeSession

\* OperationFailed ends the operation of the account, or else the turn.
LEMMA OperationFailedType ==
  ASSUME NEW a \in AppType
  PROVE  LET b == OperationFailed(a)
         IN /\ b \in AppType /\ SameConversation(a, b)
            /\ b.picker = a.picker /\ b.authOp = "idle"
            /\ a.authOp # "idle" => b.turn = a.turn
            /\ b.turn = a.turn \/ b.turn.kind = "Failed"
            /\ a.authOp = "idle" /\ a.provider = "Claude" => ~TurnActive(b)
<1> DEFINE b == OperationFailed(a)
<1>1. CASE a.authOp # "idle"
  <2>1. b = [a EXCEPT !.authOp = "idle"]
    BY <1>1 DEF OperationFailed
  <2> QED BY <1>1, <2>1 DEF AppType, SameConversation
<1>2. CASE /\ a.authOp = "idle"
           /\ a.turn.kind = "Streaming" \/ (a.turn.kind = "Starting" /\ a.provider = "Claude")
  <2>1. b = [a EXCEPT !.turn.kind = "Failed"]
    BY <1>2 DEF OperationFailed
  <2>2. "Failed" \in Outcomes
    BY DEF Outcomes
  <2> QED BY <1>2, <2>1, <2>2 DEF AppType, SameConversation, TurnActive
<1>3. CASE /\ a.authOp = "idle"
           /\ ~(a.turn.kind = "Streaming" \/ (a.turn.kind = "Starting" /\ a.provider = "Claude"))
  <2>1. b = a
    BY <1>3 DEF OperationFailed
  <2> QED BY <1>3, <2>1 DEF SameConversation, TurnActive
<1> QED BY <1>1, <1>2, <1>3

\* AuthVerified leaves the turn alone and blocks the conversation that the pointer names.
LEMMA AuthVerifiedType ==
  ASSUME NEW a \in AppType, NEW subscribed \in BOOLEAN
  PROVE  LET b == AuthVerified(a, subscribed)
         IN /\ b \in AppType /\ b.provider = a.provider /\ b.alias = a.alias
            /\ b.pointer = a.pointer /\ b.shown = a.shown /\ b.turn = a.turn
            /\ b.picker = a.picker /\ b.authOp = "idle"
            /\ b.conversation = IF subscribed /\ a.provider = "Claude" /\ a.pointer # NoSession
                                THEN Blocked(a.pointer) ELSE a.conversation
<1>1. Blocked(a.pointer) \in ConversationType
  BY ConversationsType DEF AppType
<1> QED BY <1>1 DEF AppType, AuthVerified, ConversationType

\* SessionBegun shows a session, from a blank transcript for /new.
LEMMA SessionBegunType ==
  ASSUME NEW a \in AppType, NEW c \in ConversationType, NEW new \in BOOLEAN
  PROVE  LET b == SessionBegun(a, c, new)
         IN /\ b \in AppType /\ b.provider = a.provider /\ b.alias = a.alias
            /\ b.pointer = c.id /\ b.conversation = c
            /\ b.turn = IF new THEN TurnIs("Idle") ELSE a.turn
            /\ b.shown = IF new THEN {} ELSE a.shown
            /\ b.picker = a.picker /\ b.authOp = a.authOp
<1>1. TurnIs("Idle") \in [kind : {"Idle", "Starting", "Streaming"} \cup Outcomes,
                          session : SomeSession, turn : SomeTurn]
  BY DEF TurnIs, SomeSession, SomeTurn
<1> QED BY <1>1 DEF AppType, SessionBegun, ConversationType

\* An event starts the turn the reducer waits for, adds to the text of the turn displayed,
\* ends it, or is ignored.
LEMMA ReducedType ==
  ASSUME NEW a \in AppType, NEW e \in EventType, NEW text
  PROVE  LET b == Reduced(a, e, text)
         IN /\ b \in AppType /\ b.provider = a.provider /\ b.alias = a.alias
            /\ b.picker = a.picker /\ b.authOp = a.authOp
            /\ \/ /\ e.kind = "TurnStarted" /\ Accepts(a, e)
                  /\ b.conversation = Ready(e.session) /\ b.pointer = e.session
                  /\ b.turn = Streaming(e.session, e.turn) /\ b.shown = a.shown
               \/ /\ e.kind = "TextDelta" /\ Matches(a, e)
                  /\ b.conversation = a.conversation /\ b.pointer = a.pointer
                  /\ b.turn = a.turn /\ b.shown = a.shown \cup {e.turn}
               \/ /\ e.kind = "TurnFinished" /\ Matches(a, e)
                  /\ b.conversation = (IF e.uncertain THEN Uncertain(e.session) ELSE a.conversation)
                  /\ b.pointer = (IF e.uncertain THEN e.session ELSE a.pointer)
                  /\ ~TurnActive(b) /\ b.shown \subseteq a.shown \cup {e.turn}
               \/ /\ b = a /\ ~(e.kind = "TurnStarted" /\ Accepts(a, e))
                  /\ ~(e.kind = "TurnFinished" /\ Matches(a, e))
<1> DEFINE b == Reduced(a, e, text)
<1>0. /\ e.session \in Sessions /\ e.turn \in Turns /\ e.outcome \in Outcomes
      /\ e.uncertain \in BOOLEAN /\ e.session \in SomeSession /\ e.turn \in SomeTurn
  BY DEF EventType, SomeSession, SomeTurn
<1>1. CASE e.kind = "TurnStarted" /\ Accepts(a, e)
  <2>1. b = [a EXCEPT !.conversation = Ready(e.session), !.pointer = e.session,
                      !.turn = Streaming(e.session, e.turn)]
    BY <1>1 DEF Reduced
  <2>2. Ready(e.session) \in ConversationType
    BY <1>0, ConversationsType
  <2>3. Streaming(e.session, e.turn) \in
          [kind : {"Idle", "Starting", "Streaming"} \cup Outcomes,
           session : SomeSession, turn : SomeTurn]
    BY <1>0 DEF Streaming
  <2>4. b \in AppType
    BY <1>0, <2>1, <2>2, <2>3 DEF AppType, ConversationType
  <2>5. /\ b.provider = a.provider /\ b.alias = a.alias
        /\ b.picker = a.picker /\ b.authOp = a.authOp
        /\ b.conversation = Ready(e.session) /\ b.pointer = e.session
        /\ b.turn = Streaming(e.session, e.turn) /\ b.shown = a.shown
    BY <2>1 DEF AppType
  <2> QED BY <1>1, <2>4, <2>5
<1>2. CASE e.kind = "TextDelta" /\ Matches(a, e)
  <2>1. b = [a EXCEPT !.shown = @ \cup {e.turn}]
    BY <1>2 DEF Reduced
  <2> QED BY <1>0, <1>2, <2>1 DEF AppType
<1>3. CASE e.kind = "TurnFinished" /\ Matches(a, e)
  <2> DEFINE kind == IF e.outcome = "Completed" /\ text = "contradicts" THEN "Failed"
                     ELSE e.outcome
             shown == IF text = "agrees" /\ e.outcome \in {"Completed", "Failed"}
                      THEN a.shown \cup {e.turn} ELSE a.shown
             conversation == IF e.uncertain THEN Uncertain(e.session) ELSE a.conversation
             pointer == IF e.uncertain THEN e.session ELSE a.pointer
  <2>1. b = [a EXCEPT !.turn.kind = kind, !.shown = shown, !.conversation = conversation,
                      !.pointer = pointer]
    BY <1>3 DEF Reduced, Finished
  <2>2. /\ kind \in Outcomes /\ kind \notin {"Starting", "Streaming"}
        /\ shown \subseteq a.shown \cup {e.turn} /\ shown \in SUBSET Turns
        /\ conversation \in ConversationType /\ pointer \in SomeSession
    BY <1>0, ConversationsType DEF Outcomes, AppType, ConversationType
  <2> HIDE DEF kind, shown, conversation, pointer
  <2>a. [a.turn EXCEPT !.kind = kind] \in [kind : {"Idle", "Starting", "Streaming"} \cup Outcomes,
                                         session : SomeSession, turn : SomeTurn]
    BY <2>2 DEF AppType
  <2>3. b \in AppType
    <3>1. b = [a EXCEPT !.turn = [a.turn EXCEPT !.kind = kind], !.shown = shown,
                        !.conversation = conversation, !.pointer = pointer]
      BY <2>1
    <3> DEFINE turn == [a.turn EXCEPT !.kind = kind]
               TurnSet == [kind : {"Idle", "Starting", "Streaming"} \cup Outcomes,
                           session : SomeSession, turn : SomeTurn]
    <3>2. b = [a EXCEPT !.turn = turn, !.shown = shown, !.conversation = conversation,
                        !.pointer = pointer]
      BY <3>1
    <3>3. turn \in TurnSet
      BY <2>a
    <3>4. AppType = [provider : Providers, alias : Aliases, pointer : SomeSession,
                     conversation : ConversationType, turn : TurnSet, shown : SUBSET Turns,
                     picker : {"closed", "ready", "failed"}, subscribed : BOOLEAN,
                     authOp : {"idle", "login", "logout", "checking"}]
      BY DEF AppType, ConversationType
    <3> HIDE DEF turn, TurnSet, b
    <3> QED BY <2>2, <3>2, <3>3, <3>4
  <2>4. /\ b.provider = a.provider /\ b.alias = a.alias
        /\ b.picker = a.picker /\ b.authOp = a.authOp
        /\ b.conversation = conversation /\ b.pointer = pointer
        /\ b.turn.kind = kind /\ b.shown = shown
    BY <2>1 DEF AppType
  <2> QED BY <1>3, <2>2, <2>3, <2>4 DEF TurnActive, conversation, pointer
<1>4. CASE /\ ~(e.kind = "TurnStarted" /\ Accepts(a, e))
           /\ ~(e.kind = "TextDelta" /\ Matches(a, e))
           /\ ~(e.kind = "TurnFinished" /\ Matches(a, e))
  <2>1. b = a
    BY <1>4 DEF Reduced
  <2> QED BY <1>4, <2>1
<1> QED BY <1>1, <1>2, <1>3, <1>4

\* Startup shows nothing, and blocks the conversation that was saved.
LEMMA RestoredType ==
  ASSUME NEW prefs \in PreferencesType, NEW subscribed \in BOOLEAN
  PROVE  LET b == Restored(prefs, subscribed)
         IN /\ b \in AppType /\ ~TurnActive(b) /\ b.turn.kind = "Idle" /\ b.shown = {}
            /\ b.authOp = "idle" /\ b.provider = prefs.provider
            /\ b.conversation.kind \in {"None", "ResumeFailed"}
            /\ b.provider = "Claude" => b.pointer = b.conversation.id
<1>1. TurnIs("Idle") \in [kind : {"Idle", "Starting", "Streaming"} \cup Outcomes,
                          session : SomeSession, turn : SomeTurn]
  BY DEF TurnIs, SomeSession, SomeTurn
<1>2. /\ NoConversation \in ConversationType
      /\ Blocked(prefs.pointer) \in ConversationType
  BY ConversationsType DEF PreferencesType
<1> QED BY <1>1, <1>2 DEF Restored, AppType, PreferencesType, ConversationType, TurnActive,
           NoConversation, Blocked, TurnIs

-----------------------------------------------------------------------------
(* The screen and the pointer.                                             *)

\* What the preferences file may be given.
LEMMA PreferencesAreTyped ==
  ASSUME NEW a \in AppType
  PROVE  /\ Preferences(a) \in PreferencesType
         /\ \A s \in Sessions : Preferences([a EXCEPT !.pointer = s]) \in PreferencesType
BY DEF AppType, Preferences, PreferencesType, SomeSession

\* A step that keeps the provider, activates no turn, begins no login and opens no picker.
LEMMA ScreenKept ==
  ASSUME ScreenInv, app'.provider = app.provider, app'.picker \in {app.picker, "closed"},
         app'.authOp # "login" \/ app'.authOp = app.authOp,
         app'.turn = app.turn \/ ~TurnActive(app'),
         \/ UNCHANGED <<effect, nextTurn>> /\ app'.turn = app.turn /\ app'.authOp = app.authOp
         \/ effect' \notin {"send", "startNew"}
  PROVE  ScreenInv'
BY DEF ScreenInv, TurnActive

\* The received event, and what it does to the screen.
LEMMA HeadIsEvent ==
  ASSUME TypeOK, queue # <<>>
  PROVE  /\ Head(queue) \in EventType /\ Head(queue) = queue[1] /\ 1 \in DOMAIN queue
         /\ Tail(queue) \in Seq(EventType) /\ Len(queue) \in Nat \ {0}
         /\ DOMAIN Tail(queue) = 1 .. Len(queue) - 1 /\ DOMAIN queue = 1 .. Len(queue)
         /\ Len(Tail(queue)) = Len(queue) - 1
         /\ \A k \in DOMAIN Tail(queue) :
              k + 1 \in DOMAIN queue /\ Tail(queue)[k] = queue[k + 1]
<1>1. queue \in Seq(EventType)
  BY DEF TypeOK, ServiceTypeOK
<1> QED BY <1>1

\* What a start leaves on the screen.
LEMMA RestartsScreen ==
  ASSUME saved' \in PreferencesType, Restarts
  PROVE  /\ app' \in AppType /\ ~TurnActive(app') /\ app'.turn.kind = "Idle" /\ app'.shown = {}
         /\ app'.authOp = "idle" /\ app'.conversation.kind \in {"None", "ResumeFailed"}
         /\ app'.provider = "Claude" => app'.pointer = app'.conversation.id
         /\ effect' = "none" /\ deaf' = FALSE /\ attached' = {} /\ active' = NoTask
         /\ queue' = <<>> /\ current' = NoTurn /\ session' = NoSession /\ initialized' = FALSE
         /\ last' = last /\ UNCHANGED <<nextTurn, owner, unresolved>>
<1>1. PICK subscribed \in BOOLEAN : app' = Restored(saved', subscribed)
  BY DEF Restarts
<1>2. /\ effect' = "none" /\ deaf' = FALSE /\ attached' = {} /\ active' = NoTask
      /\ queue' = <<>> /\ current' = NoTurn /\ session' = NoSession /\ initialized' = FALSE
      /\ last' = last /\ UNCHANGED <<nextTurn, owner, unresolved>>
  BY DEF Restarts, Stream!Lose
<1>3. /\ app' \in AppType /\ ~TurnActive(app') /\ app'.turn.kind = "Idle" /\ app'.shown = {}
      /\ app'.authOp = "idle" /\ app'.conversation.kind \in {"None", "ResumeFailed"}
      /\ app'.provider = "Claude" => app'.pointer = app'.conversation.id
  BY <1>1, RestoredType
<1> QED BY <1>2, <1>3

\* The preferences file that a quit or a crash leaves.
LEMMA RestartsFile ==
  ASSUME ScreenTypeOK, Quit \/ Crash
  PROVE  saved' \in PreferencesType /\ Restarts
<1>1. saved' = saved \/ saved' = Preferences(app)
  BY DEF Quit, Crash
<1> QED BY <1>1, PreferencesAreTyped DEF ScreenTypeOK, Quit, Crash

\* Sending the first message: the session begins, or the message fails.
LEMMA CreatesScreen ==
  ASSUME TypeOK, ScreenInv, NEW s \in Sessions, NEW registration, NEW pointer,
         SendCreates(s, registration, pointer)
  PROVE  /\ app' \in AppType /\ app'.provider = app.provider /\ app'.alias = app.alias
         /\ app'.picker = app.picker /\ app'.authOp = app.authOp /\ app'.shown = app.shown
         /\ saved' \in PreferencesType
         /\ \/ /\ app'.conversation = Ready(s) /\ app'.pointer = s /\ effect' = "send"
               /\ app'.turn = app.turn /\ attached' = attached \cup {s}
               /\ record' = [record EXCEPT ![s] = "Fresh"]
            \/ /\ app'.conversation = Uncertain(s) /\ app'.pointer = s
               /\ effect' \in {"none", "persistIntent"}
               /\ ~TurnActive(app') /\ attached' = attached \cup {s}
               /\ record' = [record EXCEPT ![s] = "Fresh"]
            \/ /\ app'.conversation = app.conversation /\ app'.pointer = app.pointer
               /\ effect' = "none"
               /\ ~TurnActive(app') /\ attached' = attached /\ record' = record
<1> DEFINE f == OperationFailed(app)
<1>0. app \in AppType /\ s \in SomeSession /\ Ready(s) \in ConversationType
      /\ Uncertain(s) \in ConversationType /\ saved \in PreferencesType
  BY ConversationsType DEF TypeOK, ScreenTypeOK, SomeSession
<1>1. app.authOp = "idle" /\ app.provider = "Claude"
  BY DEF SendCreates, ScreenInv, TurnActive
<1>2. /\ f \in AppType /\ SameConversation(app, f) /\ f.picker = app.picker
      /\ f.authOp = "idle" /\ ~TurnActive(f)
  BY <1>0, <1>1, OperationFailedType
<1>3. saved' \in PreferencesType
  <2>1. saved' = saved \/ saved' = Preferences([app EXCEPT !.pointer = s])
    BY DEF SendCreates
  <2> QED BY <1>0, <2>1, PreferencesAreTyped
<1>4. CASE registration = "failed"
  <2>1. app' = f /\ effect' = "none" /\ attached' = attached /\ record' = record
    BY <1>4 DEF SendCreates
  <2> QED BY <1>1, <1>2, <1>3, <2>1 DEF SameConversation
<1>5. CASE registration = "verified" /\ pointer = "verified"
  <2>1. /\ app' = SessionBegun(app, Ready(s), FALSE) /\ effect' = "send"
        /\ attached' = attached \cup {s} /\ record' = [record EXCEPT ![s] = "Fresh"]
    BY <1>5 DEF SendCreates
  <2>2. /\ app' \in AppType /\ app'.provider = app.provider /\ app'.alias = app.alias
        /\ app'.pointer = Ready(s).id /\ app'.conversation = Ready(s)
        /\ app'.turn = app.turn /\ app'.shown = app.shown
        /\ app'.picker = app.picker /\ app'.authOp = app.authOp
    BY <1>0, <2>1, SessionBegunType
  <2> QED BY <1>3, <2>1, <2>2 DEF Ready
<1>6. CASE registration # "failed" /\ ~(registration = "verified" /\ pointer = "verified")
  <2>1. /\ app' = SessionBegun(f, Uncertain(s), FALSE)
        /\ attached' = attached \cup {s} /\ record' = [record EXCEPT ![s] = "Fresh"]
    BY <1>6 DEF SendCreates
  <2>2. effect' \in {"none", "persistIntent"}
    BY <1>6 DEF SendCreates
  <2> HIDE DEF f
  <2>3. /\ app' \in AppType /\ app'.provider = f.provider /\ app'.alias = f.alias
        /\ app'.pointer = Uncertain(s).id /\ app'.conversation = Uncertain(s)
        /\ app'.turn = f.turn /\ app'.shown = f.shown
        /\ app'.picker = f.picker /\ app'.authOp = f.authOp
    BY <1>0, <1>2, <2>1, SessionBegunType
  <2> QED BY <1>1, <1>2, <1>3, <2>1, <2>2, <2>3 DEF Uncertain, SameConversation, TurnActive
<1> QED BY <1>4, <1>5, <1>6

\* /new: the session begins on a blank screen, or the screen stays.
LEMMA NewScreen ==
  ASSUME TypeOK, ScreenInv, NEW s \in Sessions, NEW registration, NEW pointer,
         StartNew(s, registration, pointer)
  PROVE  /\ app' \in AppType /\ app'.provider = app.provider /\ app'.alias = app.alias
         /\ app'.picker = app.picker /\ app'.authOp = app.authOp /\ effect' = "none"
         /\ saved' \in PreferencesType /\ ~TurnActive(app')
         /\ record' = record \/ record' = [record EXCEPT ![s] = "Fresh"]
         /\ \/ /\ app'.conversation = Ready(s) \/ app'.conversation = Uncertain(s)
               /\ app'.pointer = s
               /\ app'.shown = {} /\ attached' = attached \cup {s}
               /\ record' = [record EXCEPT ![s] = "Fresh"]
            \/ /\ app'.conversation = app.conversation /\ app'.pointer = app.pointer
               /\ app'.shown = app.shown /\ attached' = attached
<1> DEFINE f == OperationFailed(app)
           c == IF pointer = "verified" THEN Ready(s) ELSE Uncertain(s)
           begun == registration = "verified" /\ pointer # "failed"
<1>0. /\ app \in AppType /\ s \in SomeSession /\ c \in ConversationType
      /\ saved \in PreferencesType
      /\ c = Ready(s) \/ c = Uncertain(s)
      /\ c.id = s
  BY ConversationsType DEF TypeOK, ScreenTypeOK, SomeSession, Ready, Uncertain
<1>1. app.authOp = "idle" /\ app.provider = "Claude" /\ ~TurnActive(app)
  BY DEF StartNew, ScreenInv
<1>2. /\ f \in AppType /\ SameConversation(app, f) /\ f.picker = app.picker
      /\ f.authOp = "idle" /\ ~TurnActive(f)
  BY <1>0, <1>1, OperationFailedType
<1>3. saved' \in PreferencesType
  <2>1. saved' = saved \/ saved' = Preferences([app EXCEPT !.pointer = s])
    BY DEF StartNew
  <2> QED BY <1>0, <2>1, PreferencesAreTyped
<1>4. CASE registration = "failed"
  <2>1. app' = f /\ effect' = "none" /\ attached' = attached /\ record' = record
    BY <1>4 DEF StartNew
  <2> QED BY <1>1, <1>2, <1>3, <2>1 DEF SameConversation
<1>5. CASE begun
  <2>1. /\ app' = SessionBegun(app, c, TRUE) /\ effect' = "none"
        /\ attached' = attached \cup {s} /\ record' = [record EXCEPT ![s] = "Fresh"]
    BY <1>5 DEF StartNew
  <2> HIDE DEF c
  <2>2. /\ app' \in AppType /\ app'.provider = app.provider /\ app'.alias = app.alias
        /\ app'.pointer = c.id /\ app'.conversation = c
        /\ app'.turn = TurnIs("Idle") /\ app'.shown = {}
        /\ app'.picker = app.picker /\ app'.authOp = app.authOp
    BY <1>0, <2>1, SessionBegunType
  <2>3. ~TurnActive(app')
    BY <2>2 DEF TurnActive, TurnIs
  <2> QED BY <1>0, <1>3, <2>1, <2>2, <2>3
<1>6. CASE registration # "failed" /\ ~begun
  <2>1. /\ app' = app /\ effect' = "none"
        /\ attached' = attached /\ record' = [record EXCEPT ![s] = "Fresh"]
    BY <1>6 DEF StartNew
  <2> QED BY <1>0, <1>1, <1>3, <2>1
<1> QED BY <1>4, <1>5, <1>6

\* What every step keeps of the screen.
ScreenOK == ScreenTypeOK /\ ScreenInv /\ PointerFollows

\* A step that activates no turn, begins no login and opens no picker keeps it.
LEMMA ScreenSimply ==
  ASSUME ScreenOK, app' \in AppType, app'.provider = app.provider,
         app'.picker \in {app.picker, "closed"},
         app'.authOp # "login" \/ app'.authOp = app.authOp,
         app'.turn = app.turn \/ ~TurnActive(app'),
         \/ UNCHANGED <<effect, nextTurn>> /\ app'.turn = app.turn /\ app'.authOp = app.authOp
         \/ effect' \notin {"send", "startNew"},
         \/ app'.pointer = app.pointer /\ app'.conversation = app.conversation
         \/ app'.provider = "Claude" => app'.pointer = app'.conversation.id,
         saved' \in PreferencesType, effect' \in Effects, deaf' \in BOOLEAN,
         unresolved' \subseteq Sessions, attached' \subseteq Sessions
  PROVE  ScreenOK'
<1>1. ScreenInv'
  BY ScreenKept DEF ScreenOK
<1>2. PointerFollows'
  BY DEF ScreenOK, PointerFollows
<1>3. ScreenTypeOK'
  BY DEF ScreenTypeOK
<1> QED BY <1>1, <1>2, <1>3 DEF ScreenOK

\* An event keeps it.
LEMMA ScreenReduced ==
  ASSUME ScreenOK, NEW e \in EventType, NEW text, app' = Reduced(app, e, text),
         effect' \in Effects \ {"send", "startNew"},
         UNCHANGED <<saved, deaf, unresolved, attached>>
  PROVE  ScreenOK'
<1>0. app \in AppType /\ e.session \in Sessions
  BY DEF ScreenOK, ScreenTypeOK, EventType
<1>1. /\ app' \in AppType /\ app'.provider = app.provider /\ app'.picker = app.picker
      /\ app'.authOp = app.authOp
  BY <1>0, ReducedType
<1>2. \/ /\ e.kind = "TurnStarted" /\ Accepts(app, e)
         /\ app'.conversation = Ready(e.session) /\ app'.pointer = e.session
         /\ app'.turn = Streaming(e.session, e.turn)
      \/ /\ app'.conversation = app.conversation /\ app'.pointer = app.pointer
         /\ app'.turn = app.turn \/ ~TurnActive(app')
      \/ /\ e.uncertain /\ ~TurnActive(app')
         /\ app'.conversation = Uncertain(e.session) /\ app'.pointer = e.session
  BY <1>0, ReducedType
<1>3. /\ saved' \in PreferencesType /\ effect' \in Effects /\ deaf' \in BOOLEAN
      /\ unresolved' \subseteq Sessions /\ attached' \subseteq Sessions
  BY DEF ScreenOK, ScreenTypeOK
<1>4. CASE /\ e.kind = "TurnStarted" /\ Accepts(app, e)
           /\ app'.conversation = Ready(e.session) /\ app'.pointer = e.session
           /\ app'.turn = Streaming(e.session, e.turn)
  <2>1. PointerFollows'
    BY <1>4 DEF PointerFollows, Ready
  <2>2. app.picker = "closed" /\ app.authOp # "login" /\ app.provider = "Claude"
    BY <1>4 DEF Accepts, ScreenOK, ScreenInv, TurnActive
  <2>3. ScreenInv'
    BY <1>1, <2>2 DEF ScreenInv
  <2> QED BY <1>1, <1>3, <2>1, <2>3 DEF ScreenOK, ScreenTypeOK
<1>5. CASE /\ app'.conversation = app.conversation /\ app'.pointer = app.pointer
           /\ app'.turn = app.turn \/ ~TurnActive(app')
  BY <1>1, <1>3, <1>5, ScreenSimply
<1>6. CASE /\ ~TurnActive(app')
           /\ app'.conversation = Uncertain(e.session) /\ app'.pointer = e.session
  <2>1. app'.pointer = app'.conversation.id
    BY <1>6 DEF Uncertain
  <2> QED BY <1>1, <1>3, <1>6, <2>1, ScreenSimply
<1> QED BY <1>2, <1>4, <1>5, <1>6

\* A control operation that fails keeps it.
LEMMA ScreenFailed ==
  ASSUME ScreenOK, NEW a \in AppType, app' = OperationFailed(a), SameConversation(app, a),
         a.turn = app.turn, a.picker = app.picker,
         effect' \in Effects \ {"send", "startNew"},
         UNCHANGED <<saved, deaf, unresolved, attached>>
  PROVE  ScreenOK'
<1>1. /\ app' \in AppType /\ SameConversation(a, app') /\ app'.picker = a.picker
      /\ app'.authOp = "idle"
      /\ app'.turn = a.turn \/ app'.turn.kind = "Failed"
  BY OperationFailedType
<1>2. app'.turn = app.turn \/ ~TurnActive(app')
  BY <1>1 DEF TurnActive
<1>3. /\ app'.provider = app.provider /\ app'.picker = app.picker
      /\ app'.pointer = app.pointer /\ app'.conversation = app.conversation
  BY <1>1 DEF SameConversation
<1>4. /\ saved' \in PreferencesType /\ effect' \in Effects /\ deaf' \in BOOLEAN
      /\ unresolved' \subseteq Sessions /\ attached' \subseteq Sessions
  BY DEF ScreenOK, ScreenTypeOK
<1> QED BY <1>1, <1>2, <1>3, <1>4, ScreenSimply

\* A probe that ends keeps it: what it blocks is what the pointer names.
LEMMA VerifiedKeepsScreen ==
  ASSUME ScreenOK, NEW subscribed \in BOOLEAN, app' = AuthVerified(app, subscribed),
         effect' \in Effects \ {"send", "startNew"}, attached' \subseteq Sessions,
         UNCHANGED <<saved, deaf, unresolved>>
  PROVE  ScreenOK'
<1>0. app \in AppType
  BY DEF ScreenOK, ScreenTypeOK
<1>1. /\ app' \in AppType /\ app'.provider = app.provider /\ app'.picker = app.picker
      /\ app'.authOp = "idle" /\ app'.turn = app.turn /\ app'.pointer = app.pointer
      /\ \/ app'.conversation = app.conversation
         \/ app'.conversation = Blocked(app.pointer)
  BY <1>0, AuthVerifiedType
<1>2. \/ app'.pointer = app.pointer /\ app'.conversation = app.conversation
      \/ app'.pointer = app'.conversation.id
  BY <1>1 DEF Blocked
<1>3. /\ saved' \in PreferencesType /\ effect' \in Effects /\ deaf' \in BOOLEAN
      /\ unresolved' \subseteq Sessions /\ attached' \subseteq Sessions
  BY DEF ScreenOK, ScreenTypeOK
<1> QED BY <1>1, <1>2, <1>3, ScreenSimply

\* The screen after an effect of sending or of /new.
LEMMA SendKeepsScreen ==
  ASSUME TypeOK, ScreenOK, StreamInv,
         \/ Send
         \/ \E s \in Sessions, registration \in Commits("registration"),
               pointer \in Commits("preferences") : StartNew(s, registration, pointer)
  PROVE  ScreenOK'
<1> USE DEF Effects
<1>0. /\ app \in AppType /\ saved \in PreferencesType /\ effect \in Effects /\ deaf \in BOOLEAN
      /\ unresolved \subseteq Sessions /\ attached \subseteq Sessions /\ ScreenInv
      /\ effect = "send" => TurnActive(app) /\ app.authOp = "idle"
  BY DEF ScreenOK, ScreenTypeOK, ScreenInv, TurnActive
<1>1. CASE SendUnauthenticated
  <2> DEFINE a == [app EXCEPT !.subscribed = FALSE, !.authOp = "idle"]
  <2>1. /\ a \in AppType /\ a.turn = app.turn /\ a.picker = app.picker
        /\ SameConversation(app, a)
    BY <1>0 DEF AppType, SameConversation
  <2>2. /\ app' = OperationFailed(a) /\ effect' = "none"
        /\ UNCHANGED <<saved, deaf, unresolved, attached>>
    BY <1>1 DEF SendUnauthenticated
  <2> HIDE DEF a
  <2> QED BY <2>1, <2>2, ScreenFailed
<1>2. ASSUME NEW s \in Sessions, NEW registration, NEW pointer,
             SendCreates(s, registration, pointer)
      PROVE  ScreenOK'
  <2>1. /\ app' \in AppType /\ app'.provider = app.provider
        /\ app'.picker = app.picker /\ app'.authOp = app.authOp
        /\ saved' \in PreferencesType
        /\ \/ /\ app'.conversation = Ready(s) /\ app'.pointer = s /\ effect' = "send"
              /\ app'.turn = app.turn /\ attached' = attached \cup {s}
           \/ /\ app'.conversation = Uncertain(s) /\ app'.pointer = s
              /\ effect' \in {"none", "persistIntent"}
              /\ ~TurnActive(app') /\ attached' = attached \cup {s}
           \/ /\ app'.conversation = app.conversation /\ app'.pointer = app.pointer
              /\ effect' = "none"
              /\ ~TurnActive(app') /\ attached' = attached
    BY <1>0, <1>2, CreatesScreen
  <2>2. /\ effect = "send" /\ deaf' = deaf /\ unresolved' = unresolved /\ nextTurn' = nextTurn
    BY <1>2 DEF SendCreates
  <2>3. /\ deaf' \in BOOLEAN /\ unresolved' \subseteq Sessions /\ attached' \subseteq Sessions
        /\ effect' \in Effects
    BY <1>0, <2>1, <2>2
  <2>4. \/ app'.pointer = app.pointer /\ app'.conversation = app.conversation
        \/ app'.pointer = app'.conversation.id
    BY <2>1 DEF Ready, Uncertain
  <2>5. \/ effect' = effect /\ app'.turn = app.turn
        \/ effect' \notin {"send", "startNew"} /\ ~TurnActive(app')
    BY <2>1, <2>2
  <2> QED BY <2>1, <2>2, <2>3, <2>4, <2>5, ScreenSimply
<1>3. CASE SendRefused
  <2>1. /\ app' = OperationFailed(app) /\ effect' = "none"
        /\ UNCHANGED <<saved, deaf, unresolved, attached>>
    BY <1>3 DEF SendRefused
  <2> QED BY <1>0, <2>1, ScreenFailed DEF SameConversation
<1>4. ASSUME NEW s \in Sessions, SendLaunches(s) \/ SendStartsInline(s)
      PROVE  ScreenOK'
  <2>1. /\ UNCHANGED <<app, saved, deaf, unresolved, attached>>
        /\ effect' = "none" \/ effect' = "sendInline"
    BY <1>4 DEF SendLaunches, SendStartsInline, Prepares
  <2> QED BY <1>0, <2>1, ScreenSimply
<1>5. CASE SendFinishesInline
  <2>1. /\ UNCHANGED <<app, saved, deaf, attached>> /\ effect' = "none"
        /\ unresolved' = unresolved \cup {session}
    BY <1>5 DEF SendFinishesInline
  <2>2. session \in Sessions
    BY <1>5 DEF SendFinishesInline, StreamInv, Issued
  <2> QED BY <1>0, <2>1, <2>2, ScreenSimply
<1>6. ASSUME NEW s \in Sessions, NEW registration, NEW pointer,
             StartNew(s, registration, pointer)
      PROVE  ScreenOK'
  <2>1. /\ app' \in AppType /\ app'.provider = app.provider
        /\ app'.picker = app.picker /\ app'.authOp = app.authOp /\ effect' = "none"
        /\ saved' \in PreferencesType /\ ~TurnActive(app')
        /\ \/ /\ app'.conversation = Ready(s) \/ app'.conversation = Uncertain(s)
              /\ app'.pointer = s /\ attached' = attached \cup {s}
           \/ /\ app'.conversation = app.conversation /\ app'.pointer = app.pointer
              /\ attached' = attached
    BY <1>0, <1>6, NewScreen
  <2>2. deaf' = deaf /\ unresolved' = unresolved
    BY <1>6 DEF StartNew
  <2>3. \/ app'.pointer = app.pointer /\ app'.conversation = app.conversation
        \/ app'.pointer = app'.conversation.id
    BY <2>1 DEF Ready, Uncertain
  <2>4. attached' \subseteq Sessions
    BY <1>0, <2>1
  <2> QED BY <1>0, <2>1, <2>2, <2>3, <2>4, ScreenSimply
<1> QED BY <1>1, <1>2, <1>3, <1>4, <1>5, <1>6 DEF Send

\* The screen after an intent.
LEMMA IntentKeepsScreen ==
  ASSUME TypeOK, ScreenOK, StreamInv, Intent
  PROVE  ScreenOK'
<1> USE DEF Effects
<1>0. /\ app \in AppType /\ saved \in PreferencesType /\ effect \in Effects /\ deaf \in BOOLEAN
      /\ unresolved \subseteq Sessions /\ attached \subseteq Sessions /\ ScreenInv
      /\ PointerFollows
  BY DEF ScreenOK, ScreenTypeOK
<1>a. \A kind \in {"Idle", "Starting", "Streaming"} \cup Outcomes :
        TurnIs(kind) \in [kind : {"Idle", "Starting", "Streaming"} \cup Outcomes,
                          session : SomeSession, turn : SomeTurn]
  BY DEF TurnIs, SomeSession, SomeTurn
<1>b. NoConversation \in ConversationType /\ NoSession \in SomeSession
  BY ConversationsType DEF SomeSession
<1>1. CASE SendMessage
  <2>1. /\ app' = [app EXCEPT !.turn = TurnIs("Starting")] /\ effect' = "send"
        /\ UNCHANGED <<saved, deaf, unresolved, attached, nextTurn>>
        /\ MaySend(app) /\ nextTurn \in Turns
    BY <1>1 DEF SendMessage, serviceVars, IdsLeft
  <2>2. /\ app' \in AppType /\ app'.provider = app.provider /\ app'.picker = app.picker
        /\ app'.authOp = app.authOp /\ app'.turn.kind = "Starting"
        /\ app'.pointer = app.pointer /\ app'.conversation = app.conversation
    BY <1>0, <1>a, <2>1 DEF AppType, TurnIs
  <2>3. ScreenInv' /\ PointerFollows'
    BY <1>0, <2>1, <2>2 DEF ScreenInv, PointerFollows, MaySend
  <2> QED BY <1>0, <2>1, <2>2, <2>3 DEF ScreenOK, ScreenTypeOK
<1>2. CASE NewThread
  <2>1. /\ UNCHANGED <<app, saved, deaf, unresolved, attached, nextTurn>>
        /\ effect' = "startNew" /\ app.provider = "Claude" /\ ~TurnActive(app)
        /\ app.authOp = "idle"
    BY <1>2 DEF NewThread, serviceVars
  <2>2. ScreenInv' /\ PointerFollows'
    BY <1>0, <2>1 DEF ScreenInv, PointerFollows, TurnActive
  <2> QED BY <1>0, <2>1, <2>2 DEF ScreenOK, ScreenTypeOK
<1>3. CASE Interrupt
  <2>1. /\ app' = OperationFailed(app) \/ app' = app
        /\ UNCHANGED <<saved, effect, deaf, unresolved, attached>> /\ effect = "none"
    BY <1>3 DEF Interrupt, CoordinatorFree
  <2>2. CASE app' = app
    BY <1>0, <2>1, <2>2, ScreenSimply
  <2>3. CASE app' = OperationFailed(app)
    BY <1>0, <2>1, <2>3, ScreenFailed DEF SameConversation
  <2> QED BY <2>1, <2>2, <2>3
<1>4. ASSUME NEW alias \in Aliases, SelectAlias(alias)
      PROVE  ScreenOK'
  <2>1. /\ effect' = "persistIntent" /\ UNCHANGED <<saved, deaf, unresolved, attached>>
        /\ app' = IF alias = app.alias THEN [app EXCEPT !.picker = "closed"]
                  ELSE [app EXCEPT !.picker = "closed", !.alias = alias, !.shown = {},
                                   !.conversation = NoConversation, !.pointer = NoSession]
    BY <1>4 DEF SelectAlias
  <2>2. CASE alias = app.alias
    <3>1. /\ app' \in AppType /\ app'.provider = app.provider /\ app'.picker = "closed"
          /\ app'.authOp = app.authOp /\ app'.turn = app.turn
          /\ app'.pointer = app.pointer /\ app'.conversation = app.conversation
      BY <1>0, <2>1, <2>2 DEF AppType
    <3> QED BY <1>0, <2>1, <3>1, ScreenSimply
  <2>3. CASE alias # app.alias
    <3>1. app' \in AppType
      BY <1>0, <1>b, <2>1, <2>3 DEF AppType, ConversationType
    <3>2. /\ app'.provider = app.provider /\ app'.picker = "closed"
          /\ app'.authOp = app.authOp /\ app'.turn = app.turn
          /\ app'.pointer = app'.conversation.id
      BY <1>0, <2>1, <2>3 DEF AppType, NoConversation
    <3> QED BY <1>0, <2>1, <3>1, <3>2, ScreenSimply
  <2> QED BY <2>2, <2>3
<1>5. ASSUME NEW provider \in Providers, SwitchProvider(provider)
      PROVE  ScreenOK'
  <2>1. PICK alias \in Aliases :
          app' = [app EXCEPT !.provider = provider, !.alias = alias,
                             !.conversation = NoConversation, !.pointer = NoSession,
                             !.turn = TurnIs("Idle"), !.shown = {}, !.picker = "closed"]
    BY <1>5 DEF SwitchProvider
  <2>2. effect' = "persistIntent" /\ UNCHANGED <<saved, deaf, unresolved, attached>>
    BY <1>5 DEF SwitchProvider
  <2>3. app' \in AppType
    BY <1>0, <1>a, <1>b, <2>1 DEF AppType, ConversationType
  <2>4. app'.turn.kind = "Idle" /\ app'.pointer = app'.conversation.id
    BY <1>0, <2>1 DEF AppType, NoConversation, TurnIs
  <2> QED BY <1>0, <2>2, <2>3, <2>4
      DEF ScreenOK, ScreenTypeOK, ScreenInv, PointerFollows, TurnActive
<1>6. CASE Resume
  <2>1. PICK phase \in {"ready", "failed"} : app' = [app EXCEPT !.picker = phase]
    BY <1>6 DEF Resume
  <2>2. /\ UNCHANGED <<saved, effect, deaf, unresolved, attached>>
        /\ effect = "none" /\ ~TurnActive(app)
    BY <1>6 DEF Resume, CoordinatorFree
  <2>3. /\ app' \in AppType /\ app'.provider = app.provider /\ app'.turn = app.turn
        /\ app'.pointer = app.pointer /\ app'.conversation = app.conversation
    BY <1>0, <2>1 DEF AppType
  <2> QED BY <1>0, <2>2, <2>3 DEF ScreenOK, ScreenTypeOK, ScreenInv, PointerFollows, TurnActive
<1>7. CASE PickerClose
  <2>1. /\ UNCHANGED <<saved, effect, deaf, unresolved, attached>>
        /\ effect = "none" /\ app' = [app EXCEPT !.picker = "closed"]
    BY <1>7 DEF PickerClose, CoordinatorFree
  <2>2. /\ app' \in AppType /\ app'.provider = app.provider /\ app'.picker = "closed"
        /\ app'.authOp = app.authOp /\ app'.turn = app.turn
        /\ app'.pointer = app.pointer /\ app'.conversation = app.conversation
    BY <1>0, <2>1 DEF AppType
  <2> QED BY <1>0, <2>1, <2>2, ScreenSimply
<1>8. CASE PickerSelectOther
  <2>1. /\ UNCHANGED <<saved, deaf, unresolved, attached>> /\ effect' = "persistIntent"
        /\ app' = [app EXCEPT !.provider = "Other", !.pointer = NoSession, !.picker = "closed",
                              !.turn = TurnIs("Idle"), !.shown = {}]
    BY <1>8 DEF PickerSelectOther
  <2>2. app' \in AppType /\ app'.turn.kind = "Idle" /\ app'.provider = "Other"
    BY <1>0, <1>a, <1>b, <2>1 DEF AppType, TurnIs, Providers
  <2> QED BY <1>0, <2>1, <2>2
      DEF ScreenOK, ScreenTypeOK, ScreenInv, PointerFollows, TurnActive
<1>9. ASSUME NEW s \in Sessions, PickerSelect(s)
      PROVE  ScreenOK'
  <2>1. PICK alias \in Aliases :
          app' = [app EXCEPT !.provider = "Claude", !.alias = alias, !.picker = "closed",
                             !.conversation = Ready(s), !.pointer = s,
                             !.turn = TurnIs("Idle"), !.shown = TurnsOf(s)]
    BY <1>9 DEF PickerSelect
  <2>2. /\ effect' = "persistIntent" /\ UNCHANGED <<saved, deaf>>
        /\ unresolved' = unresolved \ {s} /\ attached' = attached \cup {s}
    BY <1>9 DEF PickerSelect
  <2>3. Ready(s) \in ConversationType /\ TurnsOf(s) \in SUBSET Turns /\ s \in SomeSession
    BY ConversationsType DEF TurnsOf, SomeSession
  <2>4. app' \in AppType
    BY <1>0, <1>a, <2>1, <2>3 DEF AppType, ConversationType, Providers
  <2>5. app'.turn.kind = "Idle" /\ app'.pointer = app'.conversation.id
    BY <1>0, <2>1 DEF AppType, Ready, TurnIs
  <2> QED BY <1>0, <2>2, <2>4, <2>5
      DEF ScreenOK, ScreenTypeOK, ScreenInv, PointerFollows, TurnActive
<1>10. ASSUME NEW s \in Sessions, PickerDelete(s)
       PROVE  ScreenOK'
  <2>1. UNCHANGED <<app, saved, effect, deaf, unresolved, attached, nextTurn>>
    BY <1>10 DEF PickerDelete
  <2> QED BY <1>0, <2>1, ScreenSimply
<1>11. CASE LoginClaude
  <2>1. /\ UNCHANGED <<saved, effect, deaf, unresolved, attached>>
        /\ effect = "none" /\ ~TurnActive(app)
        /\ app' = [app EXCEPT !.authOp = "login", !.picker = "closed"]
    BY <1>11 DEF LoginClaude, CoordinatorFree
  <2>2. /\ app' \in AppType /\ app'.provider = app.provider /\ app'.turn = app.turn
        /\ app'.pointer = app.pointer /\ app'.conversation = app.conversation
    BY <1>0, <2>1 DEF AppType
  <2> QED BY <1>0, <2>1, <2>2 DEF ScreenOK, ScreenTypeOK, ScreenInv, PointerFollows, TurnActive
<1>12. CASE LogoutClaude
  <2>1. /\ UNCHANGED <<app, saved, deaf, unresolved, attached, nextTurn>> /\ effect' = "drain"
    BY <1>12 DEF LogoutClaude
  <2> QED BY <1>0, <2>1, ScreenSimply
<1>13. CASE RefreshClaude
  <2>1. /\ UNCHANGED <<saved, effect, deaf, unresolved, attached>> /\ effect = "none"
        /\ \/ app' = OperationFailed([app EXCEPT !.authOp = "checking", !.subscribed = FALSE])
           \/ \E subscribed \in BOOLEAN : app' = AuthVerified(app, subscribed)
    BY <1>13 DEF RefreshClaude, CoordinatorFree
  <2>2. CASE app' = OperationFailed([app EXCEPT !.authOp = "checking", !.subscribed = FALSE])
    <3> DEFINE a == [app EXCEPT !.authOp = "checking", !.subscribed = FALSE]
    <3>1. /\ a \in AppType /\ a.turn = app.turn /\ a.picker = app.picker
          /\ SameConversation(app, a) /\ app' = OperationFailed(a)
      BY <1>0, <2>2 DEF AppType, SameConversation
    <3> HIDE DEF a
    <3> QED BY <2>1, <3>1, ScreenFailed
  <2>3. ASSUME NEW subscribed \in BOOLEAN, app' = AuthVerified(app, subscribed)
        PROVE  ScreenOK'
    BY <1>0, <2>1, <2>3, VerifiedKeepsScreen
  <2> QED BY <2>1, <2>2, <2>3
<1> QED BY <1>1, <1>2, <1>3, <1>4, <1>5, <1>6, <1>7, <1>8, <1>9, <1>10, <1>11, <1>12, <1>13
    DEF Intent

\* No step of the system breaks what holds of the screen.
LEMMA ScreenStep ==
  ASSUME TypeOK, ScreenOK, StreamInv, [Next]_vars
  PROVE  ScreenOK'
<1> USE DEF Effects
<1>0. /\ app \in AppType /\ saved \in PreferencesType /\ effect \in Effects /\ deaf \in BOOLEAN
      /\ unresolved \subseteq Sessions /\ attached \subseteq Sessions /\ ScreenInv
      /\ PointerFollows
  BY DEF ScreenOK, ScreenTypeOK
<1>1. CASE Intent
  BY <1>1, IntentKeepsScreen
<1>2. CASE AuthFinished
  <2>1. /\ UNCHANGED <<saved, effect, deaf, unresolved>> /\ effect = "none"
        /\ attached' = {} \/ attached' = attached
        /\ \/ app' = OperationFailed([app EXCEPT !.authOp = "checking"]) /\ attached' = attached
           \/ \E subscribed \in BOOLEAN :
                \/ app' = AuthVerified(app, subscribed)
                \/ app' = [app EXCEPT !.authOp = "idle", !.subscribed = subscribed]
    BY <1>2 DEF AuthFinished, CoordinatorFree
  <2>2. CASE app' = OperationFailed([app EXCEPT !.authOp = "checking"]) /\ attached' = attached
    <3> DEFINE a == [app EXCEPT !.authOp = "checking"]
    <3>1. /\ a \in AppType /\ a.turn = app.turn /\ a.picker = app.picker
          /\ SameConversation(app, a) /\ app' = OperationFailed(a)
      BY <1>0, <2>2 DEF AppType, SameConversation
    <3> HIDE DEF a
    <3> QED BY <2>1, <2>2, <3>1, ScreenFailed
  <2>3. ASSUME NEW subscribed \in BOOLEAN, app' = AuthVerified(app, subscribed)
        PROVE  ScreenOK'
    <3>1. attached' \subseteq Sessions
      BY <1>0, <2>1
    <3> QED BY <2>1, <2>3, <3>1, VerifiedKeepsScreen
  <2>4. ASSUME NEW subscribed \in BOOLEAN,
               app' = [app EXCEPT !.authOp = "idle", !.subscribed = subscribed]
        PROVE  ScreenOK'
    <3>1. /\ app' \in AppType /\ app'.provider = app.provider /\ app'.picker = app.picker
          /\ app'.authOp = "idle" /\ app'.turn = app.turn
          /\ app'.pointer = app.pointer /\ app'.conversation = app.conversation
      BY <1>0, <2>4 DEF AppType
    <3>2. attached' \subseteq Sessions
      BY <1>0, <2>1
    <3> QED BY <1>0, <2>1, <3>1, <3>2, ScreenSimply
  <2> QED BY <2>1, <2>2, <2>3, <2>4
<1>3. CASE Execute
  <2>1. CASE DrainReceives
    <3>1. PICK text : app' = Reduced(app, Head(queue), text)
      BY <2>1 DEF DrainReceives
    <3>2. /\ UNCHANGED <<saved, deaf, unresolved, attached>> /\ queue # <<>>
          /\ effect' = "drain" \/ effect' = "drainPersist"
      BY <2>1 DEF DrainReceives, Draining, Stream!Receive
    <3>3. Head(queue) \in EventType
      BY <3>2, HeadIsEvent
    <3> QED BY <3>1, <3>2, <3>3, ScreenReduced
  <2>2. CASE DrainEnds
    <3>1. /\ UNCHANGED <<saved, deaf, unresolved, attached>>
          /\ effect' = "persistIntent" \/ effect' = "none"
          /\ app' = [app EXCEPT !.subscribed = FALSE, !.authOp = "logout", !.picker = "closed"]
      BY <2>2 DEF DrainEnds
    <3>2. /\ app' \in AppType /\ app'.provider = app.provider /\ app'.picker = "closed"
          /\ app'.authOp = "logout" /\ app'.turn = app.turn
          /\ app'.pointer = app.pointer /\ app'.conversation = app.conversation
      BY <1>0, <3>1 DEF AppType
    <3> QED BY <1>0, <3>1, <3>2, ScreenSimply
  <2>3. CASE Persist
    <3>1. /\ saved' = saved \/ saved' = Preferences(app)
          /\ deaf' = deaf \/ deaf' = (deaf \/ effect = "persistEvent")
          /\ effect' = "none" /\ UNCHANGED <<app, unresolved, attached>>
      BY <2>3 DEF Persist
    <3>2. saved' \in PreferencesType /\ deaf' \in BOOLEAN
      BY <1>0, <3>1, PreferencesAreTyped
    <3> QED BY <1>0, <3>1, <3>2, ScreenSimply
  <2> QED BY <1>3, <2>1, <2>2, <2>3, SendKeepsScreen DEF Execute
<1>4. CASE Task
  <2>1. UNCHANGED <<app, saved, effect, deaf, nextTurn, attached>>
    BY <1>4 DEF Task, TaskBegins, TaskInitializes, TaskSpeaks, TaskFinishes, TaskKeeps
  <2>2. unresolved' \subseteq Sessions
    <3>1. \/ unresolved' = unresolved
          \/ TaskRunning /\ unresolved' = unresolved \cup {active.session}
      BY <1>4 DEF Task, TaskBegins, TaskInitializes, TaskSpeaks, TaskFinishes, TaskRunning
    <3> QED BY <1>0, <3>1 DEF StreamInv, Issued
  <2> QED BY <1>0, <2>1, <2>2, ScreenSimply
<1>5. CASE Receive
  <2>1. PICK text : app' = Reduced(app, Head(queue), text)
    BY <1>5 DEF Receive
  <2>2. /\ UNCHANGED <<saved, deaf, unresolved, attached>> /\ queue # <<>>
        /\ effect' = "none" \/ effect' = "persistEvent"
    BY <1>5 DEF Receive, Stream!Receive
  <2>3. Head(queue) \in EventType
    BY <2>2, HeadIsEvent
  <2> QED BY <2>1, <2>2, <2>3, ScreenReduced
<1>6. CASE CodexSafetyViolation
  <2> DEFINE kind == IF TurnActive(app) THEN "Failed" ELSE app.turn.kind
             picker == IF app.picker = "closed" THEN app.picker ELSE "failed"
  <2>1. /\ UNCHANGED <<saved, effect, deaf, unresolved, attached, nextTurn>> /\ effect = "none"
        /\ app' = [app EXCEPT !.turn.kind = kind, !.picker = picker]
    BY <1>6 DEF CodexSafetyViolation, CoordinatorFree, serviceVars
  <2>2. /\ kind \in {"Idle"} \cup Outcomes /\ kind \notin {"Starting", "Streaming"}
        /\ picker \in {"closed", "ready", "failed"}
    BY <1>0 DEF AppType, TurnActive, Outcomes
  <2> HIDE DEF kind, picker
  <2>3. [app.turn EXCEPT !.kind = kind] \in
          [kind : {"Idle", "Starting", "Streaming"} \cup Outcomes,
           session : SomeSession, turn : SomeTurn]
    BY <1>0, <2>2 DEF AppType
  <2>4. /\ app' \in AppType /\ app'.provider = app.provider
        /\ app'.pointer = app.pointer /\ app'.conversation = app.conversation
    BY <1>0, <2>1, <2>2, <2>3 DEF AppType
  <2>5. ~TurnActive(app')
    BY <1>0, <2>1, <2>2 DEF AppType, TurnActive
  <2>6. ScreenInv'
    BY <1>0, <2>1, <2>5 DEF ScreenInv
  <2>7. PointerFollows'
    BY <1>0, <2>4 DEF PointerFollows
  <2> QED BY <1>0, <2>1, <2>4, <2>6, <2>7 DEF ScreenOK, ScreenTypeOK
<1>7. CASE Quit \/ Crash
  <2>1. saved' \in PreferencesType /\ Restarts
    BY <1>7, RestartsFile DEF ScreenOK
  <2>2. /\ app' \in AppType /\ ~TurnActive(app')
        /\ app'.provider = "Claude" => app'.pointer = app'.conversation.id
        /\ effect' = "none" /\ deaf' = FALSE /\ attached' = {} /\ unresolved' = unresolved
    BY <2>1, RestartsScreen
  <2>3. ScreenInv' /\ PointerFollows'
    BY <2>2 DEF ScreenInv, PointerFollows
  <2> QED BY <1>0, <2>1, <2>2, <2>3 DEF ScreenOK, ScreenTypeOK
<1>8. CASE UNCHANGED vars
  <2>1. UNCHANGED <<app, saved, effect, deaf, unresolved, attached, nextTurn>>
    BY <1>8 DEF vars, serviceVars
  <2> QED BY <1>0, <2>1, ScreenSimply
<1> QED BY <1>1, <1>2, <1>3, <1>4, <1>5, <1>6, <1>7, <1>8 DEF Next

-----------------------------------------------------------------------------
(* The task, the queue and the turns handed out.                           *)

ServiceOK == ServiceTypeOK /\ StreamInv

\* What a queue has once event e was sent.
LEMMA Said ==
  ASSUME queue \in Seq(EventType), NEW e \in EventType, queue' = Append(queue, e)
  PROVE  /\ queue' \in Seq(EventType) /\ Len(queue) \in Nat
         /\ DOMAIN queue = 1 .. Len(queue) /\ DOMAIN queue' = 1 .. Len(queue) + 1
         /\ Len(queue') = Len(queue) + 1 /\ queue'[Len(queue) + 1] = e
         /\ \A k \in DOMAIN queue : k \in DOMAIN queue' /\ queue'[k] = queue[k]
OBVIOUS

\* The queue after an event of a turn that was handed out.
LEMMA QueueGrows ==
  ASSUME queue \in Seq(EventType), QueueInv, NEW e \in EventType, queue' = Append(queue, e),
         \A t \in Turns, s \in Sessions : Issued(t, s) => Issued(t, s)',
         Issued(e.turn, e.session)',
         \/ e.kind = "TurnStarted" /\ current = NoTurn /\ current' = e.turn
         \/ e.kind \in {"Initialized", "TextDelta"} /\ current' = current
         \/ e.kind = "TurnFinished" /\ e.turn = current
  PROVE  QueueInv'
<1>0. PICK n \in Nat : n = Len(queue) + 1
  BY Said
<1>1. /\ Len(queue) \in Nat /\ DOMAIN queue = 1 .. Len(queue) /\ DOMAIN queue' = 1 .. n
      /\ queue'[n] = e
      /\ \A k \in DOMAIN queue : k \in DOMAIN queue' /\ queue'[k] = queue[k]
  BY <1>0, Said
<1>2. \A k \in DOMAIN queue : queue[k] \in EventType
  OBVIOUS
<1>3. ASSUME NEW k \in DOMAIN queue'
      PROVE  /\ Issued(queue[k].turn, queue[k].session)'
             /\ queue'[k].kind = "TurnStarted" =>
                  \/ current' = queue'[k].turn
                  \/ \E j \in DOMAIN queue' : j > k /\ Ends(j, queue[k].turn)'
  <2>1. CASE k = n
    BY <1>1, <2>1
  <2>2. CASE k \in DOMAIN queue
    <3>1. Issued(queue[k].turn, queue[k].session)
      BY <2>2 DEF QueueInv
    <3>2. queue'[k] = queue[k] /\ queue[k].turn \in Turns /\ queue[k].session \in Sessions
      BY <1>1, <2>2, <3>1 DEF Issued
    <3>3. Issued(queue[k].turn, queue[k].session)'
      BY <3>1, <3>2
    <3>4. ASSUME queue[k].kind = "TurnStarted"
          PROVE  \/ current' = queue'[k].turn
                 \/ \E j \in DOMAIN queue' : j > k /\ Ends(j, queue[k].turn)'
      <4>1. CASE current = queue[k].turn
        <5>1. current # NoTurn
          BY <3>2, <4>1 DEF Turns, NoTurn
        <5>2. CASE e.kind = "TurnFinished" /\ e.turn = current
          <6>1. n > k /\ n \in DOMAIN queue'
            BY <1>1, <2>2
          <6>2. Ends(n, queue[k].turn)'
            BY <1>1, <3>2, <4>1, <5>2 DEF Ends
          <6> QED BY <6>1, <6>2
        <5> QED BY <3>2, <4>1, <5>1, <5>2
      <4>2. ASSUME NEW j \in DOMAIN queue, j > k, Ends(j, queue[k].turn)
            PROVE  \E i \in DOMAIN queue' : i > k /\ Ends(i, queue[k].turn)'
        <5>1. Ends(j, queue[k].turn)' /\ j \in DOMAIN queue'
          BY <1>1, <3>2, <4>2 DEF Ends
        <5> QED BY <4>2, <5>1
      <4> QED BY <2>2, <3>4, <4>1, <4>2 DEF QueueInv
    <3> QED BY <3>2, <3>3, <3>4
  <2> QED BY <1>1, <2>1, <2>2
<1> QED BY <1>3 DEF QueueInv

\* The queue without its first event.
LEMMA QueueShrinks ==
  ASSUME TypeOK, QueueInv, queue # <<>>, queue' = Tail(queue),
         UNCHANGED <<current, nextTurn, owner>>
  PROVE  QueueInv'
<1>1. /\ Len(queue) \in Nat \ {0} /\ DOMAIN queue' = 1 .. Len(queue) - 1
      /\ DOMAIN queue = 1 .. Len(queue)
      /\ \A k \in DOMAIN queue' : k + 1 \in DOMAIN queue /\ queue'[k] = queue[k + 1]
  BY HeadIsEvent
<1>2. ASSUME NEW k \in DOMAIN queue'
      PROVE  /\ Issued(queue[k].turn, queue[k].session)'
             /\ queue'[k].kind = "TurnStarted" =>
                  \/ current' = queue'[k].turn
                  \/ \E j \in DOMAIN queue' : j > k /\ Ends(j, queue[k].turn)'
  <2>1. k + 1 \in DOMAIN queue /\ queue'[k] = queue[k + 1] /\ k \in Nat
    BY <1>1
  <2>2. Issued(queue[k].turn, queue[k].session)'
    BY <2>1 DEF QueueInv, Issued
  <2>3. ASSUME queue'[k].kind = "TurnStarted", current' # queue'[k].turn
        PROVE  \E j \in DOMAIN queue' : j > k /\ Ends(j, queue[k].turn)'
    <3>1. PICK j \in DOMAIN queue : j > k + 1 /\ Ends(j, queue[k + 1].turn)
      BY <2>1, <2>3 DEF QueueInv
    <3>2. j - 1 \in DOMAIN queue' /\ j - 1 > k /\ j - 1 + 1 = j
      BY <1>1, <2>1, <3>1
    <3>3. queue'[j - 1] = queue[j]
      BY <1>1, <3>2
    <3>4. Ends(j - 1, queue[k].turn)'
      BY <2>1, <3>1, <3>3 DEF Ends
    <3> QED BY <3>2, <3>4
  <2> QED BY <2>2, <2>3
<1> QED BY <1>2 DEF QueueInv

\* A step of the reducer or the coordinator that sends no event and hands out no turn.
LEMMA StreamKept ==
  ASSUME StreamInv, UNCHANGED <<queue, current, session, initialized, nextTurn, owner>>,
         \/ active' = active
         \/ active' = Cancelled(active) /\ active \in TaskType
         \/ active' = NoTask /\ ~TaskRunning,
         effect # "sendInline", effect' # "sendInline",
         app'.turn = app.turn \/ app'.turn.kind # "Streaming"
  PROVE  StreamInv'
<1>1. QueueInv'
  BY DEF StreamInv, QueueInv, Issued, Ends
<1>2. \/ active'.pc = active.pc /\ active'.turn = active.turn /\ active'.session = active.session
      \/ active'.pc = "none" /\ ~TaskRunning
  BY DEF Cancelled, TaskType, NoTask
<1> QED BY <1>1, <1>2 DEF StreamInv, Issued, TaskRunning

\* What settling makes of a session's file.
LEMMA SettledIsLifecycle ==
  ASSUME NEW was \in Lifecycles, NEW uncertain \in BOOLEAN,
         NEW after \in Settled(was, uncertain)
  PROVE  /\ after \in Lifecycles
         /\ after \in {was, "CreationUncertain", "Established"}
         /\ was = "Deleted" => after = "Deleted"
<1>1. CASE was \in {"Established", "Deleted"}
  BY <1>1 DEF Settled
<1>2. CASE was \notin {"Established", "Deleted"} /\ uncertain
  BY <1>2 DEF Settled, Lifecycles
<1>3. CASE was \notin {"Established", "Deleted"} /\ ~uncertain
  BY <1>3 DEF Settled, Lifecycles
<1> QED BY <1>1, <1>2, <1>3

\* What the task's steps keep of the service.
LEMMA TaskKeepsService ==
  ASSUME TypeOK, ScreenOK, ServiceOK, Task
  PROVE  ServiceOK'
<1>0. /\ active \in TaskType /\ record \in [Sessions -> Lifecycles] /\ nextTurn \in Nat
      /\ owner \in [Turns -> SomeSession] /\ queue \in Seq(EventType)
      /\ current \in SomeTurn /\ session \in SomeSession /\ initialized \in BOOLEAN
      /\ StreamInv
  BY DEF ServiceOK, ServiceTypeOK
<1>a. UNCHANGED <<app, effect, nextTurn, owner>>
  BY DEF Task, TaskBegins, TaskInitializes, TaskSpeaks, TaskFinishes, TaskKeeps
<1>b. \A t, s : Issued(t, s)' <=> Issued(t, s)
  BY <1>a DEF Issued
<1>1. CASE TaskBegins
  <2> DEFINE e0 == [kind |-> "TurnStarted", session |-> active.session, turn |-> active.turn,
                    outcome |-> "InProgress", uncertain |-> FALSE]
  <2>1. /\ active.pc = "launched" /\ active' = [active EXCEPT !.pc = "open"]
        /\ record' = record /\ current' = active.turn /\ session' = active.session
        /\ initialized' = FALSE /\ queue' = Append(queue, e0)
    BY <1>1 DEF TaskBegins, Stream!Begin, Stream!Say
  <2>2. /\ Issued(active.turn, active.session) /\ current = NoTurn
        /\ active.turn \in Turns /\ active.session \in Sessions /\ active.turn # NoTurn
    BY <1>0, <2>1 DEF StreamInv, TaskRunning, Issued, Turns, NoTurn
  <2>a. e0 \in EventType
    BY <2>2 DEF EventType, Outcomes
  <2>3. PICK e \in EventType :
          /\ queue' = Append(queue, e) /\ e.kind = "TurnStarted" /\ e.turn = active.turn
          /\ e.session = active.session
    BY <2>1, <2>a
  <2> HIDE DEF e0
  <2>4. Issued(active.turn, active.session)'
    <3>1. active'.turn = active.turn /\ active'.session = active.session
      BY <1>0, <2>1 DEF TaskType
    <3> QED BY <1>b, <2>2, <3>1 DEF Issued
  <2>5. /\ active' \in TaskType /\ active'.pc = "open" /\ active'.turn = active.turn
        /\ active'.session = active.session
    BY <1>0, <2>1 DEF TaskType
  <2>6. Issued(e.turn, e.session)'
    BY <1>a, <2>2, <2>3 DEF Issued
  <2>7. QueueInv'
    BY <1>0, <1>b, <2>1, <2>2, <2>3, <2>6, QueueGrows DEF StreamInv
  <2>8. StreamInv'
    <3>1. effect # "sendInline"
      BY <1>0, <2>1 DEF StreamInv
    <3>2. app.turn.kind = "Streaming" => Issued(app.turn.turn, app.turn.session)'
      BY <1>0, <1>a DEF StreamInv, Issued
    <3>3. Issued(current, session)'
      BY <2>1, <2>4, <2>5
    <3> QED BY <1>0, <1>a, <2>1, <2>2, <2>4, <2>5, <2>7, <3>1, <3>2, <3>3
        DEF StreamInv, TaskRunning
  <2>9. ServiceTypeOK'
    <3>1. queue' \in Seq(EventType)
      BY <1>0, <2>1, <2>3, Said
    <3> QED BY <1>0, <1>a, <2>1, <2>2, <2>5, <3>1 DEF ServiceTypeOK, SomeTurn, SomeSession
  <2> QED BY <2>8, <2>9 DEF ServiceOK
<1>2. ASSUME TaskInitializes \/ TaskSpeaks
      PROVE  ServiceOK'
  <2>1. PICK kind \in {"Initialized", "TextDelta"} :
          queue' = Append(queue, [kind |-> kind, session |-> session, turn |-> current,
                                  outcome |-> "InProgress", uncertain |-> FALSE])
    BY <1>2 DEF TaskInitializes, TaskSpeaks, Stream!Initialize, Stream!Speak, Stream!Say
  <2> DEFINE e0 == [kind |-> kind, session |-> session, turn |-> current,
                    outcome |-> "InProgress", uncertain |-> FALSE]
  <2>2. /\ active.pc = "open" /\ UNCHANGED <<active, current, session>>
        /\ initialized' \in BOOLEAN
        /\ record' = record \/ record' = [record EXCEPT ![active.session] = "Established"]
    BY <1>0, <1>2 DEF TaskInitializes, TaskSpeaks, Stream!Initialize, Stream!Speak
  <2>3. /\ current = active.turn /\ session = active.session /\ Issued(current, session)
        /\ current \in Turns /\ session \in Sessions /\ current # NoTurn
        /\ effect # "sendInline"
    BY <1>0, <2>2 DEF StreamInv, TaskRunning, Issued, Turns, NoTurn
  <2>a. e0 \in EventType
    BY <2>1, <2>3 DEF EventType, Outcomes
  <2>4. PICK e \in EventType :
          /\ queue' = Append(queue, e) /\ e.kind = kind /\ e.turn = current
          /\ e.session = session
    BY <2>1, <2>a
  <2> HIDE DEF e0
  <2>5. Issued(e.turn, e.session)'
    BY <1>a, <2>2, <2>3, <2>4 DEF Issued
  <2>6. QueueInv'
    BY <1>0, <1>b, <2>1, <2>2, <2>4, <2>5, QueueGrows DEF StreamInv
  <2>7. StreamInv'
    <3>1. Issued(current, session)' /\ Issued(active.turn, active.session)'
      BY <1>a, <2>2, <2>3 DEF Issued
    <3>2. app.turn.kind = "Streaming" => Issued(app.turn.turn, app.turn.session)'
      BY <1>0, <1>a DEF StreamInv, Issued
    <3> QED BY <1>0, <1>a, <2>2, <2>3, <2>6, <3>1, <3>2 DEF StreamInv, TaskRunning
  <2>8. ServiceTypeOK'
    <3>1. queue' \in Seq(EventType)
      BY <1>0, <2>4, Said
    <3>2. record' \in [Sessions -> Lifecycles]
      BY <1>0, <2>2 DEF Lifecycles
    <3> QED BY <1>0, <1>a, <2>2, <3>1, <3>2 DEF ServiceTypeOK
  <2> QED BY <2>7, <2>8 DEF ServiceOK
<1>3. ASSUME NEW outcome \in Outcomes \ {"InProgress"}, NEW uncertain \in BOOLEAN,
             TaskFinishes(outcome, uncertain)
      PROVE  ServiceOK'
  <2> DEFINE e0 == [kind |-> "TurnFinished", session |-> session, turn |-> current,
                    outcome |-> outcome, uncertain |-> uncertain]
  <2>1. /\ active.pc = "open" /\ active' = [active EXCEPT !.pc = "done"]
        /\ current' = NoTurn /\ session' = NoSession /\ initialized' = FALSE
        /\ queue' = Append(queue, e0)
    BY <1>3 DEF TaskFinishes, Stream!Finish, Stream!Say
  <2>2. /\ current = active.turn /\ session = active.session /\ Issued(current, session)
        /\ current \in Turns /\ session \in Sessions /\ current # NoTurn
        /\ effect # "sendInline"
    BY <1>0, <2>1 DEF StreamInv, TaskRunning, Issued, Turns, NoTurn
  <2>a. e0 \in EventType
    BY <2>2 DEF EventType, Outcomes
  <2>3. PICK e \in EventType :
          /\ queue' = Append(queue, e) /\ e.kind = "TurnFinished" /\ e.turn = current
          /\ e.session = session
    BY <2>1, <2>a
  <2> HIDE DEF e0
  <2>4. Issued(e.turn, e.session)'
    BY <1>a, <2>2, <2>3 DEF Issued
  <2>5. QueueInv'
    BY <1>0, <1>b, <2>1, <2>3, <2>4, QueueGrows DEF StreamInv
  <2>6. active' \in TaskType /\ active'.pc = "done"
    BY <1>0, <2>1 DEF TaskType
  <2>7. StreamInv'
    <3>1. app.turn.kind = "Streaming" => Issued(app.turn.turn, app.turn.session)'
      BY <1>0, <1>a DEF StreamInv, Issued
    <3> QED BY <1>0, <1>a, <2>1, <2>2, <2>5, <2>6, <3>1 DEF StreamInv, TaskRunning
  <2>8. ServiceTypeOK'
    <3>1. queue' \in Seq(EventType)
      BY <1>0, <2>1, <2>3, Said
    <3>2. record' \in [Sessions -> Lifecycles]
      <4>1. PICK after \in Settled(record[active.session], uncertain) :
              record' = [record EXCEPT ![active.session] = after]
        BY <1>3 DEF TaskFinishes
      <4>2. after \in Lifecycles
        BY <1>0, <2>2, <4>1, SettledIsLifecycle
      <4> QED BY <1>0, <4>1, <4>2
    <3> QED BY <1>0, <1>a, <2>1, <2>6, <3>1, <3>2
        DEF ServiceTypeOK, SomeTurn, SomeSession
  <2> QED BY <2>7, <2>8 DEF ServiceOK
<1> QED BY <1>1, <1>2, <1>3 DEF Task

\* Only an event makes a turn stream: an intent leaves the turn, ends it or sends a message.
LEMMA IntentsStreamNothing ==
  ASSUME app \in AppType, Intent \/ AuthFinished
  PROVE  \/ app'.turn = app.turn
         \/ ~TurnActive(app')
         \/ SendMessage /\ app'.turn = TurnIs("Starting") /\ effect' = "send"
<1>1. CASE SendMessage
  BY <1>1 DEF SendMessage, AppType
<1>2. CASE NewThread
  BY <1>2 DEF NewThread
<1>3. CASE Interrupt
  BY <1>3, OperationFailedType DEF Interrupt, TurnActive
<1>4. ASSUME NEW alias \in Aliases, SelectAlias(alias)
      PROVE  app'.turn = app.turn
  BY <1>4 DEF SelectAlias, AppType
<1>5. ASSUME NEW provider \in Providers, SwitchProvider(provider)
      PROVE  ~TurnActive(app')
  BY <1>5 DEF SwitchProvider, TurnIs, AppType, TurnActive
<1>6. ASSUME Resume \/ PickerClose \/ LoginClaude
      PROVE  app'.turn = app.turn
  BY <1>6 DEF Resume, PickerClose, LoginClaude, AppType
<1>7. ASSUME PickerSelectOther \/ \E s \in Sessions : PickerSelect(s)
      PROVE  ~TurnActive(app')
  <2>1. CASE PickerSelectOther
    BY <2>1 DEF PickerSelectOther, TurnIs, AppType, TurnActive
  <2>2. ASSUME NEW s \in Sessions, PickerSelect(s)
        PROVE  ~TurnActive(app')
    <3>1. PICK alias \in Aliases :
            app' = [app EXCEPT !.provider = "Claude", !.alias = alias, !.picker = "closed",
                               !.conversation = Ready(s), !.pointer = s,
                               !.turn = TurnIs("Idle"), !.shown = TurnsOf(s)]
      BY <2>2 DEF PickerSelect
    <3>2. app'.turn = TurnIs("Idle")
      BY <3>1 DEF AppType
    <3> QED BY <3>2 DEF TurnIs, TurnActive
  <2> QED BY <1>7, <2>1, <2>2
<1>8. ASSUME LogoutClaude \/ \E s \in Sessions : PickerDelete(s)
      PROVE  app' = app
  BY <1>8 DEF LogoutClaude, PickerDelete
<1>9. ASSUME NEW a \in AppType, a.turn = app.turn, app' = OperationFailed(a)
      PROVE  app'.turn = app.turn \/ ~TurnActive(app')
  BY <1>9, OperationFailedType DEF TurnActive
<1>10. ASSUME NEW subscribed \in BOOLEAN, app' = AuthVerified(app, subscribed)
       PROVE  app'.turn = app.turn
  BY <1>10, AuthVerifiedType
<1>11. /\ [app EXCEPT !.authOp = "checking", !.subscribed = FALSE] \in AppType
       /\ [app EXCEPT !.authOp = "checking", !.subscribed = FALSE].turn = app.turn
       /\ [app EXCEPT !.authOp = "checking"] \in AppType
       /\ [app EXCEPT !.authOp = "checking"].turn = app.turn
       /\ \A subscribed \in BOOLEAN :
            [app EXCEPT !.authOp = "idle", !.subscribed = subscribed].turn = app.turn
  BY DEF AppType
<1>12. CASE RefreshClaude
  BY <1>9, <1>10, <1>11, <1>12 DEF RefreshClaude
<1>13. CASE AuthFinished
  BY <1>9, <1>10, <1>11, <1>13 DEF AuthFinished
<1> QED BY <1>1, <1>2, <1>3, <1>4, <1>5, <1>6, <1>7, <1>8, <1>12, <1>13 DEF Intent

\* What a start finds in the sessions' files.
LEMMA RestartsRecord ==
  ASSUME ServiceOK, Restarts
  PROVE  /\ record' \in [Sessions -> Lifecycles]
         /\ \/ record' = record
            \/ /\ TaskRunning
               /\ \E after \in Lifecycles :
                    /\ record' = [record EXCEPT ![active.session] = after]
                    /\ after \in {record[active.session], "CreationUncertain", "Established"}
<1>0. record \in [Sessions -> Lifecycles]
  BY DEF ServiceOK, ServiceTypeOK
<1>1. CASE ~TaskRunning
  BY <1>0, <1>1 DEF Restarts
<1>2. CASE TaskRunning
  <2>1. active.session \in Sessions
    BY <1>2 DEF ServiceOK, StreamInv, Issued
  <2>2. record' \in {[record EXCEPT ![active.session] = after] :
                       after \in UNION {Settled(record[active.session], uncertain) :
                                          uncertain \in BOOLEAN}}
    BY <1>2 DEF Restarts
  <2>a. PICK uncertain \in BOOLEAN :
          \E after \in Settled(record[active.session], uncertain) :
            record' = [record EXCEPT ![active.session] = after]
    BY <2>2
  <2>3. PICK after \in Settled(record[active.session], uncertain) :
          record' = [record EXCEPT ![active.session] = after]
    BY <2>a
  <2>4. /\ after \in Lifecycles
        /\ after \in {record[active.session], "CreationUncertain", "Established"}
    BY <1>0, <2>1, <2>3, SettledIsLifecycle
  <2> QED BY <1>0, <1>2, <2>3, <2>4
<1> QED BY <1>1, <1>2

\* A step that sends no event and hands out no turn keeps the service's state.
LEMMA ServiceSimply ==
  ASSUME ServiceOK, UNCHANGED <<queue, current, session, initialized, nextTurn, owner>>,
         \/ active' = active
         \/ active' = Cancelled(active)
         \/ active' = NoTask /\ ~TaskRunning,
         effect # "sendInline", effect' # "sendInline",
         app'.turn = app.turn \/ app'.turn.kind # "Streaming",
         record' \in [Sessions -> Lifecycles]
  PROVE  ServiceOK'
<1>1. active' \in TaskType /\ active \in TaskType
  <2>1. active \in TaskType
    BY DEF ServiceOK, ServiceTypeOK
  <2>2. Cancelled(active) \in TaskType
    BY <2>1 DEF TaskType, Cancelled
  <2>3. NoTask \in TaskType
    BY DEF TaskType, NoTask, SomeTurn, SomeSession
  <2> QED BY <2>1, <2>2, <2>3
<1>2. StreamInv'
  BY <1>1, StreamKept DEF ServiceOK
<1>3. ServiceTypeOK'
  BY <1>1 DEF ServiceOK, ServiceTypeOK
<1> QED BY <1>2, <1>3 DEF ServiceOK

\* The event received moves from the queue to the screen.
LEMMA ServiceReduced ==
  ASSUME TypeOK, ServiceOK, Stream!Receive, NEW text, app' = Reduced(app, Head(queue), text),
         UNCHANGED <<active, record, nextTurn, owner>>,
         effect # "sendInline", effect' # "sendInline"
  PROVE  ServiceOK'
<1>1. /\ queue # <<>> /\ queue' = Tail(queue) /\ UNCHANGED <<current, session, initialized>>
  BY DEF Stream!Receive
<1>2. /\ Head(queue) \in EventType /\ Tail(queue) \in Seq(EventType) /\ 1 \in DOMAIN queue
      /\ Head(queue) = queue[1]
  BY <1>1, HeadIsEvent
<1>3. QueueInv'
  BY <1>1, QueueShrinks DEF ServiceOK, StreamInv
<1>4. Issued(Head(queue).turn, Head(queue).session)
  BY <1>2 DEF ServiceOK, StreamInv, QueueInv
<1>5. \/ app'.turn = Streaming(Head(queue).session, Head(queue).turn)
      \/ app'.turn = app.turn
      \/ app'.turn.kind # "Streaming"
  BY <1>2, ReducedType DEF TypeOK, ScreenTypeOK, TurnActive
<1>6. app'.turn.kind = "Streaming" => Issued(app'.turn.turn, app'.turn.session)
  BY <1>4, <1>5 DEF ServiceOK, StreamInv, Streaming
<1>7. StreamInv'
  BY <1>1, <1>3, <1>6 DEF ServiceOK, StreamInv, Issued, TaskRunning
<1>8. ServiceTypeOK'
  BY <1>1, <1>2 DEF ServiceOK, ServiceTypeOK
<1> QED BY <1>7, <1>8 DEF ServiceOK

\* A turn is handed out.
LEMMA PreparedIsIssued ==
  ASSUME ServiceOK, ScreenInv, NEW s \in Sessions, Prepares(s)
  PROVE  /\ \A t, r : Issued(t, r) => Issued(t, r)'
         /\ \A t : t = nextTurn => Issued(t, s)'
         /\ nextTurn' \in Nat /\ owner' \in [Turns -> SomeSession]
         /\ \A t \in Turns : owner'[t] # NoSession => t < nextTurn'
         /\ nextTurn \in Turns /\ current = NoTurn /\ ~TaskRunning
         /\ UNCHANGED <<app, record>>
<1>1. /\ nextTurn' = nextTurn + 1 /\ owner' = [owner EXCEPT ![nextTurn] = s]
      /\ effect = "send" /\ ~TaskRunning /\ UNCHANGED <<app, record>>
  BY DEF Prepares
<1>2. nextTurn \in Turns /\ nextTurn \in Nat /\ owner \in [Turns -> SomeSession] /\ StreamInv
  BY <1>1 DEF ScreenInv, ServiceOK, ServiceTypeOK
<1>3. /\ owner' \in [Turns -> SomeSession] /\ owner'[nextTurn] = s
      /\ \A t \in Turns : t # nextTurn => owner'[t] = owner[t]
  BY <1>1, <1>2 DEF SomeSession
<1>4. ASSUME NEW t, NEW r, Issued(t, r)
      PROVE  Issued(t, r)'
  <2>1. t \in Turns /\ t \in Nat /\ t < nextTurn /\ r \in Sessions /\ owner[t] = r
    BY <1>4 DEF Issued, Turns
  <2>2. t < nextTurn' /\ owner'[t] = r
    BY <1>1, <1>2, <1>3, <2>1
  <2> QED BY <2>1, <2>2 DEF Issued
<1>5. ASSUME NEW t, t = nextTurn
      PROVE  Issued(t, s)'
  <2>1. t < nextTurn'
    BY <1>1, <1>2, <1>5
  <2> QED BY <1>2, <1>3, <1>5, <2>1 DEF Issued
<1>6. ASSUME NEW t \in Turns, owner'[t] # NoSession
      PROVE  t < nextTurn'
  <2>1. t \in Nat
    BY DEF Turns
  <2>2. CASE t = nextTurn
    BY <1>1, <1>2, <2>2
  <2>3. CASE t # nextTurn
    <3>1. t < nextTurn
      BY <1>2, <1>3, <1>6, <2>3 DEF StreamInv
    <3> QED BY <1>1, <1>2, <2>1, <3>1
  <2> QED BY <2>2, <2>3
<1>7. current = NoTurn
  BY <1>1, <1>2 DEF StreamInv, TaskRunning
<1> QED BY <1>1, <1>2, <1>3, <1>4, <1>5, <1>6, <1>7

\* What an effect of sending keeps of the service.
LEMMA SendKeepsService ==
  ASSUME TypeOK, ScreenOK, ServiceOK, Send
  PROVE  ServiceOK'
<1>0. /\ active \in TaskType /\ record \in [Sessions -> Lifecycles] /\ nextTurn \in Nat
      /\ owner \in [Turns -> SomeSession] /\ queue \in Seq(EventType)
      /\ current \in SomeTurn /\ session \in SomeSession /\ initialized \in BOOLEAN
      /\ StreamInv /\ ScreenInv /\ app \in AppType
  BY DEF ServiceOK, ServiceTypeOK, ScreenOK, ScreenTypeOK
<1>1. CASE SendUnauthenticated
  <2> DEFINE a == [app EXCEPT !.subscribed = FALSE, !.authOp = "idle"]
  <2>1. a \in AppType /\ a.turn = app.turn
    BY <1>0 DEF AppType
  <2>2. /\ app' = OperationFailed(a) /\ effect = "send" /\ effect' = "none"
        /\ UNCHANGED serviceVars
    BY <1>1 DEF SendUnauthenticated
  <2> HIDE DEF a
  <2>3. app'.turn = app.turn \/ app'.turn.kind # "Streaming"
    BY <2>1, <2>2, OperationFailedType
  <2> QED BY <1>0, <2>2, <2>3, ServiceSimply DEF serviceVars, streamVars
<1>2. ASSUME NEW s \in Sessions, NEW registration, NEW pointer,
             SendCreates(s, registration, pointer)
      PROVE  ServiceOK'
  <2>1. /\ app'.turn = app.turn \/ ~TurnActive(app')
        /\ effect' \in {"send", "none", "persistIntent"}
        /\ record' = record \/ record' = [record EXCEPT ![s] = "Fresh"]
    BY <1>0, <1>2, CreatesScreen
  <2>2. effect = "send" /\ UNCHANGED <<active, nextTurn, owner, streamVars>>
    BY <1>2 DEF SendCreates
  <2>3. record' \in [Sessions -> Lifecycles]
    BY <1>0, <2>1 DEF Lifecycles
  <2> QED BY <2>1, <2>2, <2>3, ServiceSimply DEF streamVars, TurnActive
<1>3. CASE SendRefused
  <2>1. /\ app' = OperationFailed(app) /\ effect = "send" /\ effect' = "none"
        /\ active' = IF TaskRunning THEN active ELSE NoTask
        /\ UNCHANGED <<record, nextTurn, owner, streamVars>>
    BY <1>3 DEF SendRefused
  <2>2. app'.turn = app.turn \/ app'.turn.kind # "Streaming"
    BY <1>0, <2>1, OperationFailedType
  <2> QED BY <1>0, <2>1, <2>2, ServiceSimply DEF streamVars
<1>4. ASSUME NEW s \in Sessions, SendLaunches(s)
      PROVE  ServiceOK'
  <2>0. Prepares(s)
    BY <1>4 DEF SendLaunches
  <2>1. /\ \A t, r : Issued(t, r) => Issued(t, r)'
        /\ \A t : t = nextTurn => Issued(t, s)'
        /\ nextTurn' \in Nat /\ owner' \in [Turns -> SomeSession]
        /\ \A t \in Turns : owner'[t] # NoSession => t < nextTurn'
        /\ nextTurn \in Turns /\ current = NoTurn /\ UNCHANGED <<app, record>>
    BY <1>0, <2>0, PreparedIsIssued
  <2>2. /\ active' = [NoTask EXCEPT !.pc = "launched", !.turn = nextTurn, !.session = s]
        /\ effect' = "none" /\ UNCHANGED <<queue, current, session, initialized>>
    BY <1>4 DEF SendLaunches, streamVars
  <2>3. /\ active' \in TaskType /\ active'.pc = "launched" /\ active'.turn = nextTurn
        /\ active'.session = s
    BY <2>1, <2>2 DEF NoTask, TaskType, SomeTurn, SomeSession
  <2>4. QueueInv'
    BY <1>0, <2>1, <2>2 DEF StreamInv, QueueInv, Ends
  <2>5. Issued(active.turn, active.session)'
    BY <2>1, <2>3
  <2>6. app'.turn.kind = "Streaming" => Issued(app.turn.turn, app.turn.session)'
    BY <1>0, <2>1 DEF StreamInv
  <2>7. StreamInv'
    BY <1>0, <2>1, <2>2, <2>3, <2>4, <2>5, <2>6 DEF StreamInv, TaskRunning
  <2>8. ServiceTypeOK'
    BY <1>0, <2>1, <2>2, <2>3 DEF ServiceTypeOK
  <2> QED BY <2>7, <2>8 DEF ServiceOK
<1>5. ASSUME NEW s \in Sessions, SendStartsInline(s)
      PROVE  ServiceOK'
  <2>0. Prepares(s)
    BY <1>5 DEF SendStartsInline
  <2>1. /\ \A t, r : Issued(t, r) => Issued(t, r)'
        /\ \A t : t = nextTurn => Issued(t, s)'
        /\ nextTurn' \in Nat /\ owner' \in [Turns -> SomeSession]
        /\ \A t \in Turns : owner'[t] # NoSession => t < nextTurn'
        /\ nextTurn \in Turns /\ current = NoTurn /\ UNCHANGED <<app, record>>
    BY <1>0, <2>0, PreparedIsIssued
  <2> DEFINE e0 == [kind |-> "TurnStarted", session |-> s, turn |-> nextTurn,
                    outcome |-> "InProgress", uncertain |-> FALSE]
  <2>2. /\ active' = NoTask /\ effect' = "sendInline"
        /\ current' = nextTurn /\ session' = s /\ initialized' = FALSE
        /\ queue' = Append(queue, e0)
    BY <1>5 DEF SendStartsInline, Stream!Begin, Stream!Say
  <2>3. e0 \in EventType
    BY <2>1 DEF EventType, Outcomes
  <2>4. PICK e \in EventType :
          /\ queue' = Append(queue, e) /\ e.kind = "TurnStarted" /\ e.turn = nextTurn
          /\ e.session = s
    BY <2>2, <2>3
  <2> HIDE DEF e0
  <2>5. Issued(e.turn, e.session)'
    BY <2>1, <2>4
  <2>6. QueueInv'
    BY <1>0, <2>1, <2>2, <2>4, <2>5, QueueGrows DEF StreamInv
  <2>7. active' \in TaskType /\ active'.pc = "none" /\ nextTurn # NoTurn
    BY <2>1, <2>2 DEF NoTask, TaskType, SomeTurn, SomeSession, Turns, NoTurn
  <2>8. Issued(current, session)'
    BY <2>1, <2>2
  <2>9. app'.turn.kind = "Streaming" => Issued(app.turn.turn, app.turn.session)'
    BY <1>0, <2>1 DEF StreamInv
  <2>10. StreamInv'
    BY <1>0, <2>1, <2>2, <2>6, <2>7, <2>8, <2>9 DEF StreamInv, TaskRunning
  <2>11. ServiceTypeOK'
    <3>1. queue' \in Seq(EventType)
      BY <1>0, <2>4, Said
    <3> QED BY <1>0, <2>1, <2>2, <2>7, <3>1 DEF ServiceTypeOK, SomeTurn, SomeSession
  <2> QED BY <2>10, <2>11 DEF ServiceOK
<1>6. CASE SendFinishesInline
  <2> DEFINE e0 == [kind |-> "TurnFinished", session |-> session, turn |-> current,
                    outcome |-> "Failed", uncertain |-> TRUE]
  <2>1. /\ effect = "sendInline" /\ effect' = "none"
        /\ UNCHANGED <<app, active, record, nextTurn, owner>>
        /\ current' = NoTurn /\ session' = NoSession /\ initialized' = FALSE
        /\ queue' = Append(queue, e0)
    BY <1>6 DEF SendFinishesInline, Stream!Finish, Stream!Say
  <2>2. /\ Issued(current, session) /\ active.pc = "none"
        /\ current \in Turns /\ session \in Sessions
    BY <1>0, <2>1 DEF StreamInv, Issued
  <2>3. e0 \in EventType
    BY <2>2 DEF EventType, Outcomes
  <2>4. PICK e \in EventType :
          /\ queue' = Append(queue, e) /\ e.kind = "TurnFinished" /\ e.turn = current
          /\ e.session = session
    BY <2>1, <2>3
  <2> HIDE DEF e0
  <2>5. Issued(e.turn, e.session)'
    BY <2>1, <2>2, <2>4 DEF Issued
  <2>6. QueueInv'
    <3>1. \A t \in Turns, r \in Sessions : Issued(t, r) => Issued(t, r)'
      BY <2>1 DEF Issued
    <3> QED BY <1>0, <2>4, <2>5, <3>1, QueueGrows DEF StreamInv
  <2>7. app'.turn.kind = "Streaming" => Issued(app.turn.turn, app.turn.session)'
    BY <1>0, <2>1 DEF StreamInv, Issued
  <2>8. StreamInv'
    BY <1>0, <2>1, <2>2, <2>6, <2>7 DEF StreamInv, TaskRunning
  <2>9. ServiceTypeOK'
    <3>1. queue' \in Seq(EventType)
      BY <1>0, <2>4, Said
    <3> QED BY <1>0, <2>1, <3>1 DEF ServiceTypeOK, SomeTurn, SomeSession
  <2> QED BY <2>8, <2>9 DEF ServiceOK
<1> QED BY <1>1, <1>2, <1>3, <1>4, <1>5, <1>6 DEF Send

\* What an intent, or the end of an operation of the account, keeps of the service.
LEMMA IntentKeepsService ==
  ASSUME TypeOK, ScreenOK, ServiceOK, Intent \/ AuthFinished
  PROVE  ServiceOK'
<1>0. app \in AppType /\ record \in [Sessions -> Lifecycles]
  BY DEF ServiceOK, ServiceTypeOK, ScreenOK, ScreenTypeOK
<1>1. /\ UNCHANGED <<queue, current, session, initialized, nextTurn, owner>>
      /\ active' = active \/ active' = Cancelled(active)
      /\ effect = "none" /\ effect' \in {"none", "send", "startNew", "persistIntent", "drain"}
  BY DEF Intent, AuthFinished, SendMessage, NewThread, Interrupt, SelectAlias, SwitchProvider,
         Resume, PickerClose, PickerSelectOther, PickerSelect, PickerDelete, LoginClaude,
         LogoutClaude, RefreshClaude, CoordinatorFree, serviceVars, streamVars
<1>2. \/ record' = record
      \/ \E s \in Sessions : record' = [record EXCEPT ![s] = "Deleted"]
  BY DEF Intent, AuthFinished, SendMessage, NewThread, Interrupt, SelectAlias, SwitchProvider,
         Resume, PickerClose, PickerSelectOther, PickerSelect, PickerDelete, LoginClaude,
         LogoutClaude, RefreshClaude, serviceVars
<1>3. record' \in [Sessions -> Lifecycles]
  BY <1>0, <1>2 DEF Lifecycles
<1>4. app'.turn = app.turn \/ app'.turn.kind # "Streaming"
  BY <1>0, IntentsStreamNothing DEF TurnActive, TurnIs
<1> QED BY <1>1, <1>3, <1>4, ServiceSimply

\* No step of the system breaks what holds of the service.
LEMMA ServiceStep ==
  ASSUME TypeOK, ScreenOK, ServiceOK, [Next]_vars
  PROVE  ServiceOK'
<1>0. app \in AppType /\ record \in [Sessions -> Lifecycles] /\ StreamInv /\ ServiceTypeOK
  BY DEF ServiceOK, ServiceTypeOK, ScreenOK, ScreenTypeOK
<1>1. CASE Intent \/ AuthFinished
  BY <1>1, IntentKeepsService
<1>2. CASE Execute
  <2>1. ASSUME NEW s \in Sessions, NEW registration, NEW pointer,
               StartNew(s, registration, pointer)
        PROVE  ServiceOK'
    <3>1. /\ ~TurnActive(app') /\ effect' = "none"
          /\ record' = record \/ record' = [record EXCEPT ![s] = "Fresh"]
      BY <2>1, NewScreen DEF ScreenOK
    <3>2. effect = "startNew" /\ UNCHANGED <<active, nextTurn, owner, streamVars>>
      BY <2>1 DEF StartNew
    <3>3. record' \in [Sessions -> Lifecycles]
      BY <1>0, <3>1 DEF Lifecycles
    <3> QED BY <3>1, <3>2, <3>3, ServiceSimply DEF streamVars, TurnActive
  <2>2. CASE DrainReceives
    <3>1. PICK text : app' = Reduced(app, Head(queue), text)
      BY <2>2 DEF DrainReceives
    <3>2. /\ Stream!Receive /\ UNCHANGED <<active, record, nextTurn, owner>>
          /\ effect # "sendInline" /\ effect' # "sendInline"
      BY <2>2 DEF DrainReceives, Draining
    <3> QED BY <3>1, <3>2, ServiceReduced
  <2>3. CASE DrainEnds
    <3>1. /\ effect # "sendInline" /\ effect' # "sendInline" /\ active' = NoTask /\ ~TaskRunning
          /\ UNCHANGED <<record, nextTurn, owner, streamVars>> /\ app'.turn = app.turn
      BY <1>0, <2>3 DEF DrainEnds, Draining, AppType
    <3> QED BY <1>0, <3>1, ServiceSimply DEF streamVars
  <2>4. CASE Persist
    <3>1. /\ effect # "sendInline" /\ effect' = "none" /\ UNCHANGED <<app, serviceVars>>
      BY <2>4 DEF Persist
    <3> QED BY <1>0, <3>1, ServiceSimply DEF serviceVars, streamVars
  <2> QED BY <1>2, <2>1, <2>2, <2>3, <2>4, SendKeepsService DEF Execute
<1>3. CASE Task
  BY <1>3, TaskKeepsService
<1>4. CASE Receive
  <2>1. PICK text : app' = Reduced(app, Head(queue), text)
    BY <1>4 DEF Receive
  <2>2. /\ Stream!Receive /\ UNCHANGED <<active, record, nextTurn, owner>>
        /\ effect # "sendInline" /\ effect' # "sendInline"
    BY <1>4 DEF Receive, CoordinatorFree
  <2> QED BY <2>1, <2>2, ServiceReduced
<1>5. CASE CodexSafetyViolation
  <2>1. /\ effect = "none" /\ effect' = effect /\ UNCHANGED serviceVars
    BY <1>5 DEF CodexSafetyViolation, CoordinatorFree
  <2>2. app' = [app EXCEPT !.turn.kind = IF TurnActive(app) THEN "Failed" ELSE @,
                           !.picker = IF @ = "closed" THEN @ ELSE "failed"]
    BY <1>5 DEF CodexSafetyViolation
  <2>3. app'.turn.kind # "Streaming"
    BY <1>0, <2>2 DEF AppType, TurnActive
  <2> QED BY <1>0, <2>1, <2>3, ServiceSimply DEF serviceVars, streamVars
<1>6. CASE Quit \/ Crash
  <2>1. saved' \in PreferencesType /\ Restarts
    BY <1>6, RestartsFile DEF ScreenOK
  <2>2. /\ app'.turn.kind = "Idle" /\ effect' = "none" /\ active' = NoTask
        /\ queue' = <<>> /\ current' = NoTurn /\ session' = NoSession /\ initialized' = FALSE
        /\ UNCHANGED <<nextTurn, owner>>
    BY <2>1, RestartsScreen
  <2>3. record' \in [Sessions -> Lifecycles]
    BY <1>0, <2>1, RestartsRecord
  <2>4. /\ active' \in TaskType /\ active'.pc = "none"
        /\ queue' \in Seq(EventType) /\ DOMAIN queue' = {}
    BY <2>2 DEF NoTask, TaskType, SomeTurn, SomeSession
  <2>5. QueueInv'
    BY <2>4 DEF QueueInv
  <2>6. StreamInv'
    BY <1>0, <2>2, <2>4, <2>5 DEF StreamInv, TaskRunning
  <2>7. ServiceTypeOK'
    BY <1>0, <2>2, <2>3, <2>4 DEF ServiceTypeOK, SomeTurn, SomeSession
  <2> QED BY <2>6, <2>7 DEF ServiceOK
<1>7. CASE UNCHANGED vars
  <2>1. UNCHANGED <<app, effect, active, record, nextTurn, owner, queue, current, session,
                    initialized>>
    BY <1>7 DEF vars, serviceVars, streamVars
  <2>2. QueueInv'
    BY <1>0, <2>1 DEF StreamInv, QueueInv, Issued, Ends
  <2>3. StreamInv'
    BY <1>0, <2>1, <2>2 DEF StreamInv, TaskRunning, Issued
  <2>4. ServiceTypeOK'
    BY <1>0, <2>1 DEF ServiceTypeOK
  <2> QED BY <2>3, <2>4 DEF ServiceOK
<1> QED BY <1>1, <1>2, <1>3, <1>4, <1>5, <1>6, <1>7 DEF Next

-----------------------------------------------------------------------------
(* Every turn on the screen has an end.                                    *)

\* What the coordinator sends to fill in for a task begins with its TurnStarted.
EndInv ==
  /\ TurnHasAnEnd
  /\ effect = "sendInline" /\ app.turn.kind = "Starting" =>
       \E t \in Turns : Queued("TurnStarted", t)

\* An event that is sent leaves what was queued where it was.
LEMMA QueuedGrows ==
  ASSUME queue \in Seq(EventType), NEW e \in EventType, queue' = Append(queue, e)
  PROVE  \A kind, t : Queued(kind, t)' <=> \/ Queued(kind, t)
                                           \/ e.kind = kind /\ e.turn = t
<1>1. /\ Len(queue) \in Nat /\ Len(queue') = Len(queue) + 1 /\ queue'[Len(queue) + 1] = e
      /\ \A k \in 1 .. Len(queue) : queue'[k] = queue[k]
  BY Said
<1>2. ASSUME NEW kind, NEW t
      PROVE  Queued(kind, t)' <=> \/ Queued(kind, t)
                                  \/ e.kind = kind /\ e.turn = t
  <2>1. ASSUME Queued(kind, t)'
        PROVE  Queued(kind, t) \/ (e.kind = kind /\ e.turn = t)
    <3>1. PICK i \in 1 .. Len(queue) + 1 : queue'[i].kind = kind /\ queue'[i].turn = t
      BY <1>1, <2>1 DEF Queued
    <3>2. CASE i = Len(queue) + 1
      BY <1>1, <3>1, <3>2
    <3>3. CASE i \in 1 .. Len(queue)
      BY <1>1, <3>1, <3>3 DEF Queued
    <3> QED BY <1>1, <3>2, <3>3
  <2>2. ASSUME Queued(kind, t)
        PROVE  Queued(kind, t)'
    <3>1. PICK i \in 1 .. Len(queue) : queue[i].kind = kind /\ queue[i].turn = t
      BY <2>2 DEF Queued
    <3>2. i \in 1 .. Len(queue') /\ queue'[i] = queue[i]
      BY <1>1
    <3> QED BY <3>1, <3>2 DEF Queued
  <2>3. ASSUME e.kind = kind, e.turn = t
        PROVE  Queued(kind, t)'
    <3>1. Len(queue) + 1 \in 1 .. Len(queue')
      BY <1>1
    <3> QED BY <1>1, <2>3, <3>1 DEF Queued
  <2> QED BY <2>1, <2>2, <2>3
<1> QED BY <1>2

\* The event received is the only one that is gone.
LEMMA QueuedShrinks ==
  ASSUME TypeOK, queue # <<>>, queue' = Tail(queue)
  PROVE  \A kind, t : Queued(kind, t) => \/ Queued(kind, t)'
                                         \/ Head(queue).kind = kind /\ Head(queue).turn = t
<1>1. /\ Len(queue) \in Nat \ {0} /\ Len(queue') = Len(queue) - 1 /\ Head(queue) = queue[1]
      /\ \A k \in 1 .. Len(queue) - 1 : queue'[k] = queue[k + 1]
  BY HeadIsEvent
<1>2. ASSUME NEW kind, NEW t, Queued(kind, t)
      PROVE  Queued(kind, t)' \/ (Head(queue).kind = kind /\ Head(queue).turn = t)
  <2>1. PICK i \in 1 .. Len(queue) : queue[i].kind = kind /\ queue[i].turn = t
    BY <1>2 DEF Queued
  <2>2. CASE i # 1
    <3>1. i - 1 \in 1 .. Len(queue') /\ queue'[i - 1] = queue[i - 1 + 1] /\ i - 1 + 1 = i
      BY <1>1, <2>2
    <3> QED BY <2>1, <3>1 DEF Queued
  <2> QED BY <1>1, <2>1, <2>2
<1> QED BY <1>2

\* A step that starts no turn, and neither moves an event nor ends the task.
LEMMA EndKept ==
  ASSUME EndInv, UNCHANGED <<queue, current>>,
         active' = active \/ (active' = Cancelled(active) /\ active \in TaskType),
         effect' = effect \/ effect \notin {"send", "sendInline"},
         effect' # "sendInline" \/ effect' = effect,
         app'.turn = app.turn \/ ~TurnActive(app')
  PROVE  EndInv'
<1>1. active'.pc = active.pc /\ active'.turn = active.turn
  BY DEF Cancelled, TaskType
<1>2. \A kind, t : Queued(kind, t)' <=> Queued(kind, t)
  BY DEF Queued
<1>3. CASE app'.turn = app.turn
  BY <1>1, <1>2, <1>3 DEF EndInv, TurnHasAnEnd, TaskRunning
<1>4. CASE ~TurnActive(app')
  BY <1>4 DEF EndInv, TurnHasAnEnd, TurnActive
<1> QED BY <1>3, <1>4

\* Nothing is active, or a message is being sent.
LEMMA EndIdle ==
  ASSUME \/ ~TurnActive(app')
         \/ app'.turn.kind = "Starting" /\ effect' = "send"
  PROVE  EndInv'
BY DEF EndInv, TurnHasAnEnd, TurnActive

\* What the task says, and where it is then.
LEMMA TaskSays ==
  ASSUME ServiceOK, Task
  PROVE  \E e \in EventType :
           /\ queue' = Append(queue, e) /\ e.session = active.session /\ e.turn = active.turn
           /\ active' \in TaskType /\ active'.turn = active.turn
           /\ active'.session = active.session
           /\ \/ /\ active.pc = "launched" /\ e.kind = "TurnStarted"
                 /\ active'.pc = "open" /\ last' = active.turn
              \/ /\ active.pc = "open" /\ active' = active /\ last' = last
                 /\ e.kind = "Initialized" \/ (e.kind = "TextDelta" /\ initialized)
              \/ /\ active.pc = "open" /\ active'.pc = "done" /\ e.kind = "TurnFinished"
                 /\ last' = last /\ TaskFinishes(e.outcome, e.uncertain)
<1>0. /\ active \in TaskType /\ StreamInv
      /\ TaskRunning => Issued(active.turn, active.session)
      /\ active.pc = "open" => current = active.turn /\ session = active.session
  BY DEF ServiceOK, ServiceTypeOK, StreamInv
<1>a. TaskRunning
  BY DEF Task, TaskBegins, TaskInitializes, TaskSpeaks, TaskFinishes, TaskRunning
<1>b. active.turn \in Turns /\ active.session \in Sessions
  BY <1>0, <1>a DEF Issued
<1>1. CASE TaskBegins
  <2> DEFINE e == [kind |-> "TurnStarted", session |-> active.session, turn |-> active.turn,
                   outcome |-> "InProgress", uncertain |-> FALSE]
  <2>1. /\ active.pc = "launched" /\ active' = [active EXCEPT !.pc = "open"]
        /\ last' = active.turn /\ queue' = Append(queue, e)
    BY <1>1 DEF TaskBegins, Stream!Begin, Stream!Say
  <2>2. e \in EventType
    BY <1>b DEF EventType, Outcomes
  <2>3. /\ active' \in TaskType /\ active'.pc = "open" /\ active'.turn = active.turn
        /\ active'.session = active.session
    BY <1>0, <2>1 DEF TaskType
  <2> QED BY <2>1, <2>2, <2>3
<1>2. ASSUME NEW kind \in {"Initialized", "TextDelta"},
             kind = "TextDelta" => initialized, active.pc = "open",
             UNCHANGED <<active, last>>,
             queue' = Append(queue, [kind |-> kind, session |-> session, turn |-> current,
                                     outcome |-> "InProgress", uncertain |-> FALSE])
      PROVE  \E e \in EventType :
               /\ queue' = Append(queue, e)
               /\ e.session = active.session /\ e.turn = active.turn
               /\ active.pc = "open" /\ active' = active /\ last' = last
               /\ e.kind = "Initialized" \/ (e.kind = "TextDelta" /\ initialized)
  <2> DEFINE e == [kind |-> kind, session |-> session, turn |-> current,
                   outcome |-> "InProgress", uncertain |-> FALSE]
  <2>1. e \in EventType
    BY <1>0, <1>2, <1>b DEF EventType, Outcomes
  <2> QED BY <1>0, <1>2, <2>1
<1>3. CASE TaskInitializes \/ TaskSpeaks
  <2>1. active.pc = "open" /\ UNCHANGED <<active, last>>
    BY <1>3 DEF TaskInitializes, TaskSpeaks, Stream!Initialize, Stream!Speak
  <2>2. CASE TaskInitializes
    BY <1>0, <1>2, <2>1, <2>2 DEF TaskInitializes, Stream!Initialize, Stream!Say
  <2>3. CASE TaskSpeaks
    BY <1>0, <1>2, <2>1, <2>3 DEF TaskSpeaks, Stream!Speak, Stream!Say
  <2> QED BY <1>3, <2>2, <2>3
<1>4. ASSUME NEW outcome \in Outcomes \ {"InProgress"}, NEW uncertain \in BOOLEAN,
             TaskFinishes(outcome, uncertain)
      PROVE  \E e \in EventType :
               /\ queue' = Append(queue, e)
               /\ e.session = active.session /\ e.turn = active.turn
               /\ active' \in TaskType /\ active'.turn = active.turn
               /\ active'.session = active.session
               /\ active.pc = "open" /\ active'.pc = "done" /\ e.kind = "TurnFinished"
               /\ last' = last /\ TaskFinishes(e.outcome, e.uncertain)
  <2> DEFINE e == [kind |-> "TurnFinished", session |-> session, turn |-> current,
                   outcome |-> outcome, uncertain |-> uncertain]
  <2>1. /\ active.pc = "open" /\ active' = [active EXCEPT !.pc = "done"]
        /\ last' = last /\ queue' = Append(queue, e)
    BY <1>4 DEF TaskFinishes, Stream!Finish, Stream!Say
  <2>2. e \in EventType
    BY <1>0, <1>b, <2>1 DEF EventType, Outcomes
  <2>3. /\ active' \in TaskType /\ active'.pc = "done" /\ active'.turn = active.turn
        /\ active'.session = active.session
    BY <1>0, <2>1 DEF TaskType
  <2>4. e.outcome = outcome /\ e.uncertain = uncertain
    OBVIOUS
  <2>5. TaskFinishes(e.outcome, e.uncertain)
    BY <1>4, <2>4
  <2>6. e.kind = "TurnFinished" /\ e.session = active.session /\ e.turn = active.turn
    BY <1>0, <2>1
  <2> QED BY <2>1, <2>2, <2>3, <2>5, <2>6
<1> QED BY <1>0, <1>1, <1>3, <1>4 DEF Task

\* What the task says keeps the end of the turn in sight.
LEMMA TaskKeepsEnd ==
  ASSUME TypeOK, ServiceOK, EndInv, Task
  PROVE  EndInv'
<1>0. active \in TaskType /\ queue \in Seq(EventType) /\ StreamInv
  BY DEF ServiceOK, ServiceTypeOK
<1>a. UNCHANGED <<app, effect>>
  BY DEF Task, TaskBegins, TaskInitializes, TaskSpeaks, TaskFinishes, TaskKeeps
<1>1. PICK e \in EventType :
        /\ queue' = Append(queue, e)
        /\ \/ /\ active.pc = "launched" /\ e.kind = "TurnStarted" /\ e.turn = active.turn
              /\ active'.pc = "open" /\ active'.turn = active.turn
           \/ active.pc = "open" /\ active' = active
           \/ /\ active.pc = "open" /\ active'.pc = "done"
              /\ e.kind = "TurnFinished" /\ e.turn = active.turn
  BY <1>0, TaskSays
<1>2. \A kind, t : Queued(kind, t)' <=> \/ Queued(kind, t)
                                        \/ e.kind = kind /\ e.turn = t
  BY <1>0, <1>1, QueuedGrows
<1>3. effect # "sendInline" /\ effect' = effect /\ app' = app /\ e.turn \in Turns
  BY <1>0, <1>1, <1>a DEF StreamInv, EventType
<1>4. app'.turn.kind = "Streaming" =>
        \/ TaskRunning' /\ active'.turn = app'.turn.turn
        \/ Queued("TurnFinished", app.turn.turn)'
  BY <1>1, <1>2, <1>3 DEF EndInv, TurnHasAnEnd, TaskRunning
<1>5. app'.turn.kind = "Starting" =>
        \/ effect' \in {"send", "sendInline"}
        \/ active'.pc = "launched"
        \/ \E t \in Turns : Queued("TurnStarted", t)'
  BY <1>1, <1>2, <1>3 DEF EndInv, TurnHasAnEnd
<1> QED BY <1>3, <1>4, <1>5 DEF EndInv, TurnHasAnEnd

\* Reducing the first event keeps the end of the turn in sight: a turn that starts runs or
\* ends further on in the queue, and the event that ends a turn makes it inactive.
LEMMA ReducedKeepsEnd ==
  ASSUME TypeOK, ScreenOK, ServiceOK, EndInv, Stream!Receive,
         NEW text, app' = Reduced(app, Head(queue), text), UNCHANGED active,
         effect \notin {"send", "sendInline"}, effect' # "sendInline"
  PROVE  EndInv'
<1> DEFINE e == Head(queue)
<1>0. /\ queue # <<>> /\ queue' = Tail(queue) /\ current' = current
      /\ app \in AppType /\ StreamInv
  BY DEF Stream!Receive, ScreenOK, ScreenTypeOK, ServiceOK
<1>1. /\ e \in EventType /\ e = queue[1] /\ 1 \in DOMAIN queue
      /\ DOMAIN queue = 1 .. Len(queue) /\ Len(queue) \in Nat
  BY <1>0, HeadIsEvent
<1>2. \A kind, t : Queued(kind, t) => \/ Queued(kind, t)'
                                      \/ e.kind = kind /\ e.turn = t
  BY <1>0, QueuedShrinks
<1>3. \/ /\ e.kind = "TurnStarted" /\ Accepts(app, e)
         /\ app'.turn = Streaming(e.session, e.turn)
      \/ ~TurnActive(app')
      \/ /\ app'.turn = app.turn
         /\ ~(e.kind = "TurnStarted" /\ Accepts(app, e))
         /\ ~(e.kind = "TurnFinished" /\ Matches(app, e))
  <2>1. app' = Reduced(app, e, text)
    OBVIOUS
  <2> HIDE DEF e
  <2> QED BY <1>0, <1>1, <2>1, ReducedType
<1>4. CASE /\ e.kind = "TurnStarted" /\ app'.turn = Streaming(e.session, e.turn)
  <2>1. \/ current = e.turn
        \/ \E j \in DOMAIN queue : j > 1 /\ Ends(j, e.turn)
    BY <1>0, <1>1, <1>4 DEF StreamInv, QueueInv
  <2>2. CASE current = e.turn
    <3>1. current # NoTurn
      BY <1>1, <2>2 DEF EventType, Turns, NoTurn
    <3>2. active.pc = "open" /\ active.turn = e.turn
      BY <1>0, <2>2, <3>1 DEF StreamInv
    <3>3. TaskRunning' /\ active'.turn = app'.turn.turn /\ app'.turn.kind = "Streaming"
      BY <1>4, <3>2 DEF TaskRunning, Streaming
    <3> QED BY <3>3 DEF EndInv, TurnHasAnEnd
  <2>3. CASE \E j \in DOMAIN queue : j > 1 /\ Ends(j, e.turn)
    <3>1. Queued("TurnFinished", e.turn)
      BY <1>1, <2>3 DEF Queued, Ends
    <3>2. e.kind # "TurnFinished"
      BY <1>4
    <3>3. app'.turn.turn = e.turn /\ app'.turn.kind = "Streaming"
      BY <1>4 DEF Streaming
    <3>4. PICK t : t = e.turn
      OBVIOUS
    <3>5. Queued("TurnFinished", t)'
      BY <1>2, <3>1, <3>2, <3>4
    <3>6. Queued("TurnFinished", app.turn.turn)'
      BY <3>3, <3>4, <3>5
    <3> QED BY <3>3, <3>6 DEF EndInv, TurnHasAnEnd
  <2> QED BY <2>1, <2>2, <2>3
<1>5. CASE ~TurnActive(app')
  BY <1>5, EndIdle
<1>6. CASE /\ app'.turn = app.turn
           /\ ~(e.kind = "TurnStarted" /\ Accepts(app, e))
           /\ ~(e.kind = "TurnFinished" /\ Matches(app, e))
  <2>1. CASE app.turn.kind = "Streaming"
    <3>1. \/ TaskRunning /\ active.turn = app.turn.turn
          \/ Queued("TurnFinished", app.turn.turn)
      BY <2>1 DEF EndInv, TurnHasAnEnd
    <3>2. CASE Queued("TurnFinished", app.turn.turn)
      <4>1. ASSUME e.kind = "TurnFinished", e.turn = app.turn.turn
            PROVE  FALSE
        <5>1. Issued(e.turn, e.session) /\ Issued(app.turn.turn, app.turn.session)
          BY <1>0, <1>1, <2>1 DEF StreamInv, QueueInv
        <5>2. e.session = app.turn.session
          BY <4>1, <5>1 DEF Issued
        <5>3. app.turn = Streaming(e.session, e.turn)
          BY <1>0, <2>1, <4>1, <5>2 DEF AppType, Streaming
        <5> QED BY <1>6, <4>1, <5>3 DEF Matches
      <4>2. PICK t : t = app.turn.turn
        OBVIOUS
      <4>3. Queued("TurnFinished", t)'
        BY <1>2, <3>2, <4>1, <4>2
      <4>4. Queued("TurnFinished", app.turn.turn)'
        BY <1>6, <4>2, <4>3
      <4> QED BY <1>6, <2>1, <4>4 DEF EndInv, TurnHasAnEnd
    <3>3. CASE TaskRunning /\ active.turn = app.turn.turn
      BY <1>6, <2>1, <3>3 DEF EndInv, TurnHasAnEnd, TaskRunning
    <3> QED BY <3>1, <3>2, <3>3
  <2>2. CASE app.turn.kind = "Starting"
    <3>1. \/ active.pc = "launched"
          \/ \E t \in Turns : Queued("TurnStarted", t)
      BY <2>2 DEF EndInv, TurnHasAnEnd
    <3>2. e.kind # "TurnStarted"
      BY <1>6, <2>2 DEF Accepts, ScreenOK, ScreenInv, TurnActive
    <3>3. \A t \in Turns : Queued("TurnStarted", t) => Queued("TurnStarted", t)'
      BY <1>2, <3>2
    <3>4. \/ active'.pc = "launched"
          \/ \E t \in Turns : Queued("TurnStarted", t)'
      BY <3>1, <3>3
    <3> QED BY <1>6, <2>2, <3>4 DEF EndInv, TurnHasAnEnd
  <2>3. CASE ~TurnActive(app)
    BY <1>6, <2>3, EndIdle DEF TurnActive
  <2> QED BY <2>1, <2>2, <2>3 DEF TurnActive
<1> QED BY <1>3, <1>4, <1>5, <1>6

\* An effect of sending keeps the end of the turn in sight.
LEMMA SendKeepsEnd ==
  ASSUME TypeOK, ScreenOK, ServiceOK, EndInv, Send
  PROVE  EndInv'
<1>0. /\ app \in AppType /\ queue \in Seq(EventType) /\ StreamInv
      /\ effect = "send" =>
           app.turn.kind = "Starting" /\ app.authOp = "idle" /\ app.provider = "Claude"
  BY DEF ScreenOK, ScreenTypeOK, ServiceOK, ServiceTypeOK, ScreenInv, TurnActive
<1>1. CASE SendUnauthenticated
  <2> DEFINE a == [app EXCEPT !.subscribed = FALSE, !.authOp = "idle"]
  <2>1. effect = "send" /\ app' = OperationFailed(a)
    BY <1>1 DEF SendUnauthenticated
  <2>2. a \in AppType /\ a.authOp = "idle" /\ a.provider = "Claude"
    BY <1>0, <2>1 DEF AppType
  <2> HIDE DEF a
  <2>3. ~TurnActive(app')
    BY <2>1, <2>2, OperationFailedType
  <2> QED BY <2>3, EndIdle
<1>2. ASSUME NEW s \in Sessions, NEW registration, NEW pointer,
             SendCreates(s, registration, pointer)
      PROVE  EndInv'
  <2>1. \/ effect' = "send" /\ app'.turn = app.turn
        \/ ~TurnActive(app')
    BY <1>2, CreatesScreen DEF ScreenOK
  <2>2. effect = "send"
    BY <1>2 DEF SendCreates
  <2> QED BY <1>0, <2>1, <2>2, EndIdle
<1>3. CASE SendRefused
  <2>1. effect = "send" /\ app' = OperationFailed(app)
    BY <1>3 DEF SendRefused
  <2>2. ~TurnActive(app')
    BY <1>0, <2>1, OperationFailedType
  <2> QED BY <2>2, EndIdle
<1>4. ASSUME NEW s \in Sessions, SendLaunches(s)
      PROVE  EndInv'
  <2>1. /\ effect = "send" /\ app' = app /\ effect' = "none"
        /\ active' = [NoTask EXCEPT !.pc = "launched", !.turn = nextTurn, !.session = s]
    BY <1>4 DEF SendLaunches, Prepares
  <2>2. active'.pc = "launched"
    BY <2>1 DEF NoTask
  <2> QED BY <1>0, <2>1, <2>2 DEF EndInv, TurnHasAnEnd
<1>5. ASSUME NEW s \in Sessions, SendStartsInline(s)
      PROVE  EndInv'
  <2> DEFINE e0 == [kind |-> "TurnStarted", session |-> s, turn |-> nextTurn,
                    outcome |-> "InProgress", uncertain |-> FALSE]
  <2>1. /\ effect = "send" /\ app' = app /\ effect' = "sendInline"
        /\ queue' = Append(queue, e0)
    BY <1>5 DEF SendStartsInline, Prepares, Stream!Begin, Stream!Say
  <2>2. nextTurn \in Turns
    BY <2>1 DEF ScreenOK, ScreenInv
  <2>3. e0 \in EventType
    BY <2>2 DEF EventType, Outcomes
  <2>4. PICK e \in EventType : queue' = Append(queue, e) /\ e.kind = "TurnStarted"
    BY <2>1, <2>3
  <2> HIDE DEF e0
  <2>5. e.turn \in Turns /\ Queued("TurnStarted", e.turn)'
    BY <1>0, <2>4, QueuedGrows DEF EventType
  <2> QED BY <1>0, <2>1, <2>5 DEF EndInv, TurnHasAnEnd
<1>6. CASE SendFinishesInline
  <2> DEFINE e0 == [kind |-> "TurnFinished", session |-> session, turn |-> current,
                    outcome |-> "Failed", uncertain |-> TRUE]
  <2>1. /\ effect = "sendInline" /\ effect' = "none" /\ UNCHANGED <<app, active>>
        /\ queue' = Append(queue, e0)
    BY <1>6 DEF SendFinishesInline, Stream!Finish, Stream!Say
  <2>2. current \in Turns /\ session \in Sessions /\ active.pc = "none"
    BY <1>0, <2>1 DEF StreamInv, Issued
  <2>3. e0 \in EventType
    BY <2>2 DEF EventType, Outcomes
  <2>4. PICK e \in EventType :
          queue' = Append(queue, e) /\ e.kind = "TurnFinished" /\ e.turn = current
    BY <2>1, <2>3
  <2> HIDE DEF e0
  <2>5. \A kind, t : Queued(kind, t)' <=> \/ Queued(kind, t)
                                          \/ e.kind = kind /\ e.turn = t
    BY <1>0, <2>4, QueuedGrows
  <2>6. app'.turn.kind = "Streaming" => Queued("TurnFinished", app.turn.turn)'
    BY <2>1, <2>2, <2>4, <2>5 DEF EndInv, TurnHasAnEnd, TaskRunning
  <2>7. app'.turn.kind = "Starting" => \E t \in Turns : Queued("TurnStarted", t)'
    BY <2>1, <2>5 DEF EndInv
  <2> QED BY <2>1, <2>6, <2>7 DEF EndInv, TurnHasAnEnd
<1> QED BY <1>1, <1>2, <1>3, <1>4, <1>5, <1>6 DEF Send

\* No step of the system loses sight of the end of a turn.
LEMMA EndStep ==
  ASSUME TypeOK, ScreenOK, ServiceOK, EndInv, [Next]_vars
  PROVE  EndInv'
<1>0. app \in AppType /\ active \in TaskType /\ StreamInv
  BY DEF ServiceOK, ServiceTypeOK, ScreenOK, ScreenTypeOK
<1>1. CASE Intent \/ AuthFinished
  <2>1. /\ UNCHANGED <<queue, current>>
        /\ active' = active \/ active' = Cancelled(active)
    BY <1>1
    DEF Intent, AuthFinished, SendMessage, NewThread, Interrupt, SelectAlias, SwitchProvider,
        Resume, PickerClose, PickerSelectOther, PickerSelect, PickerDelete, LoginClaude,
        LogoutClaude, RefreshClaude, serviceVars, streamVars
  <2>2. effect = "none" /\ effect' # "sendInline"
    BY <1>1
    DEF Intent, AuthFinished, SendMessage, NewThread, Interrupt, SelectAlias, SwitchProvider,
        Resume, PickerClose, PickerSelectOther, PickerSelect, PickerDelete, LoginClaude,
        LogoutClaude, RefreshClaude, CoordinatorFree
  <2>3. \/ app'.turn = app.turn
        \/ ~TurnActive(app')
        \/ app'.turn = TurnIs("Starting") /\ effect' = "send"
    BY <1>0, <1>1, IntentsStreamNothing
  <2>4. CASE app'.turn = TurnIs("Starting") /\ effect' = "send"
    BY <2>4, EndIdle DEF TurnIs
  <2> QED BY <1>0, <2>1, <2>2, <2>3, <2>4, EndKept
<1>2. CASE Execute
  <2>1. ASSUME NEW s \in Sessions, NEW registration, NEW pointer,
               StartNew(s, registration, pointer)
        PROVE  EndInv'
    BY <2>1, NewScreen, EndIdle DEF ScreenOK
  <2>2. CASE DrainReceives
    <3>1. PICK text : app' = Reduced(app, Head(queue), text)
      BY <2>2 DEF DrainReceives
    <3>2. /\ Stream!Receive /\ UNCHANGED active
          /\ effect \notin {"send", "sendInline"} /\ effect' # "sendInline"
      BY <2>2 DEF DrainReceives, Draining
    <3> QED BY <3>1, <3>2, ReducedKeepsEnd
  <2>3. CASE DrainEnds
    <3>1. /\ effect \notin {"send", "sendInline"} /\ ~TaskRunning /\ queue = <<>>
          /\ app'.turn = app.turn
      BY <1>0, <2>3 DEF DrainEnds, Draining, AppType
    <3>2. \A kind, t : ~Queued(kind, t)
      BY <3>1 DEF Queued
    <3>3. ~TurnActive(app')
      BY <3>1, <3>2 DEF EndInv, TurnHasAnEnd, TurnActive, TaskRunning
    <3> QED BY <3>3, EndIdle
  <2>4. CASE Persist
    <3>1. /\ effect \notin {"send", "sendInline"} /\ effect' = "none"
          /\ UNCHANGED <<app, serviceVars>>
      BY <2>4 DEF Persist
    <3> QED BY <1>0, <3>1, EndKept DEF serviceVars, streamVars
  <2> QED BY <1>2, <2>1, <2>2, <2>3, <2>4, SendKeepsEnd DEF Execute
<1>3. CASE Task
  BY <1>3, TaskKeepsEnd
<1>4. CASE Receive
  <2>1. PICK text : app' = Reduced(app, Head(queue), text)
    BY <1>4 DEF Receive
  <2>2. /\ Stream!Receive /\ UNCHANGED active
        /\ effect \notin {"send", "sendInline"} /\ effect' # "sendInline"
    BY <1>4 DEF Receive, CoordinatorFree
  <2> QED BY <2>1, <2>2, ReducedKeepsEnd
<1>5. CASE CodexSafetyViolation
  <2>1. app' = [app EXCEPT !.turn.kind = IF TurnActive(app) THEN "Failed" ELSE @,
                           !.picker = IF @ = "closed" THEN @ ELSE "failed"]
    BY <1>5 DEF CodexSafetyViolation
  <2>2. ~TurnActive(app')
    BY <1>0, <2>1 DEF AppType, TurnActive
  <2> QED BY <2>2, EndIdle
<1>6. CASE Quit \/ Crash
  <2>1. saved' \in PreferencesType /\ Restarts
    BY <1>6, RestartsFile DEF ScreenOK
  <2>2. ~TurnActive(app')
    BY <2>1, RestartsScreen
  <2> QED BY <2>2, EndIdle
<1>7. CASE UNCHANGED vars
  BY <1>0, <1>7, EndKept DEF vars, serviceVars, streamVars
<1> QED BY <1>1, <1>2, <1>3, <1>4, <1>5, <1>6, <1>7 DEF Next

-----------------------------------------------------------------------------
(* What holds whatever fails.                                              *)

\* What holds of the screen and of the service at any time.
SafeInv == ScreenOK /\ ServiceOK /\ EndInv

\* It holds at startup.
LEMMA SafeInit ==
  ASSUME AppAssumption, Init
  PROVE  SafeInv
<1>1. PICK subscribed \in BOOLEAN, alias \in Aliases :
        /\ saved = [provider |-> "Claude", alias |-> alias, pointer |-> NoSession]
        /\ app = Restored(saved, subscribed)
  BY DEF Init
<1>2. /\ effect = "none" /\ deaf = FALSE /\ active = NoTask
      /\ record = [s \in Sessions |-> "Absent"] /\ nextTurn = 1
      /\ owner = [t \in Turns |-> NoSession] /\ unresolved = {} /\ attached = {}
      /\ queue = <<>> /\ current = NoTurn /\ session = NoSession /\ initialized = FALSE
  BY DEF Init, Stream!Init
<1>3. saved \in PreferencesType
  BY <1>1 DEF PreferencesType, Providers, SomeSession
<1>4. /\ app \in AppType /\ ~TurnActive(app) /\ app.turn.kind = "Idle"
      /\ app.provider = "Claude" => app.pointer = app.conversation.id
  BY <1>1, <1>3, RestoredType
<1>5. ScreenOK
  BY <1>2, <1>3, <1>4 DEF ScreenOK, ScreenTypeOK, ScreenInv, PointerFollows, Effects
<1>6. ServiceTypeOK
  <2>1. active \in TaskType
    BY <1>2 DEF NoTask, TaskType, SomeTurn, SomeSession
  <2>2. record \in [Sessions -> Lifecycles]
    BY <1>2 DEF Lifecycles
  <2>3. owner \in [Turns -> SomeSession]
    BY <1>2 DEF SomeSession
  <2>4. queue \in Seq(EventType) /\ current \in SomeTurn /\ session \in SomeSession
    BY <1>2 DEF SomeTurn, SomeSession
  <2> QED BY <1>2, <2>1, <2>2, <2>3, <2>4 DEF ServiceTypeOK
<1>7. StreamInv
  <2>1. QueueInv
    BY <1>2 DEF QueueInv
  <2> QED BY <1>2, <1>4, <2>1 DEF StreamInv, TaskRunning, NoTask
<1>8. EndInv
  BY <1>4 DEF EndInv, TurnHasAnEnd, TurnActive
<1> QED BY <1>5, <1>6, <1>7, <1>8 DEF SafeInv, ServiceOK

\* And no step breaks it.
LEMMA SafeStep ==
  ASSUME SafeInv, [Next]_vars
  PROVE  SafeInv'
<1>1. TypeOK /\ ScreenOK /\ ServiceOK /\ EndInv /\ StreamInv
  BY DEF SafeInv, ScreenOK, ServiceOK, TypeOK
<1> QED BY <1>1, ScreenStep, ServiceStep, EndStep DEF SafeInv

\* The screen and the service agree, whatever fails around the reducer and however often
\* the program is restarted (reduce_claude_event, send_claude_message_effect).
THEOREM ScreenAndServiceAgree == Spec => []SafeInv
<1>1. Init => SafeInv
  BY AppAssumption, SafeInit
<1>2. SafeInv /\ [Next]_vars => SafeInv'
  BY SafeStep
<1> QED BY <1>1, <1>2, PTL DEF Spec

\* A conversation on the screen is the one the saved pointer names (SelectProviderModel,
\* ClaudeSessionStarted, ClaudeTurnFinished).
THEOREM PointerIsFollowed == Spec => []PointerFollows
<1>1. SafeInv => PointerFollows
  BY DEF SafeInv, ScreenOK
<1> QED BY <1>1, ScreenAndServiceAgree, PTL

\* A turn that is displayed as active runs, or its end is queued or being sent
\* (reduce_claude_event, run_turn, send_claude_message_effect).
THEOREM ActiveTurnsEnd == Spec => []TurnHasAnEnd
<1>1. SafeInv => TurnHasAnEnd
  BY DEF SafeInv, EndInv
<1> QED BY <1>1, ScreenAndServiceAgree, PTL

-----------------------------------------------------------------------------
(* The turns of the service and of the reducer, when nothing fails the     *)
(* reducer's turn behind the service's back.                               *)

\* What an event does to the turn it belongs to, which is the turn under way.
LEMMA QuietReceive ==
  ASSUME SafeInv, StageInv, queue # <<>>, effect # "send",
         NEW text, app' = Reduced(app, Head(queue), text)
  PROVE  LET e == Head(queue)
         IN /\ e \in EventType /\ e.turn = active.turn /\ e.session = active.session
            /\ e = queue[1] /\ 1 \in DOMAIN queue
            /\ app'.provider = app.provider /\ app.provider = "Claude"
            /\ active.pc \in {"open", "done"} /\ last = active.turn
            /\ \/ /\ app.turn.kind = "Starting" /\ e.kind = "TurnStarted"
                  /\ app'.conversation = Ready(active.session)
                  /\ app'.turn = Streaming(active.session, active.turn)
                  /\ app'.shown = app.shown
               \/ /\ app.turn = Streaming(active.session, active.turn) /\ app'.turn = app.turn
                  /\ e.kind \notin {"TurnStarted", "TurnFinished"}
                  /\ app'.conversation = app.conversation
                  /\ app'.shown \subseteq app.shown \cup {active.turn}
               \/ /\ app.turn = Streaming(active.session, active.turn) /\ ~TurnActive(app')
                  /\ e.kind = "TurnFinished" /\ Len(queue) = 1 /\ active.pc = "done"
                  /\ app'.conversation = (IF e.uncertain THEN Uncertain(active.session)
                                          ELSE app.conversation)
                  /\ app'.shown \subseteq app.shown \cup {active.turn}
<1> DEFINE e == Head(queue)
<1>0. TypeOK /\ ScreenInv /\ app \in AppType
  BY DEF SafeInv, ScreenOK, ScreenTypeOK, ServiceOK, TypeOK
<1>1. e \in EventType /\ e = queue[1] /\ 1 \in DOMAIN queue /\ Len(queue) \in Nat
  BY <1>0, HeadIsEvent
<1>2. /\ e.turn = active.turn /\ e.session = active.session
      /\ e.kind = "TurnStarted" <=> app.turn.kind = "Starting"
      /\ e.kind = "TurnFinished" <=> 1 = Len(queue) /\ active.pc = "done"
  BY <1>1 DEF StageInv
<1>3. TurnActive(app) /\ active.pc \in {"open", "done"} /\ last = active.turn
  BY DEF StageInv
<1>4. app.provider = "Claude"
  BY <1>0, <1>3 DEF ScreenInv
<1>5. app.turn.kind = "Streaming" => app.turn = Streaming(active.session, active.turn)
  BY DEF StageInv
<1>a. app' = Reduced(app, e, text)
  OBVIOUS
<1> HIDE DEF e
<1>6. /\ app'.provider = app.provider
      /\ \/ /\ e.kind = "TurnStarted" /\ Accepts(app, e)
            /\ app'.conversation = Ready(e.session)
            /\ app'.turn = Streaming(e.session, e.turn) /\ app'.shown = app.shown
         \/ /\ e.kind = "TextDelta" /\ Matches(app, e)
            /\ app'.conversation = app.conversation
            /\ app'.turn = app.turn /\ app'.shown = app.shown \cup {e.turn}
         \/ /\ e.kind = "TurnFinished" /\ Matches(app, e)
            /\ app'.conversation = (IF e.uncertain THEN Uncertain(e.session) ELSE app.conversation)
            /\ ~TurnActive(app') /\ app'.shown \subseteq app.shown \cup {e.turn}
         \/ /\ app' = app /\ ~(e.kind = "TurnStarted" /\ Accepts(app, e))
            /\ ~(e.kind = "TurnFinished" /\ Matches(app, e))
  BY <1>0, <1>1, <1>a, ReducedType
<1>7. Accepts(app, e) <=> app.turn.kind = "Starting"
  BY <1>4 DEF Accepts
<1>8. app.turn.kind = "Streaming" => Matches(app, e)
  BY <1>2, <1>5 DEF Matches
<1>9. app.turn.kind \in {"Starting", "Streaming"}
  BY <1>3 DEF TurnActive
<1>10. CASE app.turn.kind = "Starting"
  <2>1. /\ app'.conversation = Ready(active.session) /\ e.kind = "TurnStarted"
        /\ app'.turn = Streaming(active.session, active.turn) /\ app'.shown = app.shown
    BY <1>2, <1>6, <1>7, <1>10
  <2> QED BY <1>1, <1>2, <1>3, <1>4, <1>6, <1>10, <2>1 DEF e
<1>11. CASE app.turn.kind = "Streaming" /\ e.kind = "TurnFinished"
  <2>1. /\ app'.conversation = (IF e.uncertain THEN Uncertain(active.session)
                                ELSE app.conversation)
        /\ ~TurnActive(app') /\ app'.shown \subseteq app.shown \cup {active.turn}
        /\ Len(queue) = 1 /\ active.pc = "done"
    BY <1>2, <1>6, <1>8, <1>11
  <2> QED BY <1>1, <1>2, <1>3, <1>4, <1>5, <1>6, <1>11, <2>1 DEF e
<1>12. CASE app.turn.kind = "Streaming" /\ e.kind # "TurnFinished"
  <2>1. /\ app'.turn = app.turn /\ e.kind \notin {"TurnStarted", "TurnFinished"}
        /\ app'.conversation = app.conversation
        /\ app'.shown \subseteq app.shown \cup {active.turn}
    BY <1>2, <1>6, <1>8, <1>12
  <2> QED BY <1>1, <1>2, <1>3, <1>4, <1>5, <1>6, <1>12, <2>1 DEF e
<1> QED BY <1>9, <1>10, <1>11, <1>12

\* What sending a message does: it fails, goes on to a new session or launches the task.
LEMMA QuietSend ==
  ASSUME Quiet, SafeInv, StageInv, Send
  PROVE  /\ effect = "send" /\ queue = <<>> /\ ~TaskRunning /\ app.turn.kind = "Starting"
         /\ app.provider = "Claude" /\ app'.provider = "Claude" /\ app'.shown = app.shown
         /\ UNCHANGED <<unresolved, streamVars>> /\ effect' # "sendInline"
         /\ \/ /\ ~TurnActive(app') /\ app'.conversation = app.conversation
               /\ active' = active \/ active' = NoTask
               /\ UNCHANGED <<record, attached, owner>>
            \/ \E s \in Unused :
                 /\ \/ /\ app'.conversation = Ready(s) /\ effect' = "send"
                       /\ app'.turn.kind = "Starting"
                    \/ app'.conversation = Uncertain(s) /\ ~TurnActive(app')
                 /\ active' = active /\ record' = [record EXCEPT ![s] = "Fresh"]
                 /\ attached' = attached \cup {s} /\ owner' = owner
                 /\ app.conversation.kind = "None"
            \/ \E s \in Sessions :
                 /\ Prepares(s) /\ app.conversation = Ready(s) /\ app' = app
                 /\ effect' = "none" /\ UNCHANGED <<record, attached>>
                 /\ active'.pc = "launched" /\ active'.session = s
                 /\ record[s] \notin {"Absent", "Deleted"}
<1>0. TypeOK /\ ScreenInv /\ app \in AppType /\ ScreenOK
  BY DEF SafeInv, ScreenOK, ScreenTypeOK, ServiceOK, TypeOK
<1>1. effect = "send"
  BY DEF Send, SendUnauthenticated, SendCreates, SendRefused, SendLaunches, SendStartsInline,
         SendFinishesInline, Prepares, Quiet, StageInv
<1>2. /\ queue = <<>> /\ ~TaskRunning /\ app.turn.kind = "Starting" /\ app.authOp = "idle"
      /\ app.provider = "Claude"
  BY <1>0, <1>1 DEF StageInv, ScreenInv, TurnActive
<1>3. CASE SendUnauthenticated
  <2> DEFINE a == [app EXCEPT !.subscribed = FALSE, !.authOp = "idle"]
  <2>1. /\ app' = OperationFailed(a) /\ effect' = "none"
        /\ UNCHANGED <<unresolved, attached, serviceVars>>
    BY <1>3 DEF SendUnauthenticated
  <2>2. a \in AppType /\ a.authOp = "idle" /\ a.provider = "Claude" /\ SameConversation(app, a)
    BY <1>0, <1>2 DEF AppType, SameConversation
  <2> HIDE DEF a
  <2>3. ~TurnActive(app') /\ SameConversation(a, app')
    BY <2>1, <2>2, OperationFailedType
  <2> QED BY <1>1, <1>2, <2>1, <2>2, <2>3 DEF SameConversation, serviceVars
<1>4. ASSUME NEW s \in Sessions, NEW registration, NEW pointer,
             SendCreates(s, registration, pointer)
      PROVE  /\ app'.provider = "Claude" /\ app'.shown = app.shown
             /\ UNCHANGED <<unresolved, streamVars>> /\ effect' # "sendInline"
             /\ \/ /\ ~TurnActive(app') /\ app'.conversation = app.conversation
                   /\ active' = active /\ UNCHANGED <<record, attached, owner>>
                \/ /\ \/ /\ app'.conversation = Ready(s) /\ effect' = "send"
                         /\ app'.turn.kind = "Starting"
                      \/ app'.conversation = Uncertain(s) /\ ~TurnActive(app')
                   /\ active' = active /\ record' = [record EXCEPT ![s] = "Fresh"]
                   /\ attached' = attached \cup {s} /\ owner' = owner
                   /\ s \in Unused /\ app.conversation.kind = "None"
  <2>1. /\ s \in Unused /\ UNCHANGED <<unresolved, active, owner, streamVars>>
        /\ app.conversation.kind = "None"
    BY <1>4 DEF SendCreates
  <2>2. /\ app'.provider = app.provider /\ app'.shown = app.shown
        /\ \/ /\ app'.conversation = Ready(s) /\ app'.pointer = s /\ effect' = "send"
              /\ app'.turn = app.turn /\ attached' = attached \cup {s}
              /\ record' = [record EXCEPT ![s] = "Fresh"]
           \/ /\ app'.conversation = Uncertain(s) /\ app'.pointer = s
              /\ effect' \in {"none", "persistIntent"}
              /\ ~TurnActive(app') /\ attached' = attached \cup {s}
              /\ record' = [record EXCEPT ![s] = "Fresh"]
           \/ /\ app'.conversation = app.conversation /\ app'.pointer = app.pointer
              /\ effect' = "none"
              /\ ~TurnActive(app') /\ attached' = attached /\ record' = record
    BY <1>0, <1>4, CreatesScreen
  <2> QED BY <1>2, <2>1, <2>2
<1>5. CASE SendRefused
  <2>1. /\ app' = OperationFailed(app) /\ effect' = "none" /\ active' = NoTask
        /\ UNCHANGED <<unresolved, attached, record, owner, streamVars>>
    BY <1>2, <1>5 DEF SendRefused
  <2>2. ~TurnActive(app') /\ SameConversation(app, app')
    BY <1>0, <1>2, <2>1, OperationFailedType
  <2> QED BY <1>1, <1>2, <2>1, <2>2 DEF SameConversation
<1>6. ASSUME NEW s \in Sessions, SendLaunches(s)
      PROVE  /\ Prepares(s) /\ app.conversation = Ready(s) /\ app' = app
             /\ effect' = "none" /\ UNCHANGED <<unresolved, streamVars, record, attached>>
             /\ active'.pc = "launched" /\ active'.session = s
             /\ record[s] \notin {"Absent", "Deleted"}
  <2>1. /\ Prepares(s) /\ effect' = "none" /\ UNCHANGED <<unresolved, streamVars>>
        /\ active' = [NoTask EXCEPT !.pc = "launched", !.turn = nextTurn, !.session = s]
    BY <1>6 DEF SendLaunches
  <2>2. active'.pc = "launched" /\ active'.session = s
    BY <2>1 DEF NoTask
  <2> QED BY <2>1, <2>2 DEF Prepares
<1>7. ~SendFinishesInline /\ \A s \in Sessions : ~SendStartsInline(s)
  BY <1>1 DEF SendFinishesInline, SendStartsInline, Quiet
<1> QED BY <1>1, <1>2, <1>3, <1>4, <1>5, <1>6, <1>7 DEF Send

\* What an intent, or the end of an operation of the account, does to the conversation.
LEMMA QuietIntent ==
  ASSUME SafeInv, StageInv, Intent \/ AuthFinished
  PROVE  /\ UNCHANGED <<streamVars, nextTurn, owner>>
         /\ active' = active \/ active' = Cancelled(active)
         /\ effect = "none" /\ effect' # "sendInline"
         /\ \/ effect' # "send" /\ app'.turn = app.turn
            \/ effect' # "send" /\ ~TurnActive(app) /\ ~TurnActive(app')
            \/ /\ effect' = "send" /\ ~TurnActive(app) /\ app'.turn.kind = "Starting"
               /\ app'.conversation = app.conversation
         /\ \/ /\ app'.provider = app.provider /\ app'.conversation = app.conversation
               /\ app'.shown = app.shown /\ UNCHANGED <<unresolved, record>>
               /\ attached' = attached
            \/ /\ app'.provider = app.provider /\ app'.shown = app.shown
               /\ UNCHANGED <<unresolved, record>>
               /\ attached' = attached \/ attached' = {}
               /\ app'.conversation = IF app.provider = "Claude" /\ app.pointer # NoSession
                                      THEN Blocked(app.pointer) ELSE app.conversation
               /\ attached' # attached => ~TurnActive(app)
            \/ /\ app'.conversation = NoConversation /\ app'.shown = {}
               /\ UNCHANGED <<unresolved, attached, record>>
               /\ app.provider = "Claude" /\ app'.alias # app.alias
            \/ /\ app'.conversation = NoConversation /\ app'.shown = {}
               /\ UNCHANGED <<unresolved, attached, record>> /\ ~TurnActive(app')
            \/ /\ app'.provider = "Other" /\ app'.conversation = app.conversation
               /\ app'.shown = {} /\ UNCHANGED <<unresolved, attached, record>>
               /\ ~TurnActive(app')
            \/ \E s \in Sessions :
                 /\ app'.conversation = Ready(s) /\ app'.shown = TurnsOf(s) /\ Listed(s)
                 /\ unresolved' = unresolved \ {s} /\ attached' = attached \cup {s}
                 /\ record' = record /\ ~TurnActive(app) /\ ~TurnActive(app')
            \/ \E s \in Sessions :
                 /\ app' = app /\ UNCHANGED <<unresolved, attached>> /\ ~TurnActive(app)
                 /\ s # ActiveSaved(app) /\ record' = [record EXCEPT ![s] = "Deleted"]
<1>0. app \in AppType /\ ScreenInv /\ TypeOK
  BY DEF SafeInv, ScreenOK, ScreenTypeOK, ServiceOK, TypeOK
<1>1. /\ UNCHANGED <<streamVars, nextTurn, owner>>
      /\ active' = active \/ active' = Cancelled(active)
  BY DEF Intent, AuthFinished, SendMessage, NewThread, Interrupt, SelectAlias, SwitchProvider,
         Resume, PickerClose, PickerSelectOther, PickerSelect, PickerDelete, LoginClaude,
         LogoutClaude, RefreshClaude, serviceVars
<1>2. effect = "none" /\ effect' # "sendInline"
  BY DEF Intent, AuthFinished, SendMessage, NewThread, Interrupt, SelectAlias, SwitchProvider,
         Resume, PickerClose, PickerSelectOther, PickerSelect, PickerDelete, LoginClaude,
         LogoutClaude, RefreshClaude, CoordinatorFree
<1> DEFINE Same == /\ app'.provider = app.provider /\ app'.conversation = app.conversation
                   /\ app'.shown = app.shown /\ app'.turn = app.turn
                   /\ UNCHANGED <<unresolved, record, attached>> /\ effect' # "send"
           Probed == /\ app'.provider = app.provider /\ app'.shown = app.shown
                     /\ app'.turn = app.turn /\ effect' # "send"
                     /\ UNCHANGED <<unresolved, record>>
                     /\ attached' = attached \/ attached' = {}
                     /\ app'.conversation = IF app.provider = "Claude" /\ app.pointer # NoSession
                                            THEN Blocked(app.pointer) ELSE app.conversation
                     /\ attached' # attached => ~TurnActive(app)
           Started == /\ effect' = "send" /\ ~TurnActive(app) /\ app'.turn.kind = "Starting"
                      /\ app'.conversation = app.conversation
                      /\ app'.provider = app.provider /\ app'.shown = app.shown
                      /\ UNCHANGED <<unresolved, record, attached>>
           Another == /\ app'.conversation = NoConversation /\ app'.shown = {}
                      /\ app'.turn = app.turn /\ effect' # "send"
                      /\ UNCHANGED <<unresolved, attached, record>>
                      /\ app.provider = "Claude" /\ app'.alias # app.alias
           Switched == /\ app'.conversation = NoConversation /\ app'.shown = {}
                       /\ effect' # "send" /\ ~TurnActive(app) /\ ~TurnActive(app')
                       /\ UNCHANGED <<unresolved, attached, record>>
           Left == /\ app'.provider = "Other" /\ app'.conversation = app.conversation
                   /\ app'.shown = {} /\ UNCHANGED <<unresolved, attached, record>>
                   /\ effect' # "send" /\ ~TurnActive(app) /\ ~TurnActive(app')
           Picked(s) == /\ app'.conversation = Ready(s) /\ app'.shown = TurnsOf(s) /\ Listed(s)
                        /\ unresolved' = unresolved \ {s} /\ attached' = attached \cup {s}
                        /\ record' = record /\ effect' # "send"
                        /\ ~TurnActive(app) /\ ~TurnActive(app')
           Removed(s) == /\ app' = app /\ UNCHANGED <<unresolved, attached>> /\ ~TurnActive(app)
                         /\ s # ActiveSaved(app) /\ effect' # "send"
                         /\ record' = [record EXCEPT ![s] = "Deleted"]
<1>3. ASSUME SendMessage PROVE Started
  <2>1. /\ app' = [app EXCEPT !.turn = TurnIs("Starting")] /\ effect' = "send"
        /\ ~TurnActive(app) /\ UNCHANGED <<unresolved, attached, record>>
    BY <1>3 DEF SendMessage, MaySend, serviceVars
  <2> QED BY <1>0, <2>1 DEF AppType, TurnIs
<1>4. ASSUME NewThread \/ LogoutClaude
      PROVE  Same
  BY <1>4 DEF NewThread, LogoutClaude, serviceVars
<1>5. ASSUME Interrupt PROVE Same
  <2>1. active.pc # "none"
    BY <1>5 DEF Interrupt, StageInv
  <2> QED BY <1>2, <1>5, <2>1 DEF Interrupt
<1>6. ASSUME NEW alias \in Aliases, SelectAlias(alias)
      PROVE  Same \/ Another
  <2>1. /\ effect' = "persistIntent" /\ UNCHANGED <<unresolved, attached, record>>
        /\ app.provider = "Claude"
        /\ app' = IF alias = app.alias THEN [app EXCEPT !.picker = "closed"]
                  ELSE [app EXCEPT !.picker = "closed", !.alias = alias, !.shown = {},
                                   !.conversation = NoConversation, !.pointer = NoSession]
    BY <1>6 DEF SelectAlias, serviceVars
  <2>2. CASE alias = app.alias
    BY <1>0, <2>1, <2>2 DEF AppType
  <2>3. CASE alias # app.alias
    BY <1>0, <2>1, <2>3 DEF AppType
  <2> QED BY <2>2, <2>3
<1>7. ASSUME NEW provider \in Providers, SwitchProvider(provider)
      PROVE  Switched
  <2>1. PICK alias \in Aliases :
          app' = [app EXCEPT !.provider = provider, !.alias = alias,
                             !.conversation = NoConversation, !.pointer = NoSession,
                             !.turn = TurnIs("Idle"), !.shown = {}, !.picker = "closed"]
    BY <1>7 DEF SwitchProvider
  <2>2. /\ effect' = "persistIntent" /\ UNCHANGED <<unresolved, attached, record>>
        /\ ~TurnActive(app)
    BY <1>7 DEF SwitchProvider, serviceVars
  <2>3. /\ app'.conversation = NoConversation /\ app'.shown = {} /\ app'.turn = TurnIs("Idle")
    BY <1>0, <2>1 DEF AppType
  <2> QED BY <2>2, <2>3 DEF TurnActive, TurnIs
<1>8. ASSUME Resume \/ PickerClose \/ LoginClaude
      PROVE  Same
  BY <1>0, <1>2, <1>8 DEF Resume, PickerClose, LoginClaude, AppType, serviceVars
<1>9. ASSUME PickerSelectOther PROVE Left
  <2>1. /\ app' = [app EXCEPT !.provider = "Other", !.pointer = NoSession, !.picker = "closed",
                              !.turn = TurnIs("Idle"), !.shown = {}]
        /\ effect' = "persistIntent" /\ UNCHANGED <<unresolved, attached, record>>
        /\ ~TurnActive(app)
    BY <1>0, <1>9 DEF PickerSelectOther, serviceVars, ScreenInv
  <2>2. /\ app'.provider = "Other" /\ app'.conversation = app.conversation /\ app'.shown = {}
        /\ app'.turn = TurnIs("Idle")
    BY <1>0, <2>1 DEF AppType
  <2> QED BY <2>1, <2>2 DEF TurnActive, TurnIs
<1>10. ASSUME NEW s \in Sessions, PickerSelect(s)
       PROVE  Picked(s)
  <2>1. PICK alias \in Aliases :
          app' = [app EXCEPT !.provider = "Claude", !.alias = alias, !.picker = "closed",
                             !.conversation = Ready(s), !.pointer = s,
                             !.turn = TurnIs("Idle"), !.shown = TurnsOf(s)]
    BY <1>10 DEF PickerSelect
  <2>2. /\ effect' = "persistIntent" /\ record' = record /\ Listed(s)
        /\ unresolved' = unresolved \ {s} /\ attached' = attached \cup {s} /\ ~TurnActive(app)
    BY <1>0, <1>10 DEF PickerSelect, serviceVars, ScreenInv
  <2>3. /\ app'.conversation = Ready(s) /\ app'.shown = TurnsOf(s) /\ app'.turn = TurnIs("Idle")
    BY <1>0, <2>1 DEF AppType
  <2> QED BY <2>2, <2>3 DEF TurnActive, TurnIs
<1>11. ASSUME NEW s \in Sessions, PickerDelete(s)
       PROVE  Removed(s)
  BY <1>0, <1>2, <1>11 DEF PickerDelete, ScreenInv
<1>12. ASSUME NEW a \in AppType, a.turn = app.turn, SameConversation(app, a), a.authOp # "idle",
              app' = OperationFailed(a), UNCHANGED <<unresolved, attached, record>>,
              effect' # "send"
       PROVE  Same
  <2>1. SameConversation(a, app') /\ app'.turn = a.turn
    BY <1>12, OperationFailedType
  <2> QED BY <1>12, <2>1 DEF SameConversation
<1>13. ASSUME NEW subscribed \in BOOLEAN, app' = AuthVerified(app, subscribed),
              UNCHANGED <<unresolved, record>>, effect' # "send",
              attached' = attached \/ (attached' = {} /\ subscribed),
              attached' # attached => ~TurnActive(app)
       PROVE  Same \/ Probed
  <2>1. /\ app'.provider = app.provider /\ app'.shown = app.shown /\ app'.turn = app.turn
        /\ app'.conversation = IF subscribed /\ app.provider = "Claude" /\ app.pointer # NoSession
                               THEN Blocked(app.pointer) ELSE app.conversation
    BY <1>0, <1>13, AuthVerifiedType
  <2> QED BY <1>13, <2>1
<1>14. /\ [app EXCEPT !.authOp = "checking", !.subscribed = FALSE] \in AppType
       /\ [app EXCEPT !.authOp = "checking", !.subscribed = FALSE].turn = app.turn
       /\ [app EXCEPT !.authOp = "checking", !.subscribed = FALSE].authOp # "idle"
       /\ SameConversation(app, [app EXCEPT !.authOp = "checking", !.subscribed = FALSE])
       /\ [app EXCEPT !.authOp = "checking"] \in AppType
       /\ [app EXCEPT !.authOp = "checking"].turn = app.turn
       /\ [app EXCEPT !.authOp = "checking"].authOp # "idle"
       /\ SameConversation(app, [app EXCEPT !.authOp = "checking"])
  BY <1>0 DEF AppType, SameConversation
<1>15. ASSUME RefreshClaude PROVE Same \/ Probed
  <2>1. UNCHANGED <<unresolved, attached, record>> /\ effect' # "send"
    BY <1>2, <1>15 DEF RefreshClaude, serviceVars
  <2>2. \/ app' = OperationFailed([app EXCEPT !.authOp = "checking", !.subscribed = FALSE])
        \/ \E subscribed \in BOOLEAN : app' = AuthVerified(app, subscribed)
    BY <1>15 DEF RefreshClaude
  <2>3. Same \/ Probed
    BY <1>12, <1>13, <1>14, <2>1, <2>2
  <2> QED BY <2>3
<1>16. ASSUME AuthFinished PROVE Same \/ Probed
  <2>1. UNCHANGED <<unresolved, record>> /\ effect' # "send"
    BY <1>2, <1>16 DEF AuthFinished, serviceVars
  <2>2. app.authOp = "login" => ~TurnActive(app)
    BY <1>0 DEF ScreenInv
  <2>3. CASE app' = OperationFailed([app EXCEPT !.authOp = "checking"]) /\ attached' = attached
    BY <1>12, <1>14, <2>1, <2>3
  <2>4. ASSUME NEW subscribed \in BOOLEAN, app.authOp = "login",
               app' = AuthVerified(app, subscribed),
               attached' = IF subscribed THEN {} ELSE attached
        PROVE  Same \/ Probed
    BY <1>13, <2>1, <2>2, <2>4
  <2>5. ASSUME NEW subscribed \in BOOLEAN, attached' = attached,
               app' = [app EXCEPT !.authOp = "idle", !.subscribed = subscribed]
        PROVE  Same
    BY <1>0, <2>1, <2>5 DEF AppType
  <2>6. Same \/ Probed
    BY <1>16, <2>3, <2>4, <2>5 DEF AuthFinished
  <2> QED BY <2>6
<1>17. \/ Same \/ Probed \/ Started \/ Another \/ Switched \/ Left
       \/ \E s \in Sessions : Picked(s) \/ Removed(s)
  BY <1>3, <1>4, <1>5, <1>6, <1>7, <1>8, <1>9, <1>10, <1>11, <1>15, <1>16 DEF Intent
<1> QED BY <1>1, <1>2, <1>17

\* Nothing is under way.
LEMMA StageIdle ==
  ASSUME queue' = <<>>, ~TaskRunning', effect' # "sendInline",
         \/ ~TurnActive(app')
         \/ app'.turn.kind = "Starting" /\ effect' = "send"
  PROVE  StageInv'
BY DEF StageInv, TaskRunning, TurnActive

\* A step that leaves the turn and the queue where they are.
LEMMA StageKept ==
  ASSUME StageInv, UNCHANGED <<queue, last>>,
         active' = active \/ (active' = Cancelled(active) /\ active \in TaskType),
         app'.turn = app.turn, effect' # "sendInline",
         effect' = effect \/ (effect # "send" /\ effect' # "send")
  PROVE  StageInv'
<1>1. active'.pc = active.pc /\ active'.turn = active.turn /\ active'.session = active.session
  BY DEF Cancelled, TaskType
<1> QED BY <1>1 DEF StageInv, TaskRunning, TurnActive

\* What the task says belongs to its turn, in the order of its progress.
LEMMA TaskKeepsStage ==
  ASSUME SafeInv, StageInv, Task
  PROVE  StageInv'
<1>0. /\ queue \in Seq(EventType) /\ ServiceOK /\ app'.turn = app.turn /\ effect' = effect
  BY DEF SafeInv, ServiceOK, ServiceTypeOK, Task, TaskBegins, TaskInitializes, TaskSpeaks,
         TaskFinishes, TaskKeeps
<1>1. PICK e \in EventType :
        /\ queue' = Append(queue, e) /\ e.session = active.session /\ e.turn = active.turn
        /\ active'.turn = active.turn /\ active'.session = active.session
        /\ \/ /\ active.pc = "launched" /\ e.kind = "TurnStarted"
              /\ active'.pc = "open" /\ last' = active.turn
           \/ /\ active.pc = "open" /\ active' = active /\ last' = last
              /\ e.kind = "Initialized" \/ (e.kind = "TextDelta" /\ initialized)
           \/ /\ active.pc = "open" /\ active'.pc = "done" /\ e.kind = "TurnFinished"
              /\ last' = last
  BY <1>0, TaskSays
<1>2. /\ Len(queue) \in Nat /\ DOMAIN queue = 1 .. Len(queue)
      /\ DOMAIN queue' = 1 .. Len(queue) + 1 /\ Len(queue') = Len(queue) + 1
      /\ queue'[Len(queue) + 1] = e
      /\ \A k \in DOMAIN queue : k \in DOMAIN queue' /\ queue'[k] = queue[k]
  BY <1>0, <1>1, Said
<1>3. queue' # <<>> /\ (queue = <<>> <=> Len(queue) = 0)
  BY <1>0, <1>1, <1>2
<1>4. TaskRunning /\ effect # "send" /\ TurnActive(app)
  BY <1>1 DEF TaskRunning, StageInv
<1>5. ASSUME NEW k \in DOMAIN queue'
      PROVE  /\ queue'[k].turn = active'.turn /\ queue'[k].session = active'.session
             /\ queue'[k].kind = "TurnStarted" <=> k = 1 /\ app'.turn.kind = "Starting"
             /\ queue'[k].kind = "TurnFinished" <=> k = Len(queue') /\ active'.pc = "done"
  <2>1. CASE k \in DOMAIN queue
    <3>1. /\ queue[k].turn = active.turn /\ queue[k].session = active.session
          /\ queue[k].kind = "TurnStarted" <=> k = 1 /\ app.turn.kind = "Starting"
          /\ queue[k].kind = "TurnFinished" <=> k = Len(queue) /\ active.pc = "done"
      BY <2>1 DEF StageInv
    <3>2. k # Len(queue') /\ queue[k].kind # "TurnFinished" /\ queue'[k] = queue[k]
      BY <1>1, <1>2, <2>1, <3>1
    <3> QED BY <1>0, <1>1, <3>1, <3>2
  <2>2. CASE k = Len(queue) + 1
    <3>1. k = 1 <=> queue = <<>>
      BY <1>2, <1>3, <2>2
    <3>2. CASE active.pc = "launched" /\ e.kind = "TurnStarted" /\ active'.pc = "open"
      <4>1. queue = <<>> /\ app.turn.kind = "Starting"
        BY <3>2 DEF StageInv
      <4> QED BY <1>0, <1>1, <1>2, <2>2, <3>1, <3>2, <4>1
    <3>3. CASE active.pc = "open" /\ active' = active /\ e.kind \in {"Initialized", "TextDelta"}
      <4>1. k = 1 => app.turn.kind = "Streaming"
        BY <3>1, <3>3 DEF StageInv
      <4> QED BY <1>0, <1>1, <1>2, <2>2, <3>3, <4>1
    <3>4. CASE active.pc = "open" /\ active'.pc = "done" /\ e.kind = "TurnFinished"
      <4>1. k = 1 => app.turn.kind = "Streaming"
        BY <3>1, <3>4 DEF StageInv
      <4> QED BY <1>0, <1>1, <1>2, <2>2, <3>4, <4>1
    <3> QED BY <1>1, <3>2, <3>3, <3>4
  <2> QED BY <1>2, <2>1, <2>2
<1>6. /\ active'.pc \in {"open", "done"} /\ last' = active'.turn
      /\ app'.turn.kind = "Streaming" => app'.turn = Streaming(active'.session, active'.turn)
  BY <1>0, <1>1 DEF StageInv
<1>7. effect' # "sendInline" /\ effect' # "send" /\ TurnActive(app')
  BY <1>0, <1>4 DEF StageInv, TurnActive
<1> QED BY <1>3, <1>5, <1>6, <1>7 DEF StageInv

\* The reducer follows the events of the turn.
LEMMA ReceiveKeepsStage ==
  ASSUME SafeInv, StageInv, Stream!Receive, effect # "send",
         effect' \notin {"send", "sendInline"}, UNCHANGED active,
         NEW text, app' = Reduced(app, Head(queue), text)
  PROVE  StageInv'
<1>0. queue # <<>> /\ queue' = Tail(queue) /\ last' = last /\ TypeOK
  BY DEF Stream!Receive, SafeInv, ScreenOK, ServiceOK, TypeOK
<1>1. /\ Len(queue) \in Nat \ {0} /\ DOMAIN queue' = 1 .. Len(queue) - 1
      /\ Len(queue') = Len(queue) - 1 /\ queue' \in Seq(EventType)
      /\ \A k \in DOMAIN queue' : k + 1 \in DOMAIN queue /\ queue'[k] = queue[k + 1]
  BY <1>0, HeadIsEvent
<1>2. /\ 1 \in DOMAIN queue /\ active.pc \in {"open", "done"} /\ last = active.turn
      /\ Head(queue) = queue[1]
      /\ \/ /\ Head(queue).kind = "TurnStarted"
            /\ app'.turn = Streaming(active.session, active.turn)
         \/ /\ app.turn = Streaming(active.session, active.turn) /\ app'.turn = app.turn
            /\ Head(queue).kind \notin {"TurnStarted", "TurnFinished"}
         \/ /\ ~TurnActive(app') /\ Len(queue) = 1 /\ active.pc = "done"
  BY <1>0, QuietReceive
<1>3. CASE ~TurnActive(app') /\ Len(queue) = 1 /\ active.pc = "done"
  <2>1. queue' = <<>>
    BY <1>1, <1>3
  <2> QED BY <1>3, <2>1, StageIdle DEF TaskRunning
<1>4. CASE /\ app'.turn = Streaming(active.session, active.turn)
           /\ Head(queue).kind # "TurnFinished"
  <2>1. app'.turn.kind = "Streaming"
    BY <1>4 DEF Streaming
  <2>2. active.pc = "done" => queue' # <<>>
    <3>1. active.pc = "done" => Len(queue) # 1
      BY <1>2, <1>4 DEF StageInv
    <3> QED BY <1>1, <3>1
  <2>3. ASSUME NEW k \in DOMAIN queue'
        PROVE  /\ queue'[k].turn = active'.turn /\ queue'[k].session = active'.session
               /\ queue'[k].kind # "TurnStarted"
               /\ queue'[k].kind = "TurnFinished" <=> k = Len(queue') /\ active'.pc = "done"
    <3>1. k \in Nat /\ k # 0 /\ k + 1 \in DOMAIN queue /\ queue'[k] = queue[k + 1] /\ k + 1 # 1
      BY <1>1
    <3>2. k = Len(queue') <=> k + 1 = Len(queue)
      BY <1>1, <3>1
    <3> QED BY <3>1, <3>2 DEF StageInv
  <2> QED BY <1>0, <1>2, <1>4, <2>1, <2>2, <2>3 DEF StageInv, TurnActive
<1>5. CASE app.turn = Streaming(active.session, active.turn) /\ app'.turn = app.turn
           /\ Head(queue).kind \notin {"TurnStarted", "TurnFinished"}
  BY <1>4, <1>5
<1> QED BY <1>2, <1>3, <1>4, <1>5

\* No step takes the reducer's turn and the service's apart.
LEMMA StageStep ==
  ASSUME Quiet, SafeInv, StageInv, [Next]_vars
  PROVE  StageInv'
<1>0. app \in AppType /\ active \in TaskType /\ TypeOK /\ ScreenInv
  BY DEF SafeInv, ScreenOK, ScreenTypeOK, ServiceOK, ServiceTypeOK, TypeOK
<1>a. ~TurnActive(app) => queue = <<>> /\ ~TaskRunning
  BY DEF StageInv
<1>1. CASE Intent \/ AuthFinished
  <2>1. /\ UNCHANGED streamVars
        /\ active' = active \/ active' = Cancelled(active)
        /\ effect = "none" /\ effect' # "sendInline"
        /\ \/ effect' # "send" /\ app'.turn = app.turn
           \/ effect' # "send" /\ ~TurnActive(app) /\ ~TurnActive(app')
           \/ effect' = "send" /\ ~TurnActive(app) /\ app'.turn.kind = "Starting"
    BY <1>1, QuietIntent
  <2>2. TaskRunning' <=> TaskRunning
    BY <1>0, <2>1 DEF TaskRunning, Cancelled, TaskType
  <2>3. CASE effect' # "send" /\ app'.turn = app.turn
    BY <1>0, <2>1, <2>3, StageKept DEF streamVars
  <2>4. CASE \/ effect' # "send" /\ ~TurnActive(app) /\ ~TurnActive(app')
             \/ effect' = "send" /\ ~TurnActive(app) /\ app'.turn.kind = "Starting"
    BY <1>a, <2>1, <2>2, <2>4, StageIdle DEF streamVars
  <2> QED BY <2>1, <2>3, <2>4
<1>2. CASE Send
  <2>1. /\ queue = <<>> /\ ~TaskRunning /\ UNCHANGED streamVars /\ effect' # "sendInline"
        /\ \/ ~TurnActive(app') /\ (active' = active \/ active' = NoTask)
           \/ /\ \/ effect' = "send" /\ app'.turn.kind = "Starting"
                 \/ ~TurnActive(app')
              /\ active' = active
           \/ /\ app' = app /\ app.turn.kind = "Starting" /\ effect' = "none"
              /\ active'.pc = "launched"
    BY <1>2, QuietSend
  <2>2. CASE \/ ~TurnActive(app') /\ (active' = active \/ active' = NoTask)
             \/ /\ \/ effect' = "send" /\ app'.turn.kind = "Starting"
                   \/ ~TurnActive(app')
                /\ active' = active
    <3>1. ~TaskRunning'
      BY <2>1, <2>2 DEF TaskRunning, NoTask
    <3> QED BY <2>1, <2>2, <3>1, StageIdle DEF streamVars
  <2>3. CASE /\ app' = app /\ app.turn.kind = "Starting" /\ effect' = "none"
             /\ active'.pc = "launched"
    <3>1. queue' = <<>>
      BY <2>1 DEF streamVars
    <3> QED BY <2>1, <2>3, <3>1 DEF StageInv, TurnActive
  <2> QED BY <2>1, <2>2, <2>3
<1>3. ASSUME NEW s \in Sessions, NEW registration, NEW pointer,
             StartNew(s, registration, pointer)
      PROVE  StageInv'
  <2>1. ~TurnActive(app') /\ effect' = "none"
    BY <1>0, <1>3, NewScreen
  <2>2. ~TurnActive(app) /\ UNCHANGED <<active, streamVars>>
    BY <1>0, <1>3 DEF StartNew, ScreenInv
  <2> QED BY <1>a, <2>1, <2>2, StageIdle DEF streamVars, TaskRunning
<1>4. CASE DrainReceives \/ Receive
  <2>1. PICK text : app' = Reduced(app, Head(queue), text)
    BY <1>4 DEF DrainReceives, Receive
  <2>2. /\ Stream!Receive /\ UNCHANGED active
        /\ effect # "send" /\ effect' \notin {"send", "sendInline"}
    BY <1>4 DEF DrainReceives, Draining, Receive, CoordinatorFree
  <2> QED BY <2>1, <2>2, ReceiveKeepsStage
<1>5. CASE DrainEnds
  <2>1. /\ effect # "send" /\ effect' # "sendInline" /\ ~TaskRunning /\ queue = <<>>
        /\ queue' = queue /\ active' = NoTask /\ app'.turn = app.turn
    BY <1>0, <1>5 DEF DrainEnds, Draining, AppType, streamVars
  <2>2. ~TurnActive(app)
    BY <2>1 DEF StageInv, TurnActive, TaskRunning
  <2> QED BY <2>1, <2>2, StageIdle DEF TurnActive, TaskRunning, NoTask
<1>6. CASE Persist
  BY <1>6, StageKept DEF Persist, serviceVars, streamVars
<1>7. CASE Task
  BY <1>7, TaskKeepsStage
<1>8. CASE CodexSafetyViolation
  BY <1>8 DEF CodexSafetyViolation, Quiet
<1>9. CASE Quit \/ Crash
  <2>1. saved' \in PreferencesType /\ Restarts
    BY <1>9, RestartsFile DEF SafeInv, ScreenOK
  <2>2. ~TurnActive(app') /\ effect' = "none" /\ active' = NoTask /\ queue' = <<>>
    BY <2>1, RestartsScreen
  <2> QED BY <2>2, StageIdle DEF TaskRunning, NoTask
<1>10. CASE UNCHANGED vars
  BY <1>0, <1>10, StageKept DEF vars, serviceVars, streamVars, StageInv
<1> QED BY <1>1, <1>2, <1>3, <1>4, <1>5, <1>6, <1>7, <1>8, <1>9, <1>10 DEF Next, Execute

-----------------------------------------------------------------------------
(* Doubt.                                                                  *)

\* What the task does to the sessions' files and to the doubts about them.
LEMMA TaskRecords ==
  ASSUME SafeInv, Task
  PROVE  /\ active.session \in Sessions
         /\ \A s \in Sessions :
              \/ record'[s] = record[s]
              \/ s = active.session /\ record'[s] \in {"CreationUncertain", "Established"}
         /\ \/ unresolved' = unresolved
            \/ /\ unresolved' = unresolved \cup {active.session}
               /\ record'[active.session] # "Absent"
         /\ active'.pc # "done" => unresolved' = unresolved
<1>0. /\ record \in [Sessions -> Lifecycles] /\ active \in TaskType
      /\ TaskRunning => active.session \in Sessions
  BY DEF SafeInv, ServiceOK, ServiceTypeOK, StreamInv, Issued
<1>1. active.session \in Sessions
  BY <1>0 DEF Task, TaskBegins, TaskInitializes, TaskSpeaks, TaskFinishes, TaskRunning
<1>2. CASE TaskBegins \/ TaskSpeaks
  BY <1>1, <1>2 DEF TaskBegins, TaskSpeaks
<1>3. CASE TaskInitializes
  BY <1>0, <1>1, <1>3 DEF TaskInitializes
<1>4. ASSUME NEW outcome, NEW uncertain \in BOOLEAN, TaskFinishes(outcome, uncertain)
      PROVE  /\ \A s \in Sessions :
                  \/ record'[s] = record[s]
                  \/ s = active.session /\ record'[s] \in {"CreationUncertain", "Established"}
             /\ \/ unresolved' = unresolved
                \/ /\ unresolved' = unresolved \cup {active.session}
                   /\ record'[active.session] # "Absent"
             /\ active'.pc = "done"
  <2>1. PICK after \in Settled(record[active.session], uncertain) :
          record' = [record EXCEPT ![active.session] = after]
    BY <1>4 DEF TaskFinishes
  <2>2. after \in {record[active.session], "CreationUncertain", "Established"}
    BY <1>0, <1>1, <1>4, <2>1, SettledIsLifecycle
  <2>3. uncertain => after # "Absent"
    BY <2>1 DEF Settled
  <2>4. active'.pc = "done"
    BY <1>0, <1>4 DEF TaskFinishes, TaskType
  <2>5. unresolved' = IF uncertain THEN unresolved \cup {active.session} ELSE unresolved
    BY <1>4 DEF TaskFinishes
  <2> QED BY <1>0, <1>1, <2>1, <2>2, <2>3, <2>4, <2>5
<1> QED BY <1>1, <1>2, <1>3, <1>4 DEF Task

\* A task that ends uncertain leaves its TurnFinished between the user and the session.
LEMMA TaskKeepsDoubt ==
  ASSUME SafeInv, StageInv, DoubtInv, Task
  PROVE  DoubtInv'
<1>0. /\ queue \in Seq(EventType) /\ ServiceOK /\ app' = app /\ effect' = effect
  BY DEF SafeInv, ServiceOK, ServiceTypeOK, Task, TaskBegins, TaskInitializes, TaskSpeaks,
         TaskFinishes, TaskKeeps
<1>1. PICK e \in EventType :
        /\ queue' = Append(queue, e) /\ e.session = active.session /\ e.turn = active.turn
        /\ active'.turn = active.turn /\ active'.session = active.session
        /\ \/ /\ active.pc = "launched" /\ e.kind = "TurnStarted"
              /\ active'.pc = "open" /\ last' = active.turn
           \/ /\ active.pc = "open" /\ active' = active /\ last' = last
              /\ e.kind = "Initialized" \/ (e.kind = "TextDelta" /\ initialized)
           \/ /\ active.pc = "open" /\ active'.pc = "done" /\ e.kind = "TurnFinished"
              /\ last' = last /\ TaskFinishes(e.outcome, e.uncertain)
  BY <1>0, TaskSays
<1>2. \A kind, t : Queued(kind, t)' <=> \/ Queued(kind, t)
                                        \/ e.kind = kind /\ e.turn = t
  BY <1>0, <1>1, QueuedGrows
<1>3. /\ DOMAIN queue' = 1 .. Len(queue) + 1 /\ DOMAIN queue = 1 .. Len(queue)
      /\ Len(queue) \in Nat /\ queue'[Len(queue) + 1] = e
      /\ \A k \in DOMAIN queue : queue'[k] = queue[k]
  BY <1>0, <1>1, Said
<1>4. /\ active.session \in Sessions
      /\ \A s \in Sessions :
           \/ record'[s] = record[s]
           \/ s = active.session /\ record'[s] \in {"CreationUncertain", "Established"}
      /\ \/ unresolved' = unresolved
         \/ /\ unresolved' = unresolved \cup {active.session}
            /\ record'[active.session] # "Absent"
      /\ active'.pc # "done" => unresolved' = unresolved
  BY TaskRecords
<1>5. TaskRunning /\ effect # "send" /\ TurnActive(app) /\ active.session \notin unresolved
  BY <1>1 DEF TaskRunning, StageInv, DoubtInv
<1>6. \A s \in unresolved' : record'[s] # "Absent"
  BY <1>4 DEF DoubtInv, SafeInv, ScreenOK, ScreenTypeOK
<1>7. TaskRunning' => active'.session \notin unresolved'
  BY <1>1, <1>4, <1>5 DEF TaskRunning
<1>8. ASSUME NEW k \in DOMAIN queue', queue'[k].kind = "TurnFinished",
             queue'[k].session \in unresolved'
      PROVE  queue'[k].uncertain
  <2>1. CASE k \in DOMAIN queue
    <3>1. queue[k].kind # "TurnFinished"
      BY <1>5, <2>1 DEF StageInv, TaskRunning
    <3> QED BY <1>3, <1>8, <2>1, <3>1
  <2>2. CASE k = Len(queue) + 1
    <3>1. e.kind = "TurnFinished" /\ active.session \in unresolved'
      BY <1>1, <1>3, <1>8, <2>2
    <3>2. unresolved' = IF e.uncertain THEN unresolved \cup {active.session} ELSE unresolved
      BY <1>1, <3>1 DEF TaskFinishes
    <3> QED BY <1>3, <1>5, <2>2, <3>1, <3>2
  <2> QED BY <1>3, <2>1, <2>2
<1>9. DoubtIsShown'
  <2> SUFFICES ASSUME NEW s \in unresolved', app'.conversation = Ready(s),
                      app'.provider = "Claude"
               PROVE  \/ Queued("TurnFinished", app.turn.turn)' /\ app'.turn.kind = "Streaming"
                      \/ Queued("TurnStarted", last)' /\ app'.turn.kind = "Starting"
    BY DEF DoubtIsShown
  <2>1. app.conversation.kind = "Ready" /\ app.conversation.id = s
    BY <1>0 DEF Ready
  <2>2. s = active.session
    BY <1>0, <1>5, <2>1 DEF DoubtInv
  <2>3. active'.pc = "done" /\ e.kind = "TurnFinished" /\ last' = last
    BY <1>1, <1>4, <1>5, <2>2
  <2>4. PICK u : u = active.turn
    OBVIOUS
  <2>5. Queued("TurnFinished", u)'
    BY <1>1, <1>2, <2>3, <2>4
  <2>6. CASE app.turn.kind = "Streaming"
    <3>1. app.turn = Streaming(active.session, active.turn)
      BY <2>6 DEF StageInv
    <3>2. app'.turn.turn = u
      BY <1>0, <2>4, <3>1 DEF Streaming
    <3>3. Queued("TurnFinished", app.turn.turn)'
      BY <2>5, <3>2
    <3> QED BY <1>0, <2>6, <3>3
  <2>7. CASE app.turn.kind = "Starting"
    <3>1. active.pc = "open"
      BY <1>1, <2>3
    <3>2. queue # <<>> /\ last = active.turn
      BY <2>7, <3>1 DEF StageInv
    <3>3. 1 \in DOMAIN queue
      BY <1>0, <3>2
    <3>4. queue[1].kind = "TurnStarted" /\ queue[1].turn = active.turn
      BY <2>7, <3>3 DEF StageInv
    <3>5. Queued("TurnStarted", u)
      BY <1>3, <2>4, <3>3, <3>4 DEF Queued
    <3>6. Queued("TurnStarted", u)'
      BY <1>2, <3>5
    <3>7. last' = u
      BY <2>3, <2>4, <3>2
    <3>8. Queued("TurnStarted", last)'
      BY <3>6, <3>7
    <3> QED BY <1>0, <2>7, <3>8
  <2> QED BY <1>5, <2>6, <2>7 DEF TurnActive
<1>10. TurnActive(app') /\ effect' # "send" /\ app'.conversation.kind = "Ready" =>
         app'.conversation.id = active'.session
  BY <1>0, <1>1 DEF DoubtInv
<1> QED BY <1>6, <1>7, <1>8, <1>9, <1>10 DEF DoubtInv

\* The reducer shows the doubt that it receives.
LEMMA ReceiveKeepsDoubt ==
  ASSUME SafeInv, StageInv, DoubtInv, Stream!Receive, effect # "send", effect' # "send",
         UNCHANGED <<active, record, unresolved>>,
         NEW text, app' = Reduced(app, Head(queue), text)
  PROVE  DoubtInv'
<1>0. queue # <<>> /\ queue' = Tail(queue) /\ last' = last /\ TypeOK
  BY DEF Stream!Receive, SafeInv, ScreenOK, ServiceOK, TypeOK
<1>1. /\ Len(queue) \in Nat \ {0} /\ DOMAIN queue = 1 .. Len(queue)
      /\ DOMAIN queue' = 1 .. Len(queue) - 1
      /\ \A k \in DOMAIN queue' : k + 1 \in DOMAIN queue /\ queue'[k] = queue[k + 1]
  BY <1>0, HeadIsEvent
<1>2. \A kind, t : Queued(kind, t) => \/ Queued(kind, t)'
                                      \/ Head(queue).kind = kind /\ Head(queue).turn = t
  BY <1>0, QueuedShrinks
<1>3. LET e == Head(queue)
      IN /\ e \in EventType /\ e.turn = active.turn /\ e.session = active.session
         /\ e = queue[1] /\ 1 \in DOMAIN queue
         /\ app'.provider = "Claude" /\ app.provider = "Claude"
         /\ active.pc \in {"open", "done"}
         /\ \/ /\ app.turn.kind = "Starting" /\ e.kind = "TurnStarted"
               /\ app'.conversation = Ready(active.session)
               /\ app'.turn = Streaming(active.session, active.turn)
            \/ /\ app.turn = Streaming(active.session, active.turn) /\ app'.turn = app.turn
               /\ e.kind \notin {"TurnStarted", "TurnFinished"}
               /\ app'.conversation = app.conversation
            \/ /\ app.turn = Streaming(active.session, active.turn) /\ ~TurnActive(app')
               /\ e.kind = "TurnFinished"
               /\ app'.conversation = (IF e.uncertain THEN Uncertain(active.session)
                                       ELSE app.conversation)
  BY <1>0, QuietReceive
<1>4. /\ \A s \in unresolved' : record'[s] # "Absent"
      /\ TaskRunning' => active'.session \notin unresolved'
  BY DEF DoubtInv, TaskRunning
<1>5. \A k \in DOMAIN queue' :
        queue'[k].kind = "TurnFinished" /\ queue'[k].session \in unresolved' =>
          queue'[k].uncertain
  BY <1>1 DEF DoubtInv
<1>6. CASE /\ app.turn.kind = "Starting" /\ Head(queue).kind = "TurnStarted"
           /\ app'.conversation = Ready(active.session)
           /\ app'.turn = Streaming(active.session, active.turn)
  <2>1. app'.conversation.id = active'.session
    BY <1>6 DEF Ready
  <2>2. DoubtIsShown'
    <3> SUFFICES ASSUME NEW s \in unresolved', app'.conversation = Ready(s)
                 PROVE  /\ Queued("TurnFinished", app.turn.turn)'
                        /\ app'.turn.kind = "Streaming"
      BY DEF DoubtIsShown
    <3>1. s = active.session
      BY <1>6 DEF Ready
    <3>2. active.pc = "done"
      BY <1>3, <3>1 DEF DoubtInv, TaskRunning
    <3>3. Len(queue) \in DOMAIN queue
      BY <1>1
    <3>4. queue[Len(queue)].kind = "TurnFinished" /\ queue[Len(queue)].turn = active.turn
      BY <3>2, <3>3 DEF StageInv
    <3>5. PICK u : u = active.turn
      OBVIOUS
    <3>6. Queued("TurnFinished", u)
      BY <1>1, <3>3, <3>4, <3>5 DEF Queued
    <3>7. Queued("TurnFinished", u)'
      BY <1>2, <1>6, <3>6
    <3>8. app'.turn.turn = u /\ app'.turn.kind = "Streaming"
      BY <1>6, <3>5 DEF Streaming
    <3> QED BY <3>7, <3>8
  <2> QED BY <1>4, <1>5, <2>1, <2>2 DEF DoubtInv
<1>7. CASE /\ app.turn = Streaming(active.session, active.turn) /\ app'.turn = app.turn
           /\ Head(queue).kind \notin {"TurnStarted", "TurnFinished"}
           /\ app'.conversation = app.conversation
  <2>1. app.turn.kind = "Streaming" /\ TurnActive(app)
    BY <1>7 DEF Streaming, TurnActive
  <2>2. app'.conversation.kind = "Ready" => app'.conversation.id = active'.session
    BY <1>7, <2>1 DEF DoubtInv
  <2>3. DoubtIsShown'
    <3> SUFFICES ASSUME NEW s \in unresolved', app'.conversation = Ready(s)
                 PROVE  Queued("TurnFinished", app.turn.turn)'
      BY <1>7, <2>1 DEF DoubtIsShown
    <3>1. Queued("TurnFinished", app.turn.turn)
      BY <1>3, <1>7, <2>1 DEF DoubtInv, DoubtIsShown
    <3>2. PICK u : u = app.turn.turn
      OBVIOUS
    <3>3. Queued("TurnFinished", u)'
      BY <1>2, <1>7, <3>1, <3>2
    <3> QED BY <1>7, <3>2, <3>3
  <2> QED BY <1>4, <1>5, <2>2, <2>3 DEF DoubtInv
<1>8. CASE /\ app.turn = Streaming(active.session, active.turn) /\ ~TurnActive(app')
           /\ Head(queue).kind = "TurnFinished"
           /\ app'.conversation = (IF Head(queue).uncertain THEN Uncertain(active.session)
                                   ELSE app.conversation)
  <2>1. TurnActive(app)
    BY <1>8 DEF Streaming, TurnActive
  <2>2. DoubtIsShown'
    <3> SUFFICES ASSUME NEW s \in unresolved', app'.conversation = Ready(s)
                 PROVE  FALSE
      BY DEF DoubtIsShown
    <3>1. ~Head(queue).uncertain /\ app.conversation = Ready(s)
      BY <1>8 DEF Ready, Uncertain
    <3>2. s = active.session
      BY <2>1, <3>1 DEF DoubtInv, Ready
    <3>3. queue[1].kind = "TurnFinished" /\ queue[1].session \in unresolved /\ ~queue[1].uncertain
      BY <1>3, <1>8, <3>1, <3>2
    <3> QED BY <1>3, <3>3 DEF DoubtInv
  <2> QED BY <1>4, <1>5, <1>8, <2>2 DEF DoubtInv
<1> QED BY <1>3, <1>6, <1>7, <1>8

\* What a step of the coordinator leaves alone that neither receives nor sends.
LEMMA OtherStep ==
  ASSUME SafeInv, StageInv, Quiet, [Next]_vars
  PROVE  \/ Intent \/ AuthFinished \/ Send \/ Task
         \/ /\ DrainReceives \/ Receive
            /\ Stream!Receive /\ UNCHANGED <<active, record, unresolved, attached, owner, nextTurn>>
            /\ effect # "send" /\ effect' # "send"
            /\ \E text : app' = Reduced(app, Head(queue), text)
         \/ /\ \E s \in Sessions : \E registration, pointer :
                 StartNew(s, registration, pointer)
            /\ UNCHANGED <<unresolved, active, nextTurn, owner, streamVars>>
            /\ ~TurnActive(app) /\ queue = <<>> /\ ~TaskRunning
         \/ /\ Quit \/ Crash
            /\ Restarts /\ saved' \in PreferencesType
         \/ /\ app'.provider = app.provider /\ app'.conversation = app.conversation
            /\ app'.turn = app.turn /\ app'.shown = app.shown
            /\ UNCHANGED <<record, unresolved, attached, owner, nextTurn, streamVars>>
            /\ \/ active' = active
               \/ active' = NoTask /\ ~TaskRunning /\ queue = <<>>
            /\ \/ effect' = effect
               \/ effect # "send" /\ effect' # "send"
<1>0. app \in AppType /\ ScreenInv
  BY DEF SafeInv, ScreenOK, ScreenTypeOK
<1>1. CASE DrainReceives \/ Receive
  <2>1. /\ Stream!Receive /\ UNCHANGED <<active, record, unresolved, attached, owner, nextTurn>>
        /\ effect # "send" /\ effect' # "send"
    BY <1>1 DEF DrainReceives, Draining, Receive, CoordinatorFree
  <2>2. \E text : app' = Reduced(app, Head(queue), text)
    BY <1>1 DEF DrainReceives, Receive
  <2> QED BY <1>1, <2>1, <2>2
<1>2. ASSUME NEW s \in Sessions, NEW registration, NEW pointer,
             StartNew(s, registration, pointer)
      PROVE  /\ UNCHANGED <<unresolved, active, nextTurn, owner, streamVars>>
             /\ ~TurnActive(app) /\ queue = <<>> /\ ~TaskRunning
  BY <1>0, <1>2 DEF StartNew, ScreenInv, StageInv
<1>3. CASE Quit \/ Crash
  BY <1>3, RestartsFile DEF SafeInv, ScreenOK
<1>4. CASE DrainEnds
  <2>1. /\ app'.provider = app.provider /\ app'.conversation = app.conversation
        /\ app'.turn = app.turn /\ app'.shown = app.shown
    BY <1>0, <1>4 DEF DrainEnds, AppType
  <2> QED BY <1>4, <2>1 DEF DrainEnds, Draining
<1>5. CASE Persist
  BY <1>5 DEF Persist, serviceVars
<1>6. CASE UNCHANGED vars
  BY <1>6 DEF vars, serviceVars
<1>7. ~CodexSafetyViolation
  BY DEF CodexSafetyViolation, Quiet
<1>8. CASE \E s \in Sessions, registration \in Commits("registration"),
              pointer \in Commits("preferences") : StartNew(s, registration, pointer)
  BY <1>2, <1>8
<1> QED BY <1>1, <1>3, <1>4, <1>5, <1>6, <1>7, <1>8 DEF Next, Execute

\* The forms of a conversation are told apart.
LEMMA ConversationsDiffer ==
  /\ \A r, s : Ready(r) = Ready(s) => r = s
  /\ \A r, s : Ready(r) # Uncertain(s) /\ Ready(r) # Blocked(s)
  /\ \A r : Ready(r) # NoConversation
<1>1. \A r : Ready(r).kind = "Ready" /\ Ready(r).id = r
  BY DEF Ready
<1>2. \A s : Uncertain(s).kind = "CreationUncertain" /\ Blocked(s).kind = "ResumeFailed"
  BY DEF Uncertain, Blocked
<1>3. NoConversation.kind = "None"
  BY DEF NoConversation
<1>4. ASSUME NEW r, NEW s, Ready(r) = Ready(s)
      PROVE  r = s
  BY <1>1, <1>4
<1>5. ASSUME NEW r, NEW s
      PROVE  Ready(r) # Uncertain(s) /\ Ready(r) # Blocked(s)
  BY <1>1, <1>2
<1>6. ASSUME NEW r
      PROVE  Ready(r) # NoConversation
  BY <1>1, <1>3
<1> QED BY <1>4, <1>5, <1>6

\* Without a turn and a queue there is no doubt about the conversation that takes messages.
LEMMA NoDoubtWhenIdle ==
  ASSUME DoubtIsShown, app.provider = "Claude", \/ ~TurnActive(app)
                                                \/ queue = <<>>
  PROVE  \A s \in unresolved : app.conversation # Ready(s)
<1>1. queue = <<>> => \A kind, t : ~Queued(kind, t)
  BY DEF Queued
<1> QED BY <1>1 DEF DoubtIsShown, TurnActive

\* A step between turns that begins no uncertain conversation keeps the doubts shown.
LEMMA DoubtIdle ==
  ASSUME DoubtInv, queue' = <<>>, ~TaskRunning', unresolved' \subseteq unresolved,
         \A s \in unresolved' : record'[s] # "Absent",
         app'.provider = "Claude" => \A s \in unresolved' : app'.conversation # Ready(s),
         ~TurnActive(app') \/ effect' = "send"
  PROVE  DoubtInv'
<1>1. DoubtIsShown'
  BY DEF DoubtIsShown
<1> QED BY <1>1 DEF DoubtInv

\* No step hides a doubt.
LEMMA DoubtStep ==
  ASSUME Quiet, SafeInv, StageInv, DoubtInv, [Next]_vars
  PROVE  DoubtInv'
<1>0. /\ app \in AppType /\ active \in TaskType /\ ScreenInv /\ TypeOK
      /\ record \in [Sessions -> Lifecycles] /\ unresolved \subseteq Sessions
  BY DEF SafeInv, ScreenOK, ScreenTypeOK, ServiceOK, ServiceTypeOK, TypeOK
<1>a. /\ ~TurnActive(app) => queue = <<>> /\ ~TaskRunning
      /\ \A s \in unresolved : record[s] # "Absent"
  BY DEF StageInv, DoubtInv
<1>1. CASE Intent \/ AuthFinished
  <2>1. /\ UNCHANGED streamVars
        /\ active' = active \/ active' = Cancelled(active)
        /\ effect = "none"
        /\ \/ effect' # "send" /\ app'.turn = app.turn
           \/ effect' # "send" /\ ~TurnActive(app) /\ ~TurnActive(app')
           \/ effect' = "send" /\ ~TurnActive(app)
        /\ \/ /\ app'.provider = app.provider /\ app'.conversation = app.conversation
              /\ UNCHANGED <<unresolved, record>>
           \/ /\ app'.provider = app.provider /\ UNCHANGED <<unresolved, record>>
              /\ \/ app'.conversation = Blocked(app.pointer)
                 \/ app'.conversation = app.conversation
           \/ app'.conversation = NoConversation /\ UNCHANGED <<unresolved, record>>
           \/ app'.provider = "Other" /\ UNCHANGED <<unresolved, record>> /\ ~TurnActive(app')
           \/ \E s \in Sessions :
                /\ app'.conversation = Ready(s) /\ unresolved' = unresolved \ {s}
                /\ record' = record /\ ~TurnActive(app) /\ ~TurnActive(app')
           \/ \E s \in Sessions :
                /\ app' = app /\ unresolved' = unresolved /\ ~TurnActive(app)
                /\ record' = [record EXCEPT ![s] = "Deleted"]
    BY <1>1, QuietIntent
  <2>2. /\ TaskRunning' <=> TaskRunning
        /\ active'.session = active.session
    BY <1>0, <2>1 DEF TaskRunning, Cancelled, TaskType
  <2>3. unresolved' \subseteq unresolved /\ \A s \in unresolved' : record'[s] # "Absent"
    BY <1>0, <1>a, <2>1
  <2>4. CASE ~TurnActive(app)
    <3>1. app'.provider = "Claude" => \A s \in unresolved' : app'.conversation # Ready(s)
      <4>1. app.provider = "Claude" => \A s \in unresolved : app.conversation # Ready(s)
        BY <2>4, NoDoubtWhenIdle DEF DoubtInv
      <4>2. CASE \E s \in Sessions :
                   app'.conversation = Ready(s) /\ unresolved' = unresolved \ {s}
        BY <4>2, ConversationsDiffer
      <4>3. CASE \/ app'.conversation = Blocked(app.pointer)
                 \/ app'.conversation = NoConversation
                 \/ app'.provider = "Other"
        BY <4>3, ConversationsDiffer
      <4>4. CASE app'.provider = app.provider /\ app'.conversation = app.conversation
        BY <2>3, <4>1, <4>4
      <4> QED BY <2>1, <4>2, <4>3, <4>4
    <3>2. ~TurnActive(app') \/ effect' = "send"
      BY <2>1, <2>4 DEF TurnActive
    <3> QED BY <1>a, <2>1, <2>2, <2>3, <2>4, <3>1, <3>2, DoubtIdle DEF streamVars
  <2>5. CASE TurnActive(app)
    <3>1. /\ app'.turn = app.turn /\ unresolved' = unresolved /\ TurnActive(app')
          /\ \/ app'.provider = app.provider /\ app'.conversation = app.conversation
             \/ app'.conversation.kind # "Ready"
      BY <2>1, <2>5 DEF TurnActive, Blocked, NoConversation
    <3>2. DoubtIsShown'
      <4>1. \A kind, t : Queued(kind, t)' <=> Queued(kind, t)
        BY <2>1 DEF Queued, streamVars
      <4>2. last' = last
        BY <2>1 DEF streamVars
      <4> SUFFICES ASSUME NEW s \in unresolved', app'.conversation = Ready(s),
                          app'.provider = "Claude"
                   PROVE  \/ Queued("TurnFinished", app.turn.turn)' /\ app'.turn.kind = "Streaming"
                          \/ Queued("TurnStarted", last)' /\ app'.turn.kind = "Starting"
        BY DEF DoubtIsShown
      <4>3. app.conversation = Ready(s) /\ app.provider = "Claude"
        BY <3>1 DEF Ready
      <4>4. \/ Queued("TurnFinished", app.turn.turn) /\ app.turn.kind = "Streaming"
            \/ Queued("TurnStarted", last) /\ app.turn.kind = "Starting"
        BY <3>1, <4>3 DEF DoubtInv, DoubtIsShown
      <4> QED BY <3>1, <4>1, <4>2, <4>4
    <3>3. app'.conversation.kind = "Ready" => app'.conversation.id = active'.session
      BY <2>1, <2>2, <2>5, <3>1 DEF DoubtInv
    <3> QED BY <2>1, <2>2, <2>3, <3>1, <3>2, <3>3 DEF DoubtInv, streamVars
  <2> QED BY <2>4, <2>5
<1>2. CASE Send
  <2>1. /\ effect = "send" /\ queue = <<>> /\ ~TaskRunning /\ app.provider = "Claude"
        /\ UNCHANGED <<unresolved, streamVars>>
        /\ \/ /\ ~TurnActive(app') /\ app'.conversation = app.conversation
              /\ active' = active \/ active' = NoTask
              /\ record' = record
           \/ \E s \in Unused :
                /\ \/ app'.conversation = Ready(s) /\ effect' = "send"
                   \/ app'.conversation = Uncertain(s) /\ ~TurnActive(app')
                /\ active' = active /\ record' = [record EXCEPT ![s] = "Fresh"]
           \/ \E s \in Sessions :
                /\ app.conversation = Ready(s) /\ app' = app /\ record' = record
                /\ active'.pc = "launched" /\ active'.session = s
    BY <1>2, QuietSend
  <2>2. /\ \A s \in unresolved : app.conversation # Ready(s)
        /\ queue' = <<>> /\ unresolved' = unresolved
    BY <2>1, NoDoubtWhenIdle DEF DoubtInv, streamVars
  <2>3. CASE /\ ~TurnActive(app') /\ app'.conversation = app.conversation
             /\ active' = active \/ active' = NoTask
             /\ record' = record
    <3>1. ~TaskRunning'
      BY <2>1, <2>3 DEF TaskRunning, NoTask
    <3> QED BY <1>a, <2>2, <2>3, <3>1, DoubtIdle
  <2>4. ASSUME NEW s \in Unused,
               \/ app'.conversation = Ready(s) /\ effect' = "send"
               \/ app'.conversation = Uncertain(s) /\ ~TurnActive(app'),
               active' = active, record' = [record EXCEPT ![s] = "Fresh"]
        PROVE  DoubtInv'
    <3>1. s \in Sessions /\ s \notin unresolved
      BY <1>a DEF Unused
    <3>2. ~TaskRunning'
      BY <2>1, <2>4 DEF TaskRunning
    <3>3. \A r \in unresolved' : record'[r] # "Absent" /\ app'.conversation # Ready(r)
      <4> TAKE r \in unresolved'
      <4>1. r \in unresolved /\ r \in Sessions /\ r # s
        BY <1>0, <2>2, <3>1
      <4>2. record'[r] # "Absent"
        BY <1>0, <1>a, <2>4, <4>1
      <4>3. app'.conversation # Ready(r)
        BY <2>4, <4>1, ConversationsDiffer
      <4> QED BY <4>2, <4>3
    <3> QED BY <2>2, <2>4, <3>2, <3>3, DoubtIdle
  <2>5. ASSUME NEW s \in Sessions, app.conversation = Ready(s), app' = app, record' = record,
               active'.pc = "launched", active'.session = s
        PROVE  DoubtInv'
    <3>1. s \notin unresolved /\ app'.conversation.id = active'.session
      BY <2>2, <2>5 DEF Ready
    <3>2. DoubtIsShown'
      BY <2>2, <2>5 DEF DoubtIsShown
    <3> QED BY <1>a, <2>2, <2>5, <3>1, <3>2 DEF DoubtInv
  <2> QED BY <2>1, <2>3, <2>4, <2>5
<1>3. CASE Task
  BY <1>3, TaskKeepsDoubt
<1>4. ASSUME Stream!Receive, UNCHANGED <<active, record, unresolved>>,
             effect # "send", effect' # "send", NEW text, app' = Reduced(app, Head(queue), text)
      PROVE  DoubtInv'
  BY <1>4, ReceiveKeepsDoubt
<1>5. ASSUME NEW s \in Sessions, NEW registration, NEW pointer,
             StartNew(s, registration, pointer), UNCHANGED <<unresolved, active, streamVars>>,
             ~TurnActive(app), queue = <<>>, ~TaskRunning
      PROVE  DoubtInv'
  <2>1. /\ app'.provider = app.provider /\ effect' = "none" /\ ~TurnActive(app')
        /\ record' = record \/ record' = [record EXCEPT ![s] = "Fresh"]
        /\ \/ app'.conversation = Ready(s) \/ app'.conversation = Uncertain(s)
           \/ app'.conversation = app.conversation
    BY <1>0, <1>5, NewScreen
  <2>2. s \notin unresolved
    BY <1>5, <1>a DEF StartNew, Unused
  <2>3. app.provider = "Claude" => \A r \in unresolved : app.conversation # Ready(r)
    BY <1>5, NoDoubtWhenIdle DEF DoubtInv
  <2>4. /\ \A r \in unresolved' : record'[r] # "Absent"
        /\ app'.provider = "Claude" => \A r \in unresolved' : app'.conversation # Ready(r)
    BY <1>0, <1>5, <1>a, <2>1, <2>2, <2>3 DEF Ready, Uncertain
  <2> QED BY <1>5, <2>1, <2>4, DoubtIdle DEF streamVars, TaskRunning
<1>6. ASSUME Restarts, saved' \in PreferencesType
      PROVE  DoubtInv'
  <2>1. /\ ~TurnActive(app') /\ app'.conversation.kind \in {"None", "ResumeFailed"}
        /\ queue' = <<>> /\ active' = NoTask /\ unresolved' = unresolved
    BY <1>6, RestartsScreen
  <2>2. \/ record' = record
        \/ /\ TaskRunning
           /\ \E after \in Lifecycles : record' = [record EXCEPT ![active.session] = after]
    BY <1>6, RestartsRecord DEF SafeInv
  <2>3. TaskRunning => active.session \notin unresolved
    BY DEF DoubtInv
  <2>4. \A s \in unresolved' : record'[s] # "Absent"
    BY <1>0, <1>a, <2>1, <2>2, <2>3
  <2> QED BY <2>1, <2>4, DoubtIdle DEF Ready, TaskRunning, NoTask
<1>7. ASSUME app'.provider = app.provider, app'.conversation = app.conversation,
             app'.turn = app.turn, UNCHANGED <<record, unresolved, streamVars>>,
             \/ active' = active
             \/ active' = NoTask /\ ~TaskRunning /\ queue = <<>>,
             \/ effect' = effect
             \/ effect # "send" /\ effect' # "send"
      PROVE  DoubtInv'
  <2>1. \A kind, t : Queued(kind, t)' <=> Queued(kind, t)
    BY <1>7 DEF Queued, streamVars
  <2>2. DoubtIsShown'
    BY <1>7, <2>1 DEF DoubtInv, DoubtIsShown, streamVars
  <2>3. CASE active' = active
    BY <1>7, <2>2, <2>3 DEF DoubtInv, TurnActive, TaskRunning, streamVars
  <2>4. CASE active' = NoTask /\ ~TaskRunning /\ queue = <<>>
    <3>1. ~TurnActive(app) \/ effect = "send"
      BY <2>4 DEF StageInv, TurnActive, TaskRunning
    <3>2. ~TaskRunning'
      BY <2>4 DEF TaskRunning, NoTask
    <3>3. app'.provider = "Claude" => \A s \in unresolved' : app'.conversation # Ready(s)
      BY <1>7, <2>4, NoDoubtWhenIdle DEF DoubtInv
    <3>4. ~TurnActive(app') \/ effect' = "send"
      BY <1>7, <3>1 DEF TurnActive
    <3> QED BY <1>a, <1>7, <2>4, <3>2, <3>3, <3>4, DoubtIdle DEF streamVars
  <2> QED BY <1>7, <2>3, <2>4
<1> QED BY <1>1, <1>2, <1>3, <1>4, <1>5, <1>6, <1>7, OtherStep

-----------------------------------------------------------------------------
(* What the user attached, kept and sees.                                  *)

\* The turn's events only show what the turn is of.
LEMMA TaskLeavesScreen ==
  ASSUME SafeInv, Task
  PROVE  /\ UNCHANGED <<app, effect, attached, owner, nextTurn>>
         /\ active'.session = active.session /\ active'.turn = active.turn
         /\ TaskRunning /\ queue' # <<>>
<1>1. UNCHANGED <<app, effect, attached, owner, nextTurn>> /\ TaskRunning
  BY DEF Task, TaskBegins, TaskInitializes, TaskSpeaks, TaskFinishes, TaskKeeps, TaskRunning
<1>2. PICK e \in EventType :
        /\ queue' = Append(queue, e)
        /\ active'.turn = active.turn /\ active'.session = active.session
  BY TaskSays DEF SafeInv
<1>3. queue \in Seq(EventType)
  BY DEF SafeInv, ServiceOK, ServiceTypeOK
<1>4. queue' # <<>>
  BY <1>2, <1>3, Said
<1> QED BY <1>1, <1>2, <1>4

\* No step attaches a session that the user did not choose.
LEMMA AttachedStep ==
  ASSUME Quiet, SafeInv, StageInv, AttachedInv, [Next]_vars
  PROVE  AttachedInv'
<1>0. /\ app \in AppType /\ active \in TaskType /\ ScreenInv /\ TypeOK /\ PointerFollows
      /\ attached \subseteq Sessions
  BY DEF SafeInv, ScreenOK, ScreenTypeOK, ServiceOK, ServiceTypeOK, TypeOK
<1>a. /\ app.provider = "Claude" /\ app.conversation.kind = "Ready"
           => app.conversation.id \in attached
      /\ app.turn.kind = "Starting" /\ effect # "send" => active.session \in attached
  BY DEF AttachedInv, NeverAttachedSilently
<1>b. SUFFICES /\ app'.provider = "Claude" /\ app'.conversation.kind = "Ready"
                    => app'.conversation.id \in attached'
               /\ app'.turn.kind = "Starting" /\ effect' # "send" => active'.session \in attached'
  BY DEF AttachedInv, NeverAttachedSilently
<1>1. CASE Intent \/ AuthFinished
  <2>1. /\ active' = active \/ active' = Cancelled(active)
        /\ effect = "none"
        /\ \/ effect' # "send" /\ app'.turn = app.turn
           \/ effect' # "send" /\ ~TurnActive(app')
           \/ effect' = "send"
        /\ \/ /\ app'.provider = app.provider /\ app'.conversation = app.conversation
              /\ attached' = attached
           \/ /\ app'.provider = app.provider
              /\ attached' = attached \/ attached' = {}
              /\ app'.conversation = IF app.provider = "Claude" /\ app.pointer # NoSession
                                     THEN Blocked(app.pointer) ELSE app.conversation
              /\ attached' # attached => ~TurnActive(app)
           \/ app'.conversation = NoConversation /\ attached' = attached
           \/ app'.provider = "Other" /\ attached' = attached
           \/ \E s \in Sessions :
                /\ app'.conversation = Ready(s) /\ attached' = attached \cup {s}
                /\ ~TurnActive(app')
           \/ app' = app /\ attached' = attached
    BY <1>1, QuietIntent
  <2>2. active'.session = active.session
    BY <1>0, <2>1 DEF Cancelled, TaskType
  <2>3. app'.provider = "Claude" /\ app'.conversation.kind = "Ready"
          => app'.conversation.id \in attached'
    <3>1. CASE /\ app'.provider = app.provider /\ app'.conversation = app.conversation
               /\ attached' = attached
      BY <1>a, <3>1
    <3>2. CASE /\ app'.provider = app.provider
               /\ attached' = attached \/ attached' = {}
               /\ app'.conversation = IF app.provider = "Claude" /\ app.pointer # NoSession
                                      THEN Blocked(app.pointer) ELSE app.conversation
      <4>1. CASE app.provider = "Claude" /\ app.pointer # NoSession
        BY <3>2, <4>1 DEF Blocked
      <4>2. CASE app.provider = "Claude" /\ app.pointer = NoSession
        <5>1. app.conversation.id \notin attached /\ app'.conversation = app.conversation
          BY <1>0, <3>2, <4>2, AppAssumption DEF PointerFollows
        <5> QED BY <1>a, <4>2, <5>1
      <4>3. CASE app.provider # "Claude"
        BY <3>2, <4>3
      <4> QED BY <4>1, <4>2, <4>3
    <3>3. CASE app'.conversation = NoConversation
      BY <3>3 DEF NoConversation
    <3>4. CASE app'.provider = "Other"
      BY <3>4
    <3>5. ASSUME NEW s \in Sessions, app'.conversation = Ready(s), attached' = attached \cup {s}
          PROVE  app'.conversation.id \in attached'
      BY <3>5 DEF Ready
    <3> QED BY <1>a, <2>1, <3>1, <3>2, <3>3, <3>4, <3>5
  <2>4. app'.turn.kind = "Starting" /\ effect' # "send" => active'.session \in attached'
    <3> SUFFICES ASSUME app'.turn.kind = "Starting", effect' # "send"
                 PROVE  active'.session \in attached'
      OBVIOUS
    <3>1. TurnActive(app') /\ app'.turn = app.turn /\ TurnActive(app)
      BY <2>1 DEF TurnActive
    <3>2. active.session \in attached
      BY <1>a, <2>1, <3>1
    <3>3. attached' = attached
      BY <2>1, <3>1
    <3> QED BY <2>2, <3>2, <3>3
  <2> QED BY <2>3, <2>4
<1>2. CASE Send
  <2>1. /\ effect = "send" /\ app.provider = "Claude"
        /\ \/ /\ ~TurnActive(app') /\ app'.conversation = app.conversation
              /\ attached' = attached
           \/ \E s \in Unused :
                /\ \/ app'.conversation = Ready(s) /\ effect' = "send"
                   \/ app'.conversation = Uncertain(s) /\ ~TurnActive(app')
                /\ attached' = attached \cup {s}
           \/ \E s \in Sessions :
                /\ app.conversation = Ready(s) /\ app' = app /\ attached' = attached
                /\ active'.session = s
    BY <1>2, QuietSend
  <2>2. CASE ~TurnActive(app') /\ app'.conversation = app.conversation /\ attached' = attached
    BY <1>a, <2>1, <2>2 DEF TurnActive
  <2>3. ASSUME NEW s \in Unused, attached' = attached \cup {s},
               \/ app'.conversation = Ready(s) /\ effect' = "send"
               \/ app'.conversation = Uncertain(s) /\ ~TurnActive(app')
        PROVE  /\ app'.conversation.kind = "Ready" => app'.conversation.id \in attached'
               /\ app'.turn.kind = "Starting" => effect' = "send"
    BY <2>3 DEF Ready, Uncertain, TurnActive
  <2>4. ASSUME NEW s \in Sessions, app.conversation = Ready(s), app' = app,
               attached' = attached, active'.session = s
        PROVE  /\ app'.conversation.kind = "Ready" => app'.conversation.id \in attached'
               /\ active'.session \in attached'
    BY <1>a, <2>1, <2>4 DEF Ready
  <2> QED BY <2>1, <2>2, <2>3, <2>4
<1>3. CASE Task
  BY <1>a, <1>3, TaskLeavesScreen
<1>4. ASSUME Stream!Receive, UNCHANGED <<active, attached>>,
             effect # "send", effect' # "send", NEW text, app' = Reduced(app, Head(queue), text)
      PROVE  /\ app'.provider = "Claude" /\ app'.conversation.kind = "Ready"
                  => app'.conversation.id \in attached'
             /\ app'.turn.kind = "Starting" => active'.session \in attached'
  <2>1. queue # <<>>
    BY <1>4 DEF Stream!Receive
  <2>2. /\ app.provider = "Claude"
        /\ \/ /\ app.turn.kind = "Starting" /\ app'.conversation = Ready(active.session)
              /\ app'.turn = Streaming(active.session, active.turn)
           \/ /\ app.turn = Streaming(active.session, active.turn)
              /\ app'.turn = app.turn \/ ~TurnActive(app')
              /\ \/ app'.conversation = app.conversation
                 \/ app'.conversation = Uncertain(active.session)
    BY <1>4, <2>1, QuietReceive
  <2> QED BY <1>a, <1>4, <2>2 DEF Ready, Uncertain, Streaming, TurnActive
<1>5. ASSUME NEW s \in Sessions, NEW registration, NEW pointer,
             StartNew(s, registration, pointer)
      PROVE  /\ app'.provider = "Claude" /\ app'.conversation.kind = "Ready"
                  => app'.conversation.id \in attached'
             /\ app'.turn.kind # "Starting"
  <2>1. /\ app'.provider = app.provider /\ ~TurnActive(app')
        /\ \/ /\ app'.conversation = Ready(s) \/ app'.conversation = Uncertain(s)
              /\ attached' = attached \cup {s}
           \/ app'.conversation = app.conversation /\ attached' = attached
    BY <1>0, <1>5, NewScreen
  <2> QED BY <1>a, <2>1 DEF Ready, Uncertain, TurnActive
<1>6. ASSUME Restarts, saved' \in PreferencesType
      PROVE  app'.conversation.kind # "Ready" /\ app'.turn.kind # "Starting"
  BY <1>6, RestartsScreen
<1>7. ASSUME app'.provider = app.provider, app'.conversation = app.conversation,
             app'.turn = app.turn, attached' = attached,
             \/ active' = active
             \/ active' = NoTask /\ ~TaskRunning /\ queue = <<>>,
             \/ effect' = effect
             \/ effect # "send" /\ effect' # "send"
      PROVE  /\ app'.provider = "Claude" /\ app'.conversation.kind = "Ready"
                  => app'.conversation.id \in attached'
             /\ app'.turn.kind = "Starting" /\ effect' # "send" => active'.session \in attached'
  <2>1. CASE active' = active
    BY <1>a, <1>7, <2>1
  <2>2. CASE ~TaskRunning /\ queue = <<>>
    <3>1. app.turn.kind = "Starting" => effect = "send"
      BY <2>2 DEF StageInv, TaskRunning
    <3> QED BY <1>a, <1>7, <3>1
  <2> QED BY <1>7, <2>1, <2>2
<1> QED BY <1>1, <1>2, <1>3, <1>4, <1>5, <1>6, <1>7, OtherStep

\* No step deletes the session on the screen or of the turn under way.
LEMMA KeptStep ==
  ASSUME Quiet, SafeInv, StageInv, KeptInv, [Next]_vars
  PROVE  KeptInv'
<1>0. /\ app \in AppType /\ active \in TaskType /\ ScreenInv /\ TypeOK /\ PointerFollows
      /\ record \in [Sessions -> Lifecycles]
      /\ TaskRunning => active.session \in Sessions
  BY DEF SafeInv, ScreenOK, ScreenTypeOK, ServiceOK, ServiceTypeOK, TypeOK, StreamInv, Issued
<1>a. /\ app.provider = "Claude" /\ app.conversation.kind \in {"Ready", "CreationUncertain"}
           => record[app.conversation.id] \notin {"Absent", "Deleted"}
      /\ app.conversation.kind \in {"Ready", "CreationUncertain"} => app.conversation.id \in Sessions
      /\ TaskRunning \/ queue # <<>> => record[active.session] \notin {"Absent", "Deleted"}
      /\ ~TurnActive(app) \/ effect = "send" => queue = <<>> /\ ~TaskRunning
  BY DEF KeptInv, ConversationIsKept, StageInv
<1> DEFINE Conversation ==
             /\ (app'.provider = "Claude"
                   /\ app'.conversation.kind \in {"Ready", "CreationUncertain"})
                  => record'[app'.conversation.id] \notin {"Absent", "Deleted"}
             /\ app'.conversation.kind \in {"Ready", "CreationUncertain"}
                  => app'.conversation.id \in Sessions
           Turn == TaskRunning' \/ queue' # <<>> =>
                     record'[active'.session] \notin {"Absent", "Deleted"}
<1>b. SUFFICES Conversation /\ Turn
  BY DEF KeptInv, ConversationIsKept
<1>1. CASE Intent \/ AuthFinished
  <2>1. /\ UNCHANGED streamVars
        /\ active' = active \/ active' = Cancelled(active)
        /\ \/ /\ app'.provider = app.provider /\ app'.conversation = app.conversation
              /\ record' = record
           \/ /\ app'.provider = app.provider /\ record' = record
              /\ \/ app'.conversation = Blocked(app.pointer)
                 \/ app'.conversation = app.conversation
           \/ app'.conversation = NoConversation /\ record' = record
           \/ /\ app'.provider = "Other" /\ app'.conversation = app.conversation
              /\ record' = record
           \/ \E s \in Sessions :
                app'.conversation = Ready(s) /\ Listed(s) /\ record' = record
           \/ \E s \in Sessions :
                /\ app' = app /\ ~TurnActive(app)
                /\ s # ActiveSaved(app) /\ record' = [record EXCEPT ![s] = "Deleted"]
    BY <1>1, QuietIntent
  <2>2. /\ TaskRunning' <=> TaskRunning
        /\ active'.session = active.session /\ queue' = queue
    BY <1>0, <2>1 DEF TaskRunning, Cancelled, TaskType, streamVars
  <2>3. CASE /\ record' = record
             /\ \/ app'.provider = app.provider /\ app'.conversation = app.conversation
                \/ app'.provider = "Other" /\ app'.conversation = app.conversation
    BY <1>a, <2>2, <2>3
  <2>4. CASE /\ record' = record
             /\ \/ app'.conversation = Blocked(app.pointer)
                \/ app'.conversation = NoConversation
    BY <1>a, <2>2, <2>4 DEF Blocked, NoConversation
  <2>5. ASSUME NEW s \in Sessions, app'.conversation = Ready(s), Listed(s), record' = record
        PROVE  Conversation /\ Turn
    BY <1>a, <2>2, <2>5 DEF Ready, Listed
  <2>6. ASSUME NEW s \in Sessions, app' = app, ~TurnActive(app), s # ActiveSaved(app),
               record' = [record EXCEPT ![s] = "Deleted"]
        PROVE  Conversation /\ Turn
    <3>1. ~TaskRunning' /\ queue' = <<>>
      BY <1>a, <2>2, <2>6
    <3>2. app.provider = "Claude" /\ app.conversation.kind \in {"Ready", "CreationUncertain"}
            => app.conversation.id # s
      <4> SUFFICES ASSUME app.provider = "Claude",
                          app.conversation.kind \in {"Ready", "CreationUncertain"}
                   PROVE  app.conversation.id # s
        OBVIOUS
      <4>1. app.pointer = app.conversation.id /\ app.pointer # NoSession
        BY <1>0, <1>a, AppAssumption DEF PointerFollows
      <4>2. ActiveSaved(app) = app.pointer
        BY <4>1 DEF ActiveSaved
      <4> QED BY <2>6, <4>1, <4>2
    <3> QED BY <1>0, <1>a, <2>6, <3>1, <3>2
  <2> QED BY <2>1, <2>3, <2>4, <2>5, <2>6
<1>2. CASE Send
  <2>1. /\ queue = <<>> /\ ~TaskRunning /\ app.provider = "Claude" /\ UNCHANGED streamVars
        /\ \/ /\ app'.conversation = app.conversation
              /\ active' = active \/ active' = NoTask
              /\ record' = record
           \/ \E s \in Unused :
                /\ app'.conversation = Ready(s) \/ app'.conversation = Uncertain(s)
                /\ active' = active /\ record' = [record EXCEPT ![s] = "Fresh"]
           \/ \E s \in Sessions :
                /\ app' = app /\ record' = record /\ active'.session = s
                /\ record[s] \notin {"Absent", "Deleted"}
    BY <1>2, QuietSend
  <2>2. queue' = <<>>
    BY <2>1 DEF streamVars
  <2>3. CASE /\ app'.conversation = app.conversation
             /\ active' = active \/ active' = NoTask
             /\ record' = record
    <3>1. ~TaskRunning'
      BY <2>1, <2>3 DEF TaskRunning, NoTask
    <3> QED BY <1>a, <2>1, <2>2, <2>3, <3>1
  <2>4. ASSUME NEW s \in Unused, app'.conversation = Ready(s) \/ app'.conversation = Uncertain(s),
               active' = active, record' = [record EXCEPT ![s] = "Fresh"]
        PROVE  Conversation /\ Turn
    <3>1. s \in Sessions
      BY DEF Unused
    <3>2. record'[s] = "Fresh"
      BY <1>0, <2>4, <3>1
    <3>3. app'.conversation.id = s
      BY <2>4 DEF Ready, Uncertain
    <3>4. ~TaskRunning'
      BY <2>1, <2>4 DEF TaskRunning
    <3> QED BY <2>2, <3>1, <3>2, <3>3, <3>4
  <2>5. ASSUME NEW s \in Sessions, app' = app, record' = record, active'.session = s,
               record[s] \notin {"Absent", "Deleted"}
        PROVE  Conversation /\ Turn
    BY <1>a, <2>5
  <2> QED BY <2>1, <2>3, <2>4, <2>5
<1>3. CASE Task
  <2>1. app' = app /\ active'.session = active.session /\ TaskRunning
    BY <1>3, TaskLeavesScreen
  <2>2. \A s \in Sessions : \/ record'[s] = record[s]
                            \/ record'[s] \in {"CreationUncertain", "Established"}
    BY <1>3, TaskRecords
  <2>3. \A s \in Sessions : record[s] \notin {"Absent", "Deleted"}
                               => record'[s] \notin {"Absent", "Deleted"}
    BY <2>2
  <2>4. Conversation
    BY <1>a, <2>1, <2>3
  <2>5. Turn
    BY <1>0, <1>a, <2>1, <2>3
  <2> QED BY <2>4, <2>5
<1>4. ASSUME Stream!Receive, UNCHANGED <<active, record>>, effect # "send",
             NEW text, app' = Reduced(app, Head(queue), text)
      PROVE  Conversation /\ Turn
  <2>1. queue # <<>>
    BY <1>4 DEF Stream!Receive
  <2>2. LET e == Head(queue)
        IN /\ e \in EventType /\ e.session = active.session
           /\ app'.provider = app.provider
           /\ \/ app'.conversation = Ready(active.session)
              \/ app'.conversation = app.conversation
              \/ app'.conversation = Uncertain(active.session)
    BY <1>4, <2>1, QuietReceive
  <2>3. active.session \in Sessions /\ record[active.session] \notin {"Absent", "Deleted"}
    BY <1>a, <2>1, <2>2 DEF EventType
  <2>4. CASE app'.conversation = app.conversation
    BY <1>4, <1>a, <2>2, <2>3, <2>4
  <2>5. CASE app'.conversation = Ready(active.session) \/ app'.conversation = Uncertain(active.session)
    <3>1. app'.conversation.id = active.session
      BY <2>5 DEF Ready, Uncertain
    <3> QED BY <1>4, <2>3, <3>1
  <2> QED BY <2>2, <2>4, <2>5
<1>5. ASSUME NEW s \in Sessions, NEW registration, NEW pointer,
             StartNew(s, registration, pointer), UNCHANGED <<active, streamVars>>,
             queue = <<>>, ~TaskRunning
      PROVE  Conversation /\ Turn
  <2>1. /\ app'.provider = app.provider
        /\ record' = record \/ record' = [record EXCEPT ![s] = "Fresh"]
        /\ \/ /\ app'.conversation = Ready(s) \/ app'.conversation = Uncertain(s)
              /\ record' = [record EXCEPT ![s] = "Fresh"]
           \/ app'.conversation = app.conversation
    BY <1>0, <1>5, NewScreen
  <2>2. Turn
    BY <1>5 DEF TaskRunning, streamVars
  <2>3. CASE app'.conversation = app.conversation
    <3>1. \A r \in Sessions : record[r] \notin {"Absent", "Deleted"}
                                 => record'[r] \notin {"Absent", "Deleted"}
      <4>1. CASE record' = record
        BY <4>1
      <4>2. CASE record' = [record EXCEPT ![s] = "Fresh"]
        BY <1>0, <4>2
      <4> QED BY <2>1, <4>1, <4>2
    <3>2. Conversation
      BY <1>a, <2>1, <2>3, <3>1
    <3> QED BY <2>2, <3>2
  <2>4. CASE /\ app'.conversation = Ready(s) \/ app'.conversation = Uncertain(s)
             /\ record' = [record EXCEPT ![s] = "Fresh"]
    <3>1. app'.conversation.id = s
      BY <2>4 DEF Ready, Uncertain
    <3>2. record'[s] = "Fresh"
      BY <1>0, <2>4
    <3> QED BY <2>2, <3>1, <3>2
  <2> QED BY <2>1, <2>3, <2>4
<1>6. ASSUME Restarts, saved' \in PreferencesType
      PROVE  Conversation /\ Turn
  <2>1. /\ app'.conversation.kind \in {"None", "ResumeFailed"}
        /\ queue' = <<>> /\ active' = NoTask
    BY <1>6, RestartsScreen
  <2> QED BY <2>1 DEF TaskRunning, NoTask
<1>7. ASSUME app'.provider = app.provider, app'.conversation = app.conversation,
             UNCHANGED <<record, streamVars>>,
             \/ active' = active
             \/ active' = NoTask /\ ~TaskRunning /\ queue = <<>>
      PROVE  Conversation /\ Turn
  BY <1>7, <1>a DEF TaskRunning, NoTask, streamVars
<1> QED BY <1>1, <1>2, <1>3, <1>4, <1>5, <1>6, <1>7, OtherStep

\* No step that keeps the alias of an active turn shows a turn of another conversation.
LEMMA ShownStep ==
  ASSUME Quiet, SafeInv, StageInv, ShownInv, [Next]_vars, [AliasIsHeld]_vars
  PROVE  ShownInv'
<1>0. /\ app \in AppType /\ active \in TaskType /\ ScreenInv /\ TypeOK /\ PointerFollows
      /\ owner \in [Turns -> SomeSession] /\ app.shown \subseteq Turns
      /\ nextTurn \in Nat
      /\ \A t \in Turns : owner[t] # NoSession => t < nextTurn
  BY DEF SafeInv, ScreenOK, ScreenTypeOK, ServiceOK, ServiceTypeOK, TypeOK, StreamInv, AppType
<1>a. /\ app.provider = "Claude" => \A t \in app.shown : app.conversation.id = owner[t]
      /\ TurnActive(app) /\ effect # "send" => app.conversation.id = active.session
      /\ \A t \in app.shown : owner[t] # NoSession
      /\ app.conversation.kind = "None" => app.conversation.id = NoSession
  BY DEF ShownInv, OneConversation
<1>c. TurnActive(app) /\ TurnActive(app') => app'.alias = app.alias
  BY DEF AliasIsHeld, vars
<1> DEFINE Belong ==
             /\ app'.provider = "Claude" => \A t \in app'.shown : app'.conversation.id = owner'[t]
             /\ \A t \in app'.shown : owner'[t] # NoSession
             /\ app'.conversation.kind = "None" => app'.conversation.id = NoSession
           Turn == TurnActive(app') /\ effect' # "send" => app'.conversation.id = active'.session
<1>b. SUFFICES Belong /\ Turn
  BY DEF ShownInv, OneConversation
<1>1. CASE Intent \/ AuthFinished
  <2>1. /\ owner' = owner /\ effect = "none"
        /\ active' = active \/ active' = Cancelled(active)
        /\ \/ effect' # "send" /\ app'.turn = app.turn
           \/ effect' # "send" /\ ~TurnActive(app')
           \/ /\ effect' = "send"
              /\ app'.conversation = app.conversation
        /\ \/ /\ app'.provider = app.provider /\ app'.conversation = app.conversation
              /\ app'.shown = app.shown
           \/ /\ app'.provider = app.provider /\ app'.shown = app.shown
              /\ app'.conversation = IF app.provider = "Claude" /\ app.pointer # NoSession
                                     THEN Blocked(app.pointer) ELSE app.conversation
           \/ /\ app'.conversation = NoConversation /\ app'.shown = {}
              /\ app'.alias # app.alias
           \/ app'.conversation = NoConversation /\ app'.shown = {} /\ ~TurnActive(app')
           \/ /\ app'.provider = "Other" /\ app'.conversation = app.conversation
              /\ app'.shown = {} /\ ~TurnActive(app')
           \/ \E s \in Sessions :
                /\ app'.conversation = Ready(s) /\ app'.shown = TurnsOf(s)
                /\ ~TurnActive(app')
           \/ app' = app
    BY <1>1, QuietIntent
  <2>2. active'.session = active.session
    BY <1>0, <2>1 DEF Cancelled, TaskType
  <2>3. app'.turn = app.turn /\ effect' # "send" => (TurnActive(app') <=> TurnActive(app))
    BY DEF TurnActive
  <2>4. CASE /\ app'.provider = app.provider /\ app'.shown = app.shown
             /\ app'.conversation.id = app.conversation.id
             /\ \/ app'.conversation.kind # "None"
                \/ app'.conversation = app.conversation
    <3>1. Belong
      BY <1>a, <2>1, <2>4
    <3>2. Turn
      BY <1>a, <2>1, <2>2, <2>3, <2>4
    <3> QED BY <3>1, <3>2
  <2>5. CASE /\ app'.provider = app.provider /\ app'.shown = app.shown
             /\ app'.conversation = IF app.provider = "Claude" /\ app.pointer # NoSession
                                    THEN Blocked(app.pointer) ELSE app.conversation
    <3>1. CASE app.provider = "Claude" /\ app.pointer # NoSession
      <4>1. app'.conversation.id = app.pointer /\ app'.conversation.kind = "ResumeFailed"
        BY <2>5, <3>1 DEF Blocked
      <4>2. app.pointer = app.conversation.id
        BY <1>0, <3>1 DEF PointerFollows
      <4> QED BY <2>4, <2>5, <4>1, <4>2
    <3>2. CASE ~(app.provider = "Claude" /\ app.pointer # NoSession)
      <4>1. app'.conversation = app.conversation
        BY <2>5, <3>2
      <4> QED BY <2>4, <2>5, <4>1
    <3> QED BY <3>1, <3>2
  <2>6. CASE /\ app'.conversation = NoConversation /\ app'.shown = {}
             /\ app'.alias # app.alias
    <3>1. Belong
      BY <2>6 DEF NoConversation
    <3>2. ~(TurnActive(app) /\ TurnActive(app'))
      BY <1>c, <2>6
    <3>3. ~(TurnActive(app') /\ effect' # "send")
      BY <2>1, <2>3, <3>2
    <3> QED BY <3>1, <3>3
  <2>7. CASE app'.conversation = NoConversation /\ app'.shown = {} /\ ~TurnActive(app')
    BY <2>7 DEF NoConversation
  <2>8. CASE /\ app'.provider = "Other" /\ app'.conversation = app.conversation
             /\ app'.shown = {} /\ ~TurnActive(app')
    BY <1>a, <2>8
  <2>9. ASSUME NEW s \in Sessions, app'.conversation = Ready(s), app'.shown = TurnsOf(s),
               ~TurnActive(app')
        PROVE  Belong /\ Turn
    <3>1. app'.conversation.id = s /\ app'.conversation.kind = "Ready"
      BY <2>9 DEF Ready
    <3>2. \A t \in app'.shown : owner'[t] = s
      BY <2>1, <2>9 DEF TurnsOf
    <3>3. s # NoSession
      BY AppAssumption
    <3> QED BY <2>9, <3>1, <3>2, <3>3
  <2>10. CASE app' = app
    BY <2>4, <2>10
  <2>11. CASE /\ app'.provider = app.provider /\ app'.conversation = app.conversation
              /\ app'.shown = app.shown
    BY <2>4, <2>11
  <2> QED BY <2>1, <2>5, <2>6, <2>7, <2>8, <2>9, <2>10, <2>11
<1>2. CASE Send
  <2>1. /\ effect = "send" /\ app.provider = "Claude" /\ app'.shown = app.shown
        /\ \/ /\ ~TurnActive(app') /\ app'.conversation = app.conversation
              /\ owner' = owner
           \/ \E s \in Unused :
                /\ \/ app'.conversation = Ready(s) /\ effect' = "send"
                   \/ app'.conversation = Uncertain(s) /\ ~TurnActive(app')
                /\ owner' = owner /\ app.conversation.kind = "None"
           \/ \E s \in Sessions :
                /\ Prepares(s) /\ app.conversation = Ready(s) /\ app' = app
                /\ active'.session = s
    BY <1>2, QuietSend
  <2>2. CASE ~TurnActive(app') /\ app'.conversation = app.conversation /\ owner' = owner
    BY <1>a, <2>1, <2>2
  <2>3. ASSUME NEW s \in Unused, owner' = owner, app.conversation.kind = "None",
               \/ app'.conversation = Ready(s) /\ effect' = "send"
               \/ app'.conversation = Uncertain(s) /\ ~TurnActive(app')
        PROVE  Belong /\ Turn
    <3>1. app.shown = {}
      BY <1>a, <2>1, <2>3
    <3>2. app'.conversation.kind # "None"
      BY <2>3 DEF Ready, Uncertain
    <3> QED BY <2>1, <2>3, <3>1, <3>2
  <2>4. ASSUME NEW s \in Sessions, Prepares(s), app.conversation = Ready(s), app' = app,
               active'.session = s
        PROVE  Belong /\ Turn
    <3>1. app.conversation.id = s
      BY <2>4 DEF Ready
    <3>2. nextTurn \notin app.shown
      BY <1>0, <1>a
    <3>3. \A t \in app.shown : owner'[t] = owner[t]
      BY <1>0, <2>4, <3>2 DEF Prepares
    <3> QED BY <1>a, <2>4, <3>1, <3>3
  <2> QED BY <2>1, <2>2, <2>3, <2>4
<1>3. CASE Task
  BY <1>a, <1>3, TaskLeavesScreen
<1>4. ASSUME Stream!Receive, UNCHANGED <<active, owner>>, effect # "send", NEW text,
             app' = Reduced(app, Head(queue), text)
      PROVE  Belong /\ Turn
  <2>1. queue # <<>>
    BY <1>4 DEF Stream!Receive
  <2>2. /\ Head(queue).turn = active.turn /\ Head(queue).session = active.session
        /\ Head(queue) = queue[1] /\ 1 \in DOMAIN queue
        /\ app'.provider = app.provider /\ app.provider = "Claude"
        /\ TurnActive(app) /\ app'.shown \subseteq app.shown \cup {active.turn}
        /\ \/ app'.conversation = Ready(active.session)
           \/ app'.conversation = app.conversation
           \/ app'.conversation = Uncertain(active.session)
    <3>1. CASE app.turn.kind = "Starting"
      BY <1>4, <2>1, <3>1, QuietReceive DEF Streaming, TurnActive
    <3>2. CASE app.turn = Streaming(active.session, active.turn)
      <4>1. TurnActive(app)
        BY <3>2 DEF Streaming, TurnActive
      <4> QED BY <1>4, <2>1, <4>1, QuietReceive
    <3> QED BY <1>4, <2>1, <3>1, <3>2, QuietReceive
  <2>3. owner[active.turn] = active.session /\ active.session \in Sessions
    BY <2>2 DEF SafeInv, ServiceOK, StreamInv, QueueInv, Issued
  <2>4. app.conversation.id = active.session
    BY <1>4, <1>a, <2>2
  <2>5. /\ app'.conversation.id = active.session
        /\ \/ app'.conversation.kind # "None"
           \/ app'.conversation = app.conversation
    BY <2>2, <2>4 DEF Ready, Uncertain
  <2>6. \A t \in app'.shown : owner[t] = active.session
    BY <1>a, <2>2, <2>3, <2>4
  <2>7. active.session # NoSession
    BY <2>3, AppAssumption
  <2>8. owner' = owner /\ active' = active
    BY <1>4
  <2>9. Belong
    BY <1>a, <2>5, <2>6, <2>7, <2>8
  <2>10. Turn
    BY <2>5, <2>8
  <2> QED BY <2>9, <2>10
<1>5. ASSUME NEW s \in Sessions, NEW registration, NEW pointer,
             StartNew(s, registration, pointer), owner' = owner
      PROVE  Belong /\ Turn
  <2>1. /\ app'.provider = app.provider /\ ~TurnActive(app')
        /\ \/ /\ app'.conversation = Ready(s) \/ app'.conversation = Uncertain(s)
              /\ app'.shown = {}
           \/ app'.conversation = app.conversation /\ app'.shown = app.shown
    BY <1>0, <1>5, NewScreen
  <2>2. CASE app'.conversation = app.conversation /\ app'.shown = app.shown
    BY <1>5, <1>a, <2>1, <2>2
  <2>3. CASE /\ app'.conversation = Ready(s) \/ app'.conversation = Uncertain(s)
             /\ app'.shown = {}
    <3>1. app'.conversation.kind # "None"
      BY <2>3 DEF Ready, Uncertain
    <3> QED BY <2>1, <2>3, <3>1
  <2> QED BY <2>1, <2>2, <2>3
<1>6. ASSUME Restarts, saved' \in PreferencesType
      PROVE  Belong /\ Turn
  <2>1. app'.shown = {} /\ ~TurnActive(app')
    BY <1>6, RestartsScreen
  <2>2. PICK subscribed \in BOOLEAN : app' = Restored(saved', subscribed)
    BY <1>6 DEF Restarts
  <2>3. app'.conversation.kind = "None" => app'.conversation.id = NoSession
    BY <2>2 DEF Restored, NoConversation, Blocked
  <2> QED BY <2>1, <2>3
<1>7. ASSUME app'.provider = app.provider, app'.conversation = app.conversation,
             app'.turn = app.turn, app'.shown = app.shown, owner' = owner,
             \/ active' = active
             \/ active' = NoTask /\ ~TaskRunning /\ queue = <<>>,
             \/ effect' = effect
             \/ effect # "send" /\ effect' # "send"
      PROVE  Belong /\ Turn
  <2>1. Belong
    BY <1>7, <1>a
  <2>2. TurnActive(app') /\ effect' # "send" => TurnActive(app) /\ effect # "send"
    BY <1>7 DEF TurnActive
  <2>3. CASE active' = active
    BY <1>7, <1>a, <2>1, <2>2, <2>3
  <2>4. CASE ~TaskRunning /\ queue = <<>>
    <3>1. ~(TurnActive(app) /\ effect # "send")
      BY <2>4 DEF StageInv, TaskRunning, TurnActive
    <3> QED BY <2>1, <2>2, <3>1
  <2> QED BY <1>7, <2>3, <2>4
<1> QED BY <1>1, <1>2, <1>3, <1>4, <1>5, <1>6, <1>7, OtherStep

\* All of it holds of a conversation that has not begun.
LEMMA QuietInit ==
  ASSUME AppAssumption, Init
  PROVE  StageInv /\ DoubtInv /\ AttachedInv /\ KeptInv /\ ShownInv
<1>1. PICK subscribed \in BOOLEAN, alias \in Aliases :
        app = Restored([provider |-> "Claude", alias |-> alias, pointer |-> NoSession], subscribed)
  BY DEF Init
<1>2. /\ effect = "none" /\ active = NoTask /\ unresolved = {} /\ queue = <<>>
  BY DEF Init, Stream!Init
<1>3. /\ app.turn.kind = "Idle" /\ app.shown = {}
      /\ app.conversation = NoConversation
  BY <1>1 DEF Restored, TurnIs
<1>4. /\ ~TaskRunning /\ ~TurnActive(app) /\ app.conversation.kind = "None"
      /\ app.conversation.id = NoSession /\ active.pc = "none"
  BY <1>2, <1>3 DEF TaskRunning, NoTask, TurnActive, NoConversation
<1>5. StageInv
  BY <1>2, <1>3, <1>4 DEF StageInv
<1>6. DoubtInv
  BY <1>2, <1>4 DEF DoubtInv, DoubtIsShown
<1>7. AttachedInv
  BY <1>3, <1>4 DEF AttachedInv, NeverAttachedSilently
<1>8. KeptInv
  BY <1>2, <1>4 DEF KeptInv, ConversationIsKept
<1>9. ShownInv
  BY <1>3, <1>4 DEF ShownInv, OneConversation
<1> QED BY <1>5, <1>6, <1>7, <1>8, <1>9

\* What the screen and the service agree on when nothing fails the turn under its task:
\* the events queued are those of the turn displayed (prepare_turn, run_turn,
\* matches_claude_turn).
THEOREM TurnsAreInStep ==
  ASSUME Quiet
  PROVE  Spec => [](SafeInv /\ StageInv)
<1>1. Init => SafeInv /\ StageInv
  BY AppAssumption, SafeInit, QuietInit
<1>2. SafeInv /\ StageInv /\ [Next]_vars => (SafeInv /\ StageInv)'
  BY SafeStep, StageStep
<1> QED BY <1>1, <1>2, PTL DEF Spec

\* The turn the service runs is the one displayed, and a message is prepared with no task
\* and nothing queued (prepare_turn, send_block_reason, ClaudeOperationFailed).
THEOREM TurnsDoNotOverlap ==
  ASSUME Quiet
  PROVE  Spec => []OneTurnAtATime
<1>1. ASSUME SafeInv, StageInv
      PROVE  OneTurnAtATime
  <2>1. NoOrphanTurn
    <3>1. ASSUME TaskRunning
          PROVE  \/ app.turn.kind = "Starting"
                 \/ app.turn = Streaming(active.session, active.turn)
      BY <1>1, <3>1 DEF StageInv, TurnActive
    <3> QED BY <3>1 DEF NoOrphanTurn
  <2>2. LaunchFindsQueueEmpty
    BY <1>1 DEF StageInv, LaunchFindsQueueEmpty
  <2> QED BY <2>1, <2>2 DEF OneTurnAtATime
<1> QED BY <1>1, TurnsAreInStep, PTL

\* The conversation of a turn that ended uncertain does not take messages until the user
\* resumed or replaced it (ClaudeTurnFinished, send_block_reason).
THEOREM DoubtIsDisplayed ==
  ASSUME Quiet
  PROVE  Spec => []DoubtIsShown
<1>1. Init => DoubtInv
  BY AppAssumption, QuietInit
<1>2. SafeInv /\ StageInv /\ DoubtInv /\ [Next]_vars => DoubtInv'
  BY DoubtStep
<1>3. DoubtInv => DoubtIsShown
  BY DEF DoubtInv
<1> QED BY <1>1, <1>2, <1>3, TurnsAreInStep, PTL DEF Spec

\* Messages only go to a session that the user started or resumed in this process and
\* since the last sign-in (startup_claude, block_unscoped_saved_claude_after_auth).
THEOREM SessionsAreChosen ==
  ASSUME Quiet
  PROVE  Spec => []NeverAttachedSilently
<1>1. Init => AttachedInv
  BY AppAssumption, QuietInit
<1>2. SafeInv /\ StageInv /\ AttachedInv /\ [Next]_vars => AttachedInv'
  BY AttachedStep
<1>3. AttachedInv => NeverAttachedSilently
  BY DEF AttachedInv
<1> QED BY <1>1, <1>2, <1>3, TurnsAreInStep, PTL DEF Spec

\* The picker deletes no conversation that the screen shows (active_saved_thread_id).
THEOREM ShownSessionIsKept ==
  ASSUME Quiet
  PROVE  Spec => []ConversationIsKept
<1>1. Init => KeptInv
  BY AppAssumption, QuietInit
<1>2. SafeInv /\ StageInv /\ KeptInv /\ [Next]_vars => KeptInv'
  BY KeptStep
<1>3. KeptInv => ConversationIsKept
  BY DEF KeptInv
<1> QED BY <1>1, <1>2, <1>3, TurnsAreInStep, PTL DEF Spec

\* Everything on the screen is of the session that the next message goes to, as long as
\* the model is not changed under an active turn (SelectProviderModel, ClaudeSessionRestored,
\* ClaudeSessionStarted, matches_claude_turn).
THEOREM OneConversationIsShown ==
  ASSUME Quiet
  PROVE  Spec /\ [][AliasIsHeld]_vars => []OneConversation
<1>1. Init => ShownInv
  BY AppAssumption, QuietInit
<1>2. /\ SafeInv /\ StageInv /\ ShownInv
      /\ [Next]_vars /\ [AliasIsHeld]_vars
      => ShownInv'
  BY ShownStep
<1>3. ShownInv => OneConversation
  BY DEF ShownInv
<1> QED BY <1>1, <1>2, <1>3, TurnsAreInStep, PTL DEF Spec

\* With one model to choose from the model is never changed, and so the screen shows one
\* conversation (SelectProviderModel).
THEOREM OneModelOneConversation ==
  ASSUME Quiet, \A a, b \in Aliases : a = b
  PROVE  Spec => []OneConversation
<1>1. SafeInv /\ SafeInv' => [AliasIsHeld]_vars
  BY DEF SafeInv, ScreenOK, ScreenTypeOK, AppType, AliasIsHeld
<1>2. Spec => [][AliasIsHeld]_vars
  BY <1>1, ScreenAndServiceAgree, PTL
<1> QED BY <1>2, OneConversationIsShown, PTL
=============================================================================
