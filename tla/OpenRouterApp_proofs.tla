------------------------ MODULE OpenRouterApp_proofs ------------------------
(***************************************************************************)
(* What holds of OpenRouter conversations and credentials for any numbers  *)
(* of conversations, turns, operations and restarts, any capacity of the   *)
(* queues and whatever may fail.                                           *)
(*                                                                         *)
(* The invariant has four parts: the types, what is on the screen, the     *)
(* turns with their files, and the credential.  On it rests a second one,  *)
(* that whatever is under way on the screen has an end in sight.           *)
(***************************************************************************)
EXTENDS OpenRouterApp, TLAPS

\* The values the variables range over.
TurnStates == {"None", "InProgress"} \cup Ended
TurnsType == [Turns -> TurnStates]
SomeConversation == Conversations \cup {None}
SomeTurn == Turns \cup {None}

AppType ==
  [provider : Providers, pointer : SomeConversation, model : BOOLEAN,
   conversation : [kind : {"None", "Ready", "ResumeFailed"}, id : SomeConversation],
   turn : [kind : {"Idle", "Starting", "Streaming"}, conversation : SomeConversation,
           turn : SomeTurn],
   auth : {"Unverified", "Missing", "CredentialUnavailable", "Valid", "Invalid"},
   catalog : BOOLEAN,
   validation : [kind : {"Idle", "Refreshing", "Validating"}, op : Nat, saved : BOOLEAN],
   picker : {"closed", "ready"}]

ChatType ==
  [pc : {"none", "prepared", "streaming", "reporting", "done"},
   conversation : SomeConversation, turn : SomeTurn, copy : TurnsType,
   cancelled : BOOLEAN, undelivered : BOOLEAN, outcome : Ended \cup {"None"},
   unauthorized : BOOLEAN]

ChatEventType ==
  [kind : {"TextDelta"}] \cup
  [kind : {"TurnFinished"}, conversation : SomeConversation, turn : SomeTurn,
   unauthorized : BOOLEAN]

ControlType ==
  [pc : {"none", "validating", "rejecting", "announcing", "fetching", "finishing", "done"},
   kind : {"refresh", "login"}, op : Nat]

ControlEventType ==
  [kind : {"AuthValidated", "LoginFailed"}, op : Nat] \cup
  [kind : {"LoginSucceeded", "CatalogLoaded"}, op : Nat, catalog : BOOLEAN] \cup
  [kind : {"CatalogFailed"}, op : Nat,
   category : {"Unauthorized", "Other", "MissingCredential", "CredentialStore"}]

Effects == {"none", "send", "launch", "persistIntent", "persistEvent",
            "logoutControl", "logoutChat"}

AppTypeOK ==
  /\ app \in AppType
  /\ pending \in [op : Nat, conversation : SomeConversation, model : BOOLEAN]
  /\ saved \in [provider : Providers, pointer : SomeConversation, model : BOOLEAN]
  /\ effect \in Effects /\ deaf \in BOOLEAN

ServiceTypeOK ==
  /\ chat \in ChatType /\ chatQueue \in Seq(ChatEventType)
  /\ control \in ControlType /\ controlQueue \in Seq(ControlEventType)
  /\ nextOp \in Nat

StoreTypeOK ==
  /\ disk \in [key : BOOLEAN, catalog : BOOLEAN]
  /\ file \in [Conversations -> [there : BOOLEAN, turns : TurnsType]]
  /\ next \in [conversation : Nat, turn : Nat]
  /\ reported \subseteq Conversations \X Turns
  /\ signedOut \in BOOLEAN

TypeOK == AppTypeOK /\ ServiceTypeOK /\ StoreTypeOK

\* The conversation on the screen is the one the preferences point to, and it is there.
ReadyIsPointedTo ==
  app.conversation.kind = "Ready" =>
    /\ app.provider = "OpenRouter" /\ app.pointer = app.conversation.id
    /\ app.pointer \in Conversations /\ file[app.pointer].there

\* While a turn is active nothing can be picked, and it belongs to the conversation
\* pointed to.  An automatic resume that is still pending finds it on the screen.
ActiveIsPointedTo ==
  /\ TurnActive(app) => app.picker = "closed"
  /\ app.turn.kind = "Streaming" =>
       /\ app.provider = "OpenRouter" /\ app.pointer = app.turn.conversation
       /\ pending.op # None => app.conversation.kind = "Ready"
  /\ pending.op # None => pending.conversation # None

\* A message that is being sent has a turn to start, and somewhere to start it.
SendingHasRoom ==
  /\ effect \in {"send", "launch"} =>
       app.turn.kind = "Starting" /\ app.provider = "OpenRouter"
  /\ effect = "send" =>
       /\ next.turn \in Turns
       /\ app.conversation.kind = "None" => next.conversation \in Conversations

ScreenInv == ReadyIsPointedTo /\ ActiveIsPointedTo /\ SendingHasRoom

HasTurn == chat.pc \in {"prepared", "streaming", "reporting"}

Finishes(e, t) == e.kind = "TurnFinished" /\ e.turn = t

\* Ids are handed out once.
IdsAreFresh ==
  /\ \A c \in Conversations : file[c].there => c < next.conversation
  /\ \A r \in reported : r[1] < next.conversation /\ r[2] < next.turn
  /\ \A k \in DOMAIN chatQueue :
       chatQueue[k].kind = "TurnFinished" => chatQueue[k].turn < next.turn
  /\ HasTurn =>
       /\ chat.conversation \in Conversations /\ chat.turn \in Turns
       /\ chat.conversation < next.conversation /\ chat.turn < next.turn
       /\ \A r \in reported : r[2] # chat.turn
       /\ \A k \in DOMAIN chatQueue : ~Finishes(chatQueue[k], chat.turn)

\* What the task writes back has all that was done before, and what it announces as
\* completed is in the file.
CopyIsWhole ==
  /\ effect = "launch" <=> chat.pc = "prepared"
  /\ chat.pc \in {"prepared", "streaming"} =>
       \A r \in reported : r[1] = chat.conversation => chat.copy[r[2]] = "Completed"
  /\ chat.pc = "prepared" =>
       /\ file[chat.conversation].there
       /\ file[chat.conversation].turns[chat.turn] = "InProgress"
  /\ /\ chat.pc = "reporting" /\ chat.outcome = "Completed"
     /\ file[chat.conversation].there
     => file[chat.conversation].turns[chat.turn] = "Completed"

TurnInv == IdsAreFresh /\ CopyIsWhole /\ DoneIsKept /\ NoOrphanTurn /\ SentIsRecorded

\* Operation ids are handed out once, and a logout has ended the task.
OpsAreFresh ==
  /\ nextOp > None /\ app.validation.op < nextOp
  /\ ControlRunning => control.op # None /\ control.op < nextOp
  /\ \A k \in DOMAIN controlQueue : controlQueue[k].op # None /\ controlQueue[k].op < nextOp
  /\ effect = "logoutChat" => control.pc = "none"

\* After a logout nothing under way can sign in again.
NothingSignsIn ==
  signedOut =>
    /\ control.pc \in {"none", "validating", "done"}
    /\ ControlRunning => control.kind = "refresh"
    /\ \A k \in DOMAIN controlQueue :
         controlQueue[k].op = app.validation.op => controlQueue[k].kind = "CatalogFailed"

CredentialInv == OpsAreFresh /\ NothingSignsIn /\ SignedOutStaysOut

-----------------------------------------------------------------------------
(* What the operators of the reducer return.                               *)

Auths == {"Unverified", "Missing", "CredentialUnavailable", "Valid", "Invalid"}

\* What stays of the conversation on the screen when the credential changes.
SameConversation(a, b) ==
  /\ b.provider = a.provider /\ b.pointer = a.pointer
  /\ b.conversation = a.conversation

\* A record of the application stays one when its parts are replaced.
LEMMA AuthChangedType ==
  ASSUME NEW a \in AppType, NEW auth \in Auths
  PROVE  LET b == AuthChanged(a, auth)
         IN /\ b \in AppType /\ SameConversation(a, b) /\ b.turn = a.turn
            /\ b.auth = auth /\ b.catalog = a.catalog /\ b.model = a.model
            /\ b.validation = (IF auth = "Valid" THEN a.validation ELSE Idle)
            /\ b.picker \in {a.picker, "closed"}
<1> DEFINE b == AuthChanged(a, auth)
<1>1. /\ b.provider = a.provider /\ b.pointer = a.pointer /\ b.turn = a.turn
      /\ b.conversation = a.conversation /\ b.catalog = a.catalog /\ b.model = a.model
      /\ b.auth = auth /\ b.validation = (IF auth = "Valid" THEN a.validation ELSE Idle)
      /\ b.picker = (IF auth = "Missing" THEN "closed" ELSE a.picker)
  BY DEF AppType, AuthChanged
<1>2. b \in AppType
  BY DEF AppType, AuthChanged, Auths, Idle, None
<1> QED BY <1>1, <1>2 DEF SameConversation

\* Another provider, or its thread, takes the screen: no conversation and no turn is left.
LEMMA ClearedType ==
  ASSUME NEW a \in AppType, NEW provider \in Providers
  PROVE  [a EXCEPT !.provider = provider, !.pointer = None, !.conversation = NoConversation,
                   !.turn = TurnIs("Idle"), !.model = TRUE, !.picker = "closed"] \in AppType
<1>1. NoConversation \in [kind : {"None", "Ready", "ResumeFailed"}, id : SomeConversation]
  BY DEF NoConversation, SomeConversation
<1>2. TurnIs("Idle") \in [kind : {"Idle", "Starting", "Streaming"},
                          conversation : SomeConversation, turn : SomeTurn]
  BY DEF TurnIs, SomeConversation, SomeTurn
<1>3. None \in SomeConversation
  BY DEF SomeConversation
<1> QED BY <1>1, <1>2, <1>3 DEF AppType

\* CatalogLoaded ends the operation, signs in and leaves the conversation alone.
LEMMA CatalogLoadedType ==
  ASSUME NEW a \in AppType, NEW catalog \in BOOLEAN
  PROVE  LET b == CatalogLoaded(a, catalog)
         IN /\ b \in AppType /\ SameConversation(a, b) /\ b.turn = a.turn
            /\ b.picker = a.picker /\ b.validation = Idle
<1> DEFINE model == IF a.provider = "OpenRouter" THEN catalog ELSE a.model
           b == [a EXCEPT !.validation = Idle, !.auth = "Valid", !.catalog = catalog,
                          !.model = model]
<1>1. CatalogLoaded(a, catalog) = b
  BY DEF CatalogLoaded
<1>2. model \in BOOLEAN
  BY DEF AppType
<1>3. Idle \in [kind : {"Idle", "Refreshing", "Validating"}, op : Nat, saved : BOOLEAN]
  BY DEF Idle, None
<1> HIDE DEF model
<1>4. b \in AppType
  BY <1>2, <1>3 DEF AppType
<1>5. /\ SameConversation(a, b) /\ b.turn = a.turn
      /\ b.picker = a.picker /\ b.validation = Idle
  BY DEF AppType, SameConversation
<1> QED BY <1>1, <1>4, <1>5

\* OperationFailed ends the operation, signs nobody in and leaves the conversation alone.
LEMMA OperationFailedType ==
  ASSUME NEW a \in AppType,
         NEW category \in {"Unauthorized", "Other", "MissingCredential", "CredentialStore"}
  PROVE  LET b == OperationFailed(a, category)
         IN /\ b \in AppType /\ SameConversation(a, b) /\ b.turn = a.turn
            /\ b.picker = a.picker /\ b.validation = Idle
            /\ b.auth = "Valid" => a.auth = "Valid"
<1>1. AuthAfter(a, category) \in Auths
      /\ (AuthAfter(a, category) = "Valid" => a.auth = "Valid")
  BY DEF AuthAfter, AppType, Auths
<1>2. PICK auth \in Auths :
        /\ OperationFailed(a, category) = [a EXCEPT !.validation = Idle, !.auth = auth]
        /\ auth = "Valid" => a.auth = "Valid"
  BY <1>1 DEF OperationFailed, AppType, Auths
<1>3. [a EXCEPT !.validation = Idle, !.auth = auth] \in AppType
  BY DEF AppType, Idle, None, Auths
<1> QED BY <1>2, <1>3 DEF AppType, SameConversation

\* A control event leaves the conversation and the turn alone; it counts for the
\* operation that is waited for, and only a failure does not sign in.
LEMMA ControlReducedType ==
  ASSUME NEW a \in AppType, NEW e \in ControlEventType
  PROVE  LET b == ControlReduced(a, e)
         IN /\ b \in AppType /\ SameConversation(a, b) /\ b.turn = a.turn
            /\ b.picker \in {a.picker, "closed"}
            /\ b.validation.op \in {a.validation.op, None}
            /\ b.auth = "Valid" =>
                 \/ a.auth = "Valid"
                 \/ e.op = a.validation.op /\ e.kind # "CatalogFailed"
<1> DEFINE b == ControlReduced(a, e)
<1>0. Idle.op = None
  BY DEF Idle
<1>1. CASE e.kind = "AuthValidated" /\ Matches(a, "Refreshing", e.op)
  <2>1. b = AuthChanged(a, "Valid")
    BY <1>1 DEF ControlReduced, Matches
  <2> QED BY <1>1, <2>1, AuthChangedType DEF Matches, Auths
<1>2. CASE e.kind = "AuthValidated" /\ Matches(a, "Validating", e.op)
  <2> DEFINE c == [a EXCEPT !.validation.saved = TRUE]
  <2>1. b = AuthChanged(c, "Valid")
    BY <1>2 DEF ControlReduced, Matches
  <2>2. c \in AppType /\ SameConversation(a, c) /\ c.turn = a.turn /\ c.picker = a.picker
        /\ c.validation.op = a.validation.op
    BY DEF AppType, SameConversation
  <2> HIDE DEF c
  <2> QED BY <1>2, <2>1, <2>2, AuthChangedType DEF Matches, Auths, SameConversation
<1>3. CASE \/ e.kind = "LoginSucceeded" /\ Matches(a, "Validating", e.op)
           \/ e.kind = "CatalogLoaded" /\ Matches(a, "Refreshing", e.op)
  <2>1. b = CatalogLoaded(a, e.catalog)
    BY <1>3 DEF ControlReduced, Matches
  <2>2. e.catalog \in BOOLEAN
    BY <1>3 DEF ControlEventType
  <2> QED BY <1>0, <1>3, <2>1, <2>2, CatalogLoadedType DEF Matches
<1>4. CASE e.kind = "LoginFailed" /\ Matches(a, "Validating", e.op)
  <2> DEFINE c == [a EXCEPT !.validation = Idle]
  <2>1. b = c
    BY <1>4 DEF ControlReduced, Matches
  <2>2. /\ c \in AppType /\ SameConversation(a, c) /\ c.turn = a.turn
        /\ c.picker = a.picker /\ c.validation = Idle /\ c.auth = a.auth
    BY DEF AppType, SameConversation, Idle, None
  <2> HIDE DEF c
  <2> QED BY <1>0, <2>1, <2>2
<1>5. CASE e.kind = "CatalogFailed" /\ FailureCounts(a, e)
  <2>1. b = OperationFailed(a, e.category)
    BY <1>5 DEF ControlReduced, Matches
  <2>2. e.category \in {"Unauthorized", "Other", "MissingCredential", "CredentialStore"}
    BY <1>5 DEF ControlEventType
  <2> QED BY <1>0, <2>1, <2>2, OperationFailedType
<1>6. CASE /\ ~(e.kind = "AuthValidated" /\ Matches(a, "Refreshing", e.op))
           /\ ~(e.kind = "AuthValidated" /\ Matches(a, "Validating", e.op))
           /\ ~\/ e.kind = "LoginSucceeded" /\ Matches(a, "Validating", e.op)
               \/ e.kind = "CatalogLoaded" /\ Matches(a, "Refreshing", e.op)
           /\ ~(e.kind = "LoginFailed" /\ Matches(a, "Validating", e.op))
           /\ ~(e.kind = "CatalogFailed" /\ FailureCounts(a, e))
  <2>1. b = a
    BY <1>6 DEF ControlReduced
  <2> QED BY <2>1 DEF SameConversation
<1> QED BY <1>1, <1>2, <1>3, <1>4, <1>5, <1>6

\* A chat event ends the turn it names, if that is the one displayed, and may report the
\* key as rejected.
LEMMA ChatReducedType ==
  ASSUME NEW a \in AppType, NEW e \in ChatEventType
  PROVE  LET b == ChatReduced(a, e)
         IN /\ b \in AppType /\ SameConversation(a, b)
            /\ b.turn = (IF /\ e.kind = "TurnFinished"
                            /\ a.turn = Streaming(e.conversation, e.turn)
                         THEN TurnIs("Idle") ELSE a.turn)
            /\ b.picker \in {a.picker, "closed"}
            /\ b.validation \in {a.validation, Idle}
            /\ b.auth = "Valid" => a.auth = "Valid"
<1> DEFINE b == ChatReduced(a, e)
<1>1. CASE e.kind = "TurnFinished" /\ a.turn = Streaming(e.conversation, e.turn)
  <2> DEFINE c == IF e.unauthorized THEN AuthChanged(a, "Invalid") ELSE a
  <2>1. b = [c EXCEPT !.turn = TurnIs("Idle")]
    BY <1>1 DEF ChatReduced
  <2>2. /\ c \in AppType /\ SameConversation(a, c) /\ c.picker \in {a.picker, "closed"}
        /\ c.validation \in {a.validation, Idle} /\ (c.auth = "Valid" => a.auth = "Valid")
    BY AuthChangedType DEF SameConversation, Auths
  <2> HIDE DEF c
  <2> QED BY <1>1, <2>1, <2>2 DEF AppType, TurnIs, SomeConversation, SomeTurn, SameConversation
<1>2. CASE ~(e.kind = "TurnFinished" /\ a.turn = Streaming(e.conversation, e.turn))
  <2>1. b = a
    BY <1>2 DEF ChatReduced
  <2> QED BY <1>2, <2>1 DEF SameConversation
<1> QED BY <1>1, <1>2

\* Showing a conversation, or that it failed to resume.
LEMMA ShownType ==
  ASSUME NEW a \in AppType, NEW c \in SomeConversation
  PROVE  /\ Restored(a, c) \in AppType
         /\ AutomaticallyRestored(a, c) \in AppType
         /\ ResumeHasFailed(a, c) \in AppType
         /\ TurnFails(a) \in AppType
<1>1. Restored(a, c) \in AppType
  BY DEF AppType, Restored, Ready, TurnIs, SomeConversation, SomeTurn, Providers
<1>2. ResumeHasFailed(a, c) \in AppType
  BY DEF AppType, ResumeHasFailed, ResumeFailed
<1>3. TurnFails(a) \in AppType
  BY DEF AppType, TurnFails, TurnIs, SomeConversation, SomeTurn
<1> QED BY <1>1, <1>2, <1>3 DEF AutomaticallyRestored

PendingType == [op : Nat, conversation : SomeConversation, model : BOOLEAN]
PreferencesType == [provider : Providers, pointer : SomeConversation, model : BOOLEAN]
KeyResults == {"found", "MissingCredential", "CredentialStore"}

\* What a start makes of what was saved: nothing is shown, and a key that was found is
\* being validated.
LEMMA StartType ==
  ASSUME NEW prefs \in PreferencesType, NEW found \in KeyResults, NEW catalog \in BOOLEAN
  PROVE  LET s == Start(prefs, found, catalog)
         IN /\ s.app \in AppType /\ s.control \in ControlType /\ s.nextOp \in Nat
            /\ s.pending \in PendingType
            /\ s.app.conversation.kind # "Ready" /\ s.app.turn.kind = "Idle"
            /\ s.app.auth # "Valid" /\ s.app.validation.op < s.nextOp /\ s.nextOp > None
            /\ s.control.op < s.nextOp /\ s.control.kind = "refresh"
            /\ s.control.pc \in {"none", "validating"}
            /\ s.control.pc = "validating" => s.control.op # None
            /\ s.pending.op # None => s.pending.conversation # None
<1> DEFINE auth == StoredAuth(found)
           s == Start(prefs, found, catalog)
           b == Started(prefs, auth, catalog)
<1>1. auth \in {"Unverified", "Missing", "CredentialUnavailable"}
  BY DEF StoredAuth, KeyResults
<1>2. /\ s.app = b
      /\ s.control = (IF auth = "Unverified" THEN ControlTask("refresh", 1) ELSE NoControl)
      /\ s.nextOp = (IF auth = "Unverified" THEN 2 ELSE 1)
      /\ \/ /\ s.pending = [op |-> 1, conversation |-> prefs.pointer, model |-> prefs.model]
            /\ prefs.pointer # None
         \/ s.pending = NoPending
  BY DEF Start
<1> HIDE DEF auth, s
<1>3. b \in AppType
  <2>1. b.conversation \in
          [kind : {"None", "Ready", "ResumeFailed"}, id : SomeConversation]
    BY DEF Started, ResumeFailed, NoConversation, PreferencesType, SomeConversation
  <2>2. b.validation \in [kind : {"Idle", "Refreshing", "Validating"}, op : Nat, saved : BOOLEAN]
    BY DEF Started, Refreshing, Idle, None
  <2>3. b.turn \in [kind : {"Idle", "Starting", "Streaming"}, conversation : SomeConversation,
                    turn : SomeTurn]
    BY DEF Started, TurnIs, SomeConversation, SomeTurn
  <2> QED BY <1>1, <2>1, <2>2, <2>3 DEF Started, AppType, PreferencesType
<1>4. /\ b.conversation.kind # "Ready" /\ b.turn.kind = "Idle" /\ b.auth = auth
      /\ b.validation.op = (IF auth = "Unverified" THEN 1 ELSE 0)
  BY DEF Started, ResumeFailed, NoConversation, TurnIs, Refreshing, Idle, None
<1> HIDE DEF b
<1>5. s.pending \in PendingType
  <2>1. [op |-> 1, conversation |-> prefs.pointer, model |-> prefs.model] \in PendingType
    BY DEF PendingType, PreferencesType
  <2>2. NoPending \in PendingType
    BY DEF PendingType, NoPending, SomeConversation, None
  <2> QED BY <1>2, <2>1, <2>2
<1>6. /\ s.control \in ControlType /\ s.nextOp \in Nat /\ s.nextOp > None
      /\ s.control.op < s.nextOp /\ s.control.kind = "refresh"
      /\ s.control.pc \in {"none", "validating"}
      /\ s.control.pc = "validating" => s.control.op # None
  <2>1. CASE auth = "Unverified"
    BY <1>2, <2>1 DEF ControlType, ControlTask, None
  <2>2. CASE auth # "Unverified"
    BY <1>2, <2>2 DEF ControlType, NoControl, None
  <2> QED BY <2>1, <2>2
<1>7. s.pending.op # None => s.pending.conversation # None
  BY <1>2 DEF NoPending
<1> QED BY <1>1, <1>2, <1>3, <1>4, <1>5, <1>6, <1>7 DEF s

\* The reducer's state before and after it reduces a control event e, b standing for the
\* latter.
ReducedBy(b, e) ==
  /\ SameConversation(app, b) /\ b.turn = app.turn
  /\ b.picker \in {app.picker, "closed"}
  /\ b.validation.op \in {app.validation.op, None}
  /\ b.auth = "Valid" =>
       \/ app.auth = "Valid"
       \/ e.op = app.validation.op /\ e.kind # "CatalogFailed"

\* What the coordinator makes of a control event: the reducer's step, and after it the
\* conversation a pending resume waited for, or that it was not resumed.
LEMMA ReceivesControl ==
  ASSUME TypeOK, ReceiveControl
  PROVE  \E b \in AppType :
           /\ ReducedBy(b, Head(controlQueue))
           /\ pending' \in {pending, NoPending}
           /\ \/ app' = b
              \/ /\ EndsPending(Head(controlQueue)) /\ pending' = NoPending
                 /\ app.provider = "OpenRouter" /\ app.pointer = pending.conversation
                 /\ \/ app' = ResumeHasFailed(b, pending.conversation)
                    \/ /\ file[pending.conversation].there
                       /\ app' = AutomaticallyRestored(b, pending.conversation)
<1> DEFINE e == Head(controlQueue)
           c == pending.conversation
           r == ControlReduced(app, e)
           l == CatalogLoadedForResume(app, e.catalog)
<1>1. e \in ControlEventType /\ app \in AppType
  BY DEF ReceiveControl, TypeOK, ServiceTypeOK, AppTypeOK
<1>2. r \in AppType /\ ReducedBy(r, e)
  <2> HIDE DEF e
  <2>1. /\ r \in AppType /\ SameConversation(app, r) /\ r.turn = app.turn
        /\ r.picker \in {app.picker, "closed"}
        /\ r.validation.op \in {app.validation.op, None}
        /\ r.auth = "Valid" =>
             \/ app.auth = "Valid"
             \/ e.op = app.validation.op /\ e.kind # "CatalogFailed"
    BY <1>1, ControlReducedType
  <2> QED BY <2>1 DEF ReducedBy
<1>3. pending' \in {pending, NoPending} /\ (EndsPending(e) => pending' = NoPending)
  BY DEF ReceiveControl
<1>4. CASE EndsPending(e) /\ Matches(app, "Refreshing", e.op) /\ PendingIsCurrent(app)
  <2> DEFINE b == IF e.kind = "CatalogLoaded" THEN l ELSE r
  <2>1. e.kind = "CatalogLoaded" => l \in AppType /\ ReducedBy(l, e)
    <3> SUFFICES ASSUME e.kind = "CatalogLoaded" PROVE l \in AppType /\ ReducedBy(l, e)
      OBVIOUS
    <3>1. e.catalog \in BOOLEAN
      BY <1>1 DEF ControlEventType
    <3>2. l \in AppType /\ SameConversation(app, l) /\ l.turn = app.turn
          /\ l.picker = app.picker /\ l.validation.op = None
      BY <1>1, <3>1 DEF AppType, CatalogLoadedForResume, SameConversation, Idle, None
    <3>3. e.op = app.validation.op
      BY <1>4 DEF Matches
    <3> QED BY <3>2, <3>3 DEF ReducedBy
  <2>2. b \in AppType /\ ReducedBy(b, e)
    BY <1>2, <2>1
  <2>3. app.provider = "OpenRouter" /\ app.pointer = c
    BY <1>4 DEF PendingIsCurrent
  <2>4. PICK found \in {file[c].there}
                         \cup (IF "conversations" \in Faults THEN {FALSE} ELSE {}) :
          app' = Resumes(b, e.kind = "CatalogLoaded", found)
    BY <1>4 DEF ReceiveControl
  <2>5. \/ app' = b \/ app' = ResumeHasFailed(b, c)
        \/ found /\ app' = AutomaticallyRestored(b, c)
    BY <2>4 DEF Resumes
  <2>6. found => file[c].there
    BY <2>4
  <2> HIDE DEF b
  <2> QED BY <1>3, <1>4, <2>2, <2>3, <2>5, <2>6
<1>5. CASE ~(EndsPending(e) /\ Matches(app, "Refreshing", e.op) /\ PendingIsCurrent(app))
  <2>1. app' = r
    BY <1>5 DEF ReceiveControl
  <2> QED BY <1>2, <1>3, <2>1
<1> QED BY <1>4, <1>5

-----------------------------------------------------------------------------
(* Types.                                                                  *)

\* Where a message goes is a conversation.
LEMMA TargetIsConversation ==
  ASSUME TypeOK, SendingHasRoom, effect = "send", app.conversation.kind # "ResumeFailed",
         ReadyIsPointedTo
  PROVE  Target \in Conversations /\ next.turn \in Turns
BY DEF Target, SendingHasRoom, ReadyIsPointedTo, TypeOK, AppTypeOK, AppType

\* A save replaces that conversation's file or leaves it, and replaced it if it succeeds.
LEMMA SavesOutcome ==
  ASSUME NEW c, NEW turns, NEW save \in Saves(c, turns)
  PROVE  LET f == [file EXCEPT ![c] = FileOf(turns)]
         IN /\ save[1] \in {file, f} /\ save[2] \in BOOLEAN
            /\ save[2] => save[1] = f
<1> DEFINE f == [file EXCEPT ![c] = FileOf(turns)]
<1>1. save = <<f, TRUE>> \/ save = <<f, FALSE>> \/ save = <<file, FALSE>>
  BY DEF Saves
<1> HIDE DEF f
<1>2. /\ save[1] \in {file, f} /\ save[2] \in BOOLEAN
      /\ save[2] => save[1] = f
  <2>1. CASE save = <<f, TRUE>>
    BY <2>1
  <2>2. CASE save = <<f, FALSE>>
    BY <2>2
  <2>3. CASE save = <<file, FALSE>>
    BY <2>3
  <2> QED BY <1>1, <2>1, <2>2, <2>3
<1> QED BY <1>2 DEF f

\* It leaves every conversation a file.
LEMMA SavesType ==
  ASSUME StoreTypeOK, NEW c \in Conversations, NEW turns \in TurnsType,
         NEW save \in Saves(c, turns)
  PROVE  save[1] \in [Conversations -> [there : BOOLEAN, turns : TurnsType]]
<1>1. [file EXCEPT ![c] = FileOf(turns)] \in
        [Conversations -> [there : BOOLEAN, turns : TurnsType]]
  BY DEF StoreTypeOK, FileOf
<1>2. save[1] \in {file, [file EXCEPT ![c] = FileOf(turns)]}
  BY SavesOutcome
<1> QED BY <1>1, <1>2 DEF StoreTypeOK

\* Repaired files are files.
LEMMA RepairedType ==
  ASSUME NEW f \in [Conversations -> [there : BOOLEAN, turns : TurnsType]]
  PROVE  /\ Repaired(f) \in [Conversations -> [there : BOOLEAN, turns : TurnsType]]
         /\ \A c \in Conversations :
              /\ Repaired(f)[c].there = f[c].there
              /\ \A t \in Turns :
                   f[c].turns[t] = "Completed" => Repaired(f)[c].turns[t] = "Completed"
<1> DEFINE R(c) == [t \in Turns |-> IF f[c].turns[t] = "InProgress" THEN "Interrupted"
                                    ELSE f[c].turns[t]]
<1>1. \A c \in Conversations : f[c] \in [there : BOOLEAN, turns : TurnsType]
  OBVIOUS
<1>2. \A c \in Conversations : R(c) \in TurnsType
  BY <1>1 DEF TurnsType, TurnStates, Ended
<1>3. \A c \in Conversations : Repaired(f)[c] = [f[c] EXCEPT !.turns = R(c)]
  <2> TAKE c \in Conversations
  <2>1. Repaired(f)[c] =
          [f[c] EXCEPT !.turns = [t \in Turns |-> IF @[t] = "InProgress" THEN "Interrupted"
                                                  ELSE @[t]]]
    BY DEF Repaired
  <2> QED BY <1>1, <2>1
<1>4. DOMAIN Repaired(f) = Conversations /\ Repaired(f) = [c \in Conversations |-> Repaired(f)[c]]
  BY DEF Repaired
<1>5. \A c \in Conversations :
        /\ Repaired(f)[c] \in [there : BOOLEAN, turns : TurnsType]
        /\ Repaired(f)[c].there = f[c].there /\ Repaired(f)[c].turns = R(c)
  <2> TAKE c \in Conversations
  <2>1. R(c) \in TurnsType /\ f[c] \in [there : BOOLEAN, turns : TurnsType]
        /\ Repaired(f)[c] = [f[c] EXCEPT !.turns = R(c)]
    BY <1>1, <1>2, <1>3
  <2> HIDE DEF R
  <2> QED BY <2>1
<1>6. \A c \in Conversations, t \in Turns :
        f[c].turns[t] = "Completed" => R(c)[t] = "Completed"
  OBVIOUS
<1> HIDE DEF R
<1>7. Repaired(f) \in [Conversations -> [there : BOOLEAN, turns : TurnsType]]
  BY <1>4, <1>5
<1> QED BY <1>5, <1>6, <1>7

\* What is found of the key.
LEMMA KeyLoadsType ==
  /\ KeyLoads \subseteq KeyResults
  /\ KeyLoads' \subseteq KeyResults
BY DEF KeyLoads, KeyResults

\* A start leaves everything of the reducer and the service typed.
LEMMA RestartsType ==
  ASSUME saved' \in PreferencesType, disk' \in [key : BOOLEAN, catalog : BOOLEAN], Restarts
  PROVE  AppTypeOK' /\ ServiceTypeOK'
<1>1. PICK found \in KeyLoads', catalog \in {FALSE, disk'.catalog} :
        LET s == Start(saved', found, catalog)
        IN /\ app' = s.app /\ control' = s.control
           /\ nextOp' = s.nextOp /\ pending' = s.pending
  BY DEF Restarts
<1>2. found \in KeyResults /\ catalog \in BOOLEAN
  BY KeyLoadsType
<1>3. app' \in AppType /\ control' \in ControlType /\ nextOp' \in Nat /\ pending' \in PendingType
  BY <1>1, <1>2, StartType
<1>4. NoChat \in ChatType
  BY DEF NoChat, ChatType, NoTurns, TurnsType, TurnStates, SomeConversation, SomeTurn
<1>5. effect' = "none" /\ deaf' = FALSE /\ chat' = NoChat /\ chatQueue' = <<>>
      /\ controlQueue' = <<>>
  BY DEF Restarts
<1>6. AppTypeOK'
  BY <1>3, <1>5 DEF AppTypeOK, PendingType, PreferencesType, Effects
<1>7. ServiceTypeOK'
  BY <1>3, <1>4, <1>5 DEF ServiceTypeOK
<1> QED BY <1>6, <1>7

\* The reducer's state and what the coordinator keeps.
LEMMA AppTypeStep ==
  ASSUME TypeOK, ScreenInv, Next
  PROVE  AppTypeOK'
<1> USE DEF AppTypeOK, TypeOK, Effects
<1>0. NoPending \in PendingType /\ PendingType = [op : Nat, conversation : SomeConversation, model : BOOLEAN]
      /\ PreferencesType = [provider : Providers, pointer : SomeConversation, model : BOOLEAN]
  BY DEF NoPending, PendingType, PreferencesType, SomeConversation, None
<1>p. Preferences(app) \in PreferencesType
  BY DEF Preferences, PreferencesType, AppType
<1>1. CASE Chat \/ Control
  BY <1>1 DEF Chat, Control, ChatDelta, ChatSaves, ChatReports, Announces, CoordinatorKeeps,
     ControlReplacesKey, ControlRejectsCandidate, ControlAcceptsKey, ControlFails,
     ControlSavesCatalog, ControlFinishes
<1>2. CASE Interrupt \/ LogoutDropsControl \/ \E c \in Conversations : PickerDelete(c)
  BY <1>2 DEF Interrupt, LogoutDropsControl, PickerDelete, stores
<1>3. CASE SendMessage
  <2>1. app' \in AppType
    BY <1>3 DEF SendMessage, AppType, TurnIs, SomeConversation, SomeTurn
  <2> QED BY <1>3, <2>1 DEF SendMessage, IntentKeeps, stores
<1>4. CASE SendUnresolved
  BY <1>4 DEF SendUnresolved, IntentKeeps, stores
<1>5. CASE SendPrepares
  BY <1>5, ShownType DEF SendPrepares, None, SomeConversation
<1>6. CASE SendRefused
  BY <1>6, ShownType DEF SendRefused, stores, SomeConversation
<1>7. CASE SendLaunches
  <2>1. chat.conversation \in SomeConversation /\ chat.turn \in SomeTurn
    BY DEF ServiceTypeOK, ChatType
  <2>2. saved' \in PreferencesType
    BY <1>7, <1>p, <2>1 DEF SendLaunches, WithPointer, PreferencesType, Providers
  <2>3. app' \in AppType
    BY <1>7, <2>1 DEF SendLaunches, AppType, Ready, Streaming
  <2> QED BY <1>0, <1>7, <2>2, <2>3 DEF SendLaunches
<1>8. CASE SendAbandons
  <2>1. chat.conversation \in SomeConversation
    BY DEF ServiceTypeOK, ChatType
  <2>2. saved' \in PreferencesType
    BY <1>0, <1>8, <1>p, <2>1 DEF SendAbandons, WithPointer, PreferencesType, Providers
  <2> QED BY <1>0, <1>8, <2>2, ShownType DEF SendAbandons, SomeConversation
<1>9. CASE NewThread
  <2> DEFINE b == [app EXCEPT !.conversation = Ready(next.conversation),
                              !.pointer = next.conversation]
  <2>1. /\ app' = app \/ app' = b
        /\ effect' \in {effect, "persistIntent"} /\ next.conversation \in SomeConversation
        /\ UNCHANGED <<pending, saved, deaf>>
    BY <1>9 DEF NewThread, SomeConversation
  <2>2. b \in AppType
    BY <2>1 DEF AppType, Ready
  <2> HIDE DEF b
  <2> QED BY <2>1, <2>2
<1>10. CASE SelectModel
  <2>1. app' \in AppType
    BY <1>10 DEF SelectModel, Takes, AppType
  <2> QED BY <1>10, <2>1 DEF SelectModel, Takes, IntentKeeps, stores
<1>11. ASSUME NEW provider \in Providers, SwitchProvider(provider) PROVE AppTypeOK'
  <2>1. app' \in AppType
    BY <1>11, ClearedType DEF SwitchProvider, Takes
  <2> QED BY <1>11, <2>1 DEF SwitchProvider, Takes, IntentKeeps, stores
<1>12. CASE Resume \/ PickerClose
  <2>1. app' \in AppType
    BY <1>12 DEF Resume, PickerClose, Takes, AppType
  <2> QED BY <1>12, <2>1 DEF Resume, PickerClose, Takes, IntentKeeps, stores
<1>13. CASE PickerSelectOther
  <2>1. app' \in AppType
    BY <1>13, ClearedType DEF PickerSelectOther, Takes, Providers
  <2> QED BY <1>13, <2>1 DEF PickerSelectOther, Takes, IntentKeeps, stores
<1>14. ASSUME NEW c \in Conversations, PickerSelect(c) PROVE AppTypeOK'
  <2>1. app' \in AppType
    BY <1>14, ShownType DEF PickerSelect, Takes, SomeConversation
  <2> QED BY <1>14, <2>1 DEF PickerSelect, Takes, IntentKeeps, stores
<1>15. CASE AcceptCredential
  <2>1. app' \in AppType
    BY <1>15 DEF AcceptCredential, AppType, Validating, ServiceTypeOK
  <2> QED BY <1>15, <2>1 DEF AcceptCredential, stores
<1>16. CASE RefreshOpenRouter
  <2>1. app' \in AppType
    BY <1>16 DEF RefreshOpenRouter, AppType, Refreshing, ServiceTypeOK
  <2> QED BY <1>16, <2>1 DEF RefreshOpenRouter, stores
<1>17. CASE LogoutOpenRouter
  BY <1>17 DEF LogoutOpenRouter, Takes, IntentKeeps, stores
<1>18. CASE LogoutEndsControl
  BY <1>18 DEF LogoutEndsControl, stores
<1>19. CASE LogoutReadsChat
  <2>1. Head(chatQueue) \in ChatEventType
    BY <1>19 DEF LogoutReadsChat, ServiceTypeOK
  <2> QED BY <1>19, <2>1, ChatReducedType DEF LogoutReadsChat, stores
<1>20. CASE LogoutEnds
  <2> DEFINE settled == [app EXCEPT !.turn = IF @.kind = "Streaming" THEN TurnIs("Idle") ELSE @]
  <2>1. settled \in AppType
    BY DEF AppType, TurnIs, SomeConversation, SomeTurn
  <2>2. \E auth \in Auths : app' = AuthChanged(settled, auth)
    BY <1>20 DEF LogoutEnds, Auths
  <2> HIDE DEF settled
  <2> QED BY <1>20, <2>1, <2>2, AuthChangedType DEF LogoutEnds
<1>21. CASE Persist
  BY <1>0, <1>21, <1>p DEF Persist
<1>22. CASE ReceiveControl
  <2>1. app' \in AppType /\ pending' \in {pending, NoPending}
    BY <1>22, ReceivesControl, ShownType DEF PendingType
  <2> QED BY <1>0, <1>22, <2>1 DEF ReceiveControl, stores
<1>23. CASE ReceiveChat
  <2>1. Head(chatQueue) \in ChatEventType
    BY <1>23 DEF ReceiveChat, ServiceTypeOK
  <2> QED BY <1>23, <2>1, ChatReducedType DEF ReceiveChat, stores
<1>24. CASE Quit \/ Crash
  <2>1. saved' \in PreferencesType /\ disk' \in [key : BOOLEAN, catalog : BOOLEAN] /\ Restarts
    BY <1>0, <1>24, <1>p DEF Quit, Crash, StoreTypeOK
  <2> QED BY <2>1, RestartsType
<1> QED
  BY <1>1, <1>2, <1>3, <1>4, <1>5, <1>6, <1>7, <1>8, <1>9, <1>10, <1>11, <1>12, <1>13,
     <1>14, <1>15, <1>16, <1>17, <1>18, <1>19, <1>20, <1>21, <1>22, <1>23, <1>24
     DEF Next, Intent, Execute

\* The two tasks, their queues and the operation ids.
LEMMA ServiceTypeStep ==
  ASSUME TypeOK, ScreenInv, Next
  PROVE  ServiceTypeOK'
<1> USE DEF ServiceTypeOK, TypeOK
<1>0. NoChat \in ChatType /\ NoTurns \in TurnsType
  BY DEF NoChat, ChatType, NoTurns, TurnsType, TurnStates, SomeConversation, SomeTurn
<1>c. NoControl \in ControlType
      /\ \A op \in Nat : \A kind \in {"refresh", "login"} : ControlTask(kind, op) \in ControlType
  BY DEF NoControl, ControlTask, ControlType, None
<1>a. ASSUME NEW e \in ControlEventType, NEW pc, Announces(e, pc),
             pc \in {"fetching", "done"}
      PROVE  ServiceTypeOK'
  <2>1. controlQueue' \in Seq(ControlEventType)
    BY <1>a DEF Announces
  <2>2. control' \in ControlType
    BY <1>a, <1>c DEF Announces, ControlType
  <2> QED BY <1>a, <2>1, <2>2 DEF Announces
<1>1. CASE ChatDelta
  <2>1. [kind |-> "TextDelta"] \in ChatEventType
    BY DEF ChatEventType
  <2>2. chatQueue' \in Seq(ChatEventType)
    <3>1. \/ chatQueue' = Append(chatQueue, [kind |-> "TextDelta"]) \/ chatQueue' = chatQueue
      BY <1>1 DEF ChatDelta
    <3> QED BY <2>1, <3>1
  <2>3. chat' \in ChatType
    BY <1>1 DEF ChatDelta, ChatType
  <2> QED BY <1>1, <2>2, <2>3 DEF ChatDelta
<1>2. CASE ChatSaves
  <2>1. chat' \in ChatType
    <3>0. PICK outcome \in Ended, unauthorized \in BOOLEAN :
            \E save \in Saves(chat.conversation, [chat.copy EXCEPT ![chat.turn] = outcome]) :
              chat' = [chat EXCEPT !.pc = "reporting", !.cancelled = FALSE,
                                   !.undelivered = FALSE, !.copy = NoTurns,
                                   !.outcome = Announced(outcome, save[2]),
                                   !.unauthorized = save[2] /\ unauthorized]
      BY <1>2 DEF ChatSaves
    <3>1. PICK save \in Saves(chat.conversation, [chat.copy EXCEPT ![chat.turn] = outcome]) :
            chat' = [chat EXCEPT !.pc = "reporting", !.cancelled = FALSE,
                                 !.undelivered = FALSE, !.copy = NoTurns,
                                 !.outcome = Announced(outcome, save[2]),
                                 !.unauthorized = save[2] /\ unauthorized]
      BY <3>0
    <3>2. Announced(outcome, save[2]) \in Ended \cup {"None"}
          /\ (save[2] /\ unauthorized) \in BOOLEAN
      BY SavesOutcome DEF Announced, Ended
    <3> QED BY <1>0, <3>1, <3>2 DEF ChatType
  <2> QED BY <1>2, <2>1 DEF ChatSaves
<1>3. CASE ChatReports
  <2> DEFINE e == [kind |-> "TurnFinished", conversation |-> chat.conversation,
                   turn |-> chat.turn, unauthorized |-> chat.unauthorized]
  <2>1. e \in ChatEventType
    BY DEF ChatType, ChatEventType
  <2>2. chatQueue' = Append(chatQueue, e)
    BY <1>3 DEF ChatReports
  <2> HIDE DEF e
  <2>3. chatQueue' \in Seq(ChatEventType)
    BY <2>1, <2>2
  <2>4. chat' \in ChatType
    BY <1>0, <1>3 DEF ChatReports, ChatType
  <2> QED BY <1>3, <2>3, <2>4 DEF ChatReports
<1>4. CASE ControlReplacesKey
  <2>1. control' \in ControlType
    BY <1>4 DEF ControlReplacesKey, ControlType
  <2> QED BY <1>4, <2>1 DEF ControlReplacesKey
<1>5. CASE ControlRejectsCandidate
  <2>1. LoginFailed \in ControlEventType
    BY DEF LoginFailed, ControlEventType, ControlType
  <2> QED BY <1>5, <1>a, <2>1 DEF ControlRejectsCandidate
<1>6. CASE ControlAcceptsKey
  <2>1. AuthValidated \in ControlEventType
    BY DEF AuthValidated, ControlEventType, ControlType
  <2> QED BY <1>6, <1>a, <2>1 DEF ControlAcceptsKey
<1>7. CASE ControlFails
  <2>1. PICK category \in (KeyLoads \ {"found"}) \cup Rejections :
          Announces(CatalogFailed(category), "done")
    BY <1>7 DEF ControlFails
  <2>2. category \in {"Unauthorized", "Other", "MissingCredential", "CredentialStore"}
    BY KeyLoadsType DEF KeyResults, Rejections
  <2>3. CatalogFailed(category) \in ControlEventType
    BY <2>2 DEF CatalogFailed, ControlEventType, ControlType
  <2> QED BY <1>a, <2>1, <2>3
<1>8. CASE ControlSavesCatalog
  <2>1. control' \in ControlType
    BY <1>8 DEF ControlSavesCatalog, ControlType
  <2> QED BY <1>8, <2>1 DEF ControlSavesCatalog
<1>9. CASE ControlFinishes
  <2> DEFINE e == [kind |-> IF control.kind = "login" THEN "LoginSucceeded" ELSE "CatalogLoaded",
                   op |-> control.op, catalog |-> disk.catalog]
  <2>1. e \in ControlEventType
    BY DEF ControlEventType, ControlType, StoreTypeOK
  <2>2. CatalogFailed("CredentialStore") \in ControlEventType
    BY DEF CatalogFailed, ControlEventType, ControlType
  <2>3. Announces(e, "done") \/ Announces(CatalogFailed("CredentialStore"), "done")
    BY <1>9 DEF ControlFinishes
  <2> HIDE DEF e
  <2> QED BY <1>a, <2>1, <2>2, <2>3
<1>10. CASE SendPrepares
  <2>1. Target \in Conversations /\ next.turn \in Turns
    BY <1>10, TargetIsConversation DEF SendPrepares, ScreenInv
  <2> DEFINE turns == [file[Target].turns EXCEPT ![next.turn] = "InProgress"]
             prepared == [NoChat EXCEPT !.pc = "prepared", !.turn = next.turn,
                                        !.conversation = Target, !.copy = turns]
  <2>2. turns \in TurnsType
    BY <2>1 DEF StoreTypeOK, TurnsType, TurnStates
  <2>3. chat' = prepared \/ chat' = NoChat
    BY <1>10 DEF SendPrepares
  <2> HIDE DEF turns
  <2>4. prepared \in ChatType
    BY <1>0, <2>1, <2>2 DEF ChatType, SomeConversation, SomeTurn
  <2> HIDE DEF prepared
  <2>5. chat' \in ChatType
    BY <1>0, <2>3, <2>4
  <2> QED BY <1>10, <2>5 DEF SendPrepares
<1>11. CASE SendRefused \/ SendAbandons
  <2>1. chat' \in {chat, NoChat}
    BY <1>11 DEF SendRefused, SendAbandons
  <2> QED BY <1>0, <1>11, <2>1 DEF SendRefused, SendAbandons
<1>12. CASE SendLaunches
  <2>1. chat' \in ChatType
    BY <1>12 DEF SendLaunches, ChatType
  <2> QED BY <1>12, <2>1 DEF SendLaunches
<1>13. CASE Interrupt
  <2>1. chat' \in ChatType
    BY <1>13 DEF Interrupt, ChatType
  <2> QED BY <1>13, <2>1 DEF Interrupt
<1>14. CASE SendMessage \/ SendUnresolved \/ SelectModel \/ Resume \/ PickerClose
            \/ PickerSelectOther \/ LogoutOpenRouter
            \/ (\E provider \in Providers : SwitchProvider(provider))
            \/ \E c \in Conversations : PickerSelect(c)
  BY <1>14 DEF SendMessage, SendUnresolved, SelectModel, Resume, PickerClose,
     PickerSelectOther, LogoutOpenRouter, SwitchProvider, PickerSelect, Takes, IntentKeeps, tasks
<1>15. CASE NewThread \/ Persist \/ \E c \in Conversations : PickerDelete(c)
  BY <1>15 DEF NewThread, Persist, PickerDelete, tasks
<1>16. CASE AcceptCredential \/ RefreshOpenRouter
  <2>1. control' \in ControlType /\ nextOp' \in Nat
    BY <1>16, <1>c DEF AcceptCredential, RefreshOpenRouter
  <2> QED BY <1>16, <2>1 DEF AcceptCredential, RefreshOpenRouter
<1>17. CASE LogoutDropsControl \/ ReceiveControl
  <2>1. controlQueue # <<>> /\ controlQueue' = Tail(controlQueue)
        /\ UNCHANGED <<chat, chatQueue, control, nextOp>>
    BY <1>17 DEF LogoutDropsControl, MayDropControl, ReceiveControl
  <2> QED BY <2>1
<1>18. CASE LogoutReadsChat \/ ReceiveChat
  <2>1. chatQueue # <<>> /\ chatQueue' = Tail(chatQueue)
        /\ UNCHANGED <<chat, control, controlQueue, nextOp>>
    BY <1>18 DEF LogoutReadsChat, ReceiveChat
  <2> QED BY <2>1
<1>19. CASE LogoutEndsControl
  <2>1. chat' \in ChatType
    BY <1>19 DEF LogoutEndsControl, ChatType
  <2> QED BY <1>19, <1>c, <2>1 DEF LogoutEndsControl
<1>20. CASE LogoutEnds
  BY <1>0, <1>20 DEF LogoutEnds
<1>21. CASE Quit \/ Crash
  <2>1. saved' \in PreferencesType /\ disk' \in [key : BOOLEAN, catalog : BOOLEAN] /\ Restarts
    BY <1>21 DEF Quit, Crash, StoreTypeOK, AppTypeOK, AppType, Preferences, PreferencesType
  <2> QED BY <2>1, RestartsType
<1> QED
  BY <1>1, <1>2, <1>3, <1>4, <1>5, <1>6, <1>7, <1>8, <1>9, <1>10, <1>11, <1>12, <1>13,
     <1>14, <1>15, <1>16, <1>17, <1>18, <1>19, <1>20, <1>21
     DEF Next, Intent, Execute, Chat, Control

\* What is on disk, the ids handed out and the history.
LEMMA StoreTypeStep ==
  ASSUME TypeOK, ScreenInv, Next, HasTurn => chat.conversation \in Conversations /\ chat.turn \in Turns,
         effect = "launch" => HasTurn
  PROVE  StoreTypeOK'
<1> USE DEF StoreTypeOK, TypeOK
<1>0. NoTurns \in TurnsType /\ NoFile \in [there : BOOLEAN, turns : TurnsType]
  BY DEF NoTurns, NoFile, TurnsType, TurnStates
<1>c. HasTurn => \A outcome \in Ended : [chat.copy EXCEPT ![chat.turn] = outcome] \in TurnsType
  BY DEF ServiceTypeOK, ChatType, TurnsType, TurnStates
<1>1. CASE ChatDelta
  BY <1>1 DEF ChatDelta, CoordinatorKeeps
<1>2. CASE ChatSaves
  <2>0. PICK outcome \in Ended :
          \E save \in Saves(chat.conversation, [chat.copy EXCEPT ![chat.turn] = outcome]) :
            file' = save[1]
    BY <1>2 DEF ChatSaves
  <2>1. PICK save \in Saves(chat.conversation, [chat.copy EXCEPT ![chat.turn] = outcome]) :
          file' = save[1]
    BY <2>0
  <2>2. HasTurn
    BY <1>2 DEF ChatSaves, HasTurn
  <2>3. file' \in [Conversations -> [there : BOOLEAN, turns : TurnsType]]
    BY <1>c, <2>1, <2>2, SavesType
  <2> QED BY <1>2, <2>3 DEF ChatSaves, CoordinatorKeeps
<1>3. CASE ChatReports
  <2>1. reported' \subseteq Conversations \X Turns
    BY <1>3 DEF ChatReports, HasTurn
  <2> QED BY <1>3, <2>1 DEF ChatReports, CoordinatorKeeps
<1>4. CASE Control
  <2>1. disk' \in [key : BOOLEAN, catalog : BOOLEAN]
    BY <1>4 DEF Control, ControlReplacesKey, ControlRejectsCandidate, ControlAcceptsKey,
       ControlFails, ControlSavesCatalog, ControlFinishes
  <2> QED BY <1>4, <2>1 DEF Control, ControlReplacesKey, ControlRejectsCandidate,
          ControlAcceptsKey, ControlFails, ControlSavesCatalog, ControlFinishes, Announces,
          CoordinatorKeeps
<1>5. CASE SendPrepares
  <2> DEFINE turns == [file[Target].turns EXCEPT ![next.turn] = "InProgress"]
  <2>1. Target \in Conversations /\ next.turn \in Turns
    BY <1>5, TargetIsConversation DEF SendPrepares, ScreenInv
  <2>2. turns \in TurnsType
    BY <2>1 DEF TurnsType, TurnStates
  <2>3. PICK save \in Saves(Target, turns) : file' = save[1]
    BY <1>5 DEF SendPrepares
  <2> HIDE DEF turns
  <2>4. file' \in [Conversations -> [there : BOOLEAN, turns : TurnsType]]
    BY <2>1, <2>2, <2>3, SavesType
  <2>5. next' \in [conversation : Nat, turn : Nat]
    BY <1>5, <2>1 DEF SendPrepares, Conversations
  <2> QED BY <1>5, <2>4, <2>5 DEF SendPrepares, history
<1>6. CASE SendAbandons
  <2>1. HasTurn
    BY <1>6 DEF SendAbandons
  <2>2. PICK save \in Saves(chat.conversation, [chat.copy EXCEPT ![chat.turn] = "Failed"]) :
          file' = save[1]
    BY <1>6 DEF SendAbandons
  <2>3. file' \in [Conversations -> [there : BOOLEAN, turns : TurnsType]]
    BY <1>c, <2>1, <2>2, SavesType DEF Ended
  <2> QED BY <1>6, <2>3 DEF SendAbandons, history
<1>7. CASE NewThread
  <2>1. next.conversation \in Conversations
    BY <1>7 DEF NewThread
  <2>2. PICK save \in Saves(next.conversation, NoTurns) : file' = save[1]
    BY <1>7 DEF NewThread
  <2>3. file' \in [Conversations -> [there : BOOLEAN, turns : TurnsType]]
    BY <1>0, <2>1, <2>2, SavesType
  <2>4. next' \in [conversation : Nat, turn : Nat]
    BY <1>7 DEF NewThread
  <2> QED BY <1>7, <2>3, <2>4 DEF NewThread, history
<1>8. ASSUME NEW c \in Conversations, PickerDelete(c) PROVE StoreTypeOK'
  <2>1. file' \in [Conversations -> [there : BOOLEAN, turns : TurnsType]]
    BY <1>0, <1>8 DEF PickerDelete
  <2> QED BY <1>8, <2>1 DEF PickerDelete, history
<1>9. CASE AcceptCredential
  BY <1>9 DEF AcceptCredential, stores
<1>10. CASE LogoutEnds
  BY <1>10 DEF LogoutEnds
<1>11. CASE Quit \/ Crash
  <2>1. file' \in [Conversations -> [there : BOOLEAN, turns : TurnsType]]
    <3>1. CASE file' = Repaired(file)
      BY <3>1, RepairedType
    <3>2. ASSUME chat.pc = "streaming", NEW outcome \in Ended,
                 NEW save \in Saves(chat.conversation, [chat.copy EXCEPT ![chat.turn] = outcome]),
                 file' = Repaired(save[1])
          PROVE  file' \in [Conversations -> [there : BOOLEAN, turns : TurnsType]]
      <4>1. HasTurn
        BY <3>2 DEF HasTurn
      <4>2. save[1] \in [Conversations -> [there : BOOLEAN, turns : TurnsType]]
        BY <1>c, <4>1, SavesType
      <4> QED BY <3>2, <4>2, RepairedType
    <3> QED BY <1>11, <3>1, <3>2 DEF Quit, Crash
  <2> QED BY <1>11, <2>1 DEF Quit, Crash, Restarts
<1>12. CASE SendMessage \/ SendUnresolved \/ SelectModel \/ Resume \/ PickerClose
            \/ PickerSelectOther \/ LogoutOpenRouter
            \/ (\E provider \in Providers : SwitchProvider(provider))
            \/ \E c \in Conversations : PickerSelect(c)
  BY <1>12 DEF SendMessage, SendUnresolved, SelectModel, Resume, PickerClose,
     PickerSelectOther, LogoutOpenRouter, SwitchProvider, PickerSelect, Takes, IntentKeeps,
     stores, history
<1>13. CASE SendRefused \/ SendLaunches \/ Interrupt \/ RefreshOpenRouter \/ LogoutDropsControl
            \/ LogoutEndsControl \/ LogoutReadsChat \/ Persist \/ ReceiveControl \/ ReceiveChat
  BY <1>13 DEF SendRefused, SendLaunches, Interrupt, RefreshOpenRouter, LogoutDropsControl,
     LogoutEndsControl, LogoutReadsChat, Persist, ReceiveControl, ReceiveChat, stores, history
<1> QED
  BY <1>1, <1>2, <1>3, <1>4, <1>5, <1>6, <1>7, <1>8, <1>9, <1>10, <1>11, <1>12, <1>13
     DEF Next, Intent, Execute, Chat

-----------------------------------------------------------------------------
(* The conversation on the screen.                                         *)

\* Only a deletion makes a conversation's file disappear.
LEMMA FilesStay ==
  ASSUME TypeOK, ScreenInv, IdsAreFresh, CopyIsWhole, Next,
         ~\E c \in Conversations : PickerDelete(c)
  PROVE  \A c \in Conversations : file[c].there => file'[c].there
<1> DEFINE Stay == \A c \in Conversations : file[c].there => file'[c].there
<1>0. file \in [Conversations -> [there : BOOLEAN, turns : TurnsType]]
  BY DEF TypeOK, StoreTypeOK
<1>s. ASSUME NEW c, NEW turns, NEW save \in Saves(c, turns)
      PROVE  \A d \in Conversations : file[d].there => save[1][d].there
  <2> DEFINE g == [file EXCEPT ![c] = FileOf(turns)]
  <2>1. save[1] = file \/ save[1] = g
    BY <1>s, SavesOutcome
  <2>2. \A d \in Conversations : file[d].there => g[d].there
    BY <1>0 DEF FileOf
  <2> HIDE DEF g
  <2> QED BY <2>1, <2>2
<1>1. CASE file' = file
  BY <1>1
<1>2. CASE ChatSaves
  <2>1. PICK outcome \in Ended :
          \E save \in Saves(chat.conversation, [chat.copy EXCEPT ![chat.turn] = outcome]) :
            file' = save[1]
    BY <1>2 DEF ChatSaves
  <2> QED BY <1>s, <2>1
<1>3. CASE SendPrepares
  <2>1. \E turns : \E save \in Saves(Target, turns) : file' = save[1]
    BY <1>3 DEF SendPrepares
  <2> QED BY <1>s, <2>1
<1>4. CASE SendAbandons
  <2>1. \E turns : \E save \in Saves(chat.conversation, turns) : file' = save[1]
    BY <1>4 DEF SendAbandons
  <2> QED BY <1>s, <2>1
<1>5. CASE NewThread
  <2>1. \E save \in Saves(next.conversation, NoTurns) : file' = save[1]
    BY <1>5 DEF NewThread
  <2> QED BY <1>s, <2>1
<1>6. CASE Quit \/ Crash
  <2>1. CASE file' = Repaired(file)
    BY <1>0, <2>1, RepairedType
  <2>2. ASSUME chat.pc = "streaming", NEW outcome \in Ended,
               NEW save \in Saves(chat.conversation, [chat.copy EXCEPT ![chat.turn] = outcome]),
               file' = Repaired(save[1])
        PROVE  Stay
    <3>1. /\ chat.conversation \in Conversations
          /\ [chat.copy EXCEPT ![chat.turn] = outcome] \in TurnsType
      BY <2>2 DEF IdsAreFresh, HasTurn, TypeOK, ServiceTypeOK, ChatType, TurnsType, TurnStates
    <3>2. save[1] \in [Conversations -> [there : BOOLEAN, turns : TurnsType]]
      BY <3>1, SavesType DEF TypeOK
    <3> QED BY <1>s, <2>2, <3>2, RepairedType
  <2> QED BY <1>6, <2>1, <2>2 DEF Quit, Crash
<1>7. \/ file' = file \/ ChatSaves \/ SendPrepares \/ SendAbandons \/ NewThread
      \/ Quit \/ Crash
  <2>1. ASSUME Chat \/ Control, ~ChatSaves PROVE file' = file
    BY <2>1 DEF Chat, Control, ChatDelta, ChatReports, ControlReplacesKey,
       ControlRejectsCandidate, ControlAcceptsKey, ControlFails, ControlSavesCatalog,
       ControlFinishes, Announces
  <2>2. ASSUME Execute, ~SendPrepares, ~SendAbandons PROVE file' = file
    BY <2>2 DEF Execute, SendUnresolved, SendRefused, SendLaunches, LogoutDropsControl,
       LogoutEndsControl, LogoutReadsChat, LogoutEnds, Persist, IntentKeeps, stores
  <2>3. ASSUME Intent, ~NewThread PROVE file' = file
    BY <2>3 DEF Intent, SendMessage, Interrupt, SelectModel, SwitchProvider, Resume,
       PickerClose, PickerSelectOther, PickerSelect, AcceptCredential, RefreshOpenRouter,
       LogoutOpenRouter, Takes, IntentKeeps, stores
  <2>4. ASSUME ReceiveControl \/ ReceiveChat PROVE file' = file
    BY <2>4 DEF ReceiveControl, ReceiveChat, stores
  <2> QED BY <2>1, <2>2, <2>3, <2>4 DEF Next
<1> QED BY <1>1, <1>2, <1>3, <1>4, <1>5, <1>6, <1>7

\* A start shows no conversation, no turn and nobody as signed in.
LEMMA RestartShowsNothing ==
  ASSUME saved' \in PreferencesType, disk' \in [key : BOOLEAN, catalog : BOOLEAN], Restarts
  PROVE  /\ app'.conversation.kind # "Ready" /\ app'.turn.kind = "Idle"
         /\ app'.auth # "Valid" /\ app'.validation.op < nextOp' /\ nextOp' > None
         /\ control'.op < nextOp' /\ control'.kind = "refresh"
         /\ control'.pc \in {"none", "validating"}
         /\ control'.pc = "validating" => control'.op # None
         /\ pending'.op # None => pending'.conversation # None
<1>1. PICK found \in KeyLoads', catalog \in {FALSE, disk'.catalog} :
        LET s == Start(saved', found, catalog)
        IN /\ app' = s.app /\ control' = s.control
           /\ nextOp' = s.nextOp /\ pending' = s.pending
  BY DEF Restarts
<1>2. found \in KeyResults /\ catalog \in BOOLEAN
  BY KeyLoadsType
<1> QED BY <1>1, <1>2, StartType

\* A step that leaves the conversation alone keeps it on the screen.
LEMMA ReadyKept ==
  ASSUME ReadyIsPointedTo, \A c \in Conversations : file[c].there => file'[c].there,
         SameConversation(app, app')
  PROVE  ReadyIsPointedTo'
BY DEF ReadyIsPointedTo, SameConversation

\* The resume that is pending when its operation ends is one of a conversation.
LEMMA PendingIsSome ==
  ASSUME TypeOK, ScreenInv, OpsAreFresh, ReceiveControl, EndsPending(Head(controlQueue))
  PROVE  pending.op # None /\ pending.conversation \in Conversations
<1>1. controlQueue # <<>> /\ controlQueue \in Seq(ControlEventType)
  BY DEF ReceiveControl, TypeOK, ServiceTypeOK
<1>2. 1 \in DOMAIN controlQueue /\ Head(controlQueue) = controlQueue[1]
  BY <1>1
<1>3. Head(controlQueue).op # None
  BY <1>2 DEF OpsAreFresh
<1>4. pending.op # None
  BY <1>3 DEF EndsPending
<1>5. pending.conversation # None /\ pending.conversation \in SomeConversation
  BY <1>4 DEF ScreenInv, ActiveIsPointedTo, TypeOK, AppTypeOK
<1> QED BY <1>4, <1>5 DEF SomeConversation

\* No step takes the conversation on the screen away from under the user.
LEMMA ReadyStep ==
  ASSUME TypeOK, ScreenInv, IdsAreFresh, CopyIsWhole, OpsAreFresh, Next
  PROVE  ReadyIsPointedTo'
<1> DEFINE Stay == \A c \in Conversations : file[c].there => file'[c].there
<1>0. ReadyIsPointedTo /\ app \in AppType
  BY DEF ScreenInv, TypeOK, AppTypeOK
<1>s. (~\E c \in Conversations : PickerDelete(c)) => Stay
  BY FilesStay
<1>1. ASSUME NEW c \in Conversations, PickerDelete(c) PROVE ReadyIsPointedTo'
  <2>1. app' = app /\ file' = [file EXCEPT ![c] = NoFile] /\ c # ActiveSaved(app)
        /\ file \in [Conversations -> [there : BOOLEAN, turns : TurnsType]]
    BY <1>1 DEF PickerDelete, TypeOK, StoreTypeOK
  <2>2. app.conversation.kind = "Ready" => ActiveSaved(app) = app.pointer
    BY <1>0 DEF ReadyIsPointedTo, ActiveSaved, Conversations, None
  <2> QED BY <1>0, <2>1, <2>2 DEF ReadyIsPointedTo
<1> SUFFICES ASSUME ~\E c \in Conversations : PickerDelete(c) PROVE ReadyIsPointedTo'
  BY <1>1
<1>2. CASE SameConversation(app, app')
  BY <1>0, <1>2, <1>s, ReadyKept
<1>3. CASE app'.conversation.kind # "Ready"
  BY <1>3 DEF ReadyIsPointedTo
<1>4. CASE SendLaunches
  <2>1. /\ app'.conversation = Ready(chat.conversation) /\ app'.pointer = chat.conversation
        /\ app'.provider = app.provider /\ chat.pc = "prepared" /\ file' = file
    BY <1>0, <1>4 DEF SendLaunches, AppType, CopyIsWhole
  <2>2. app.provider = "OpenRouter"
    BY <1>4 DEF SendLaunches, ScreenInv, SendingHasRoom
  <2> QED BY <2>1, <2>2 DEF ReadyIsPointedTo, Ready, IdsAreFresh, HasTurn, CopyIsWhole
<1>5. CASE NewThread
  <2>1. PICK save \in Saves(next.conversation, NoTurns) :
          /\ file' = save[1]
          /\ save[2] => app' = [app EXCEPT !.conversation = Ready(next.conversation),
                                           !.pointer = next.conversation]
          /\ ~save[2] => app' = app
    BY <1>5 DEF NewThread
  <2>2. CASE save[2]
    <3>1. file' = [file EXCEPT ![next.conversation] = FileOf(NoTurns)]
      BY <2>1, <2>2, SavesOutcome
    <3>2. next.conversation \in Conversations /\ app.provider = "OpenRouter"
      BY <1>5 DEF NewThread, MaySend
    <3>3. file'[next.conversation].there
      BY <3>1, <3>2 DEF FileOf, TypeOK, StoreTypeOK
    <3>4. /\ app'.conversation = Ready(next.conversation)
          /\ app'.pointer = next.conversation /\ app'.provider = app.provider
      BY <1>0, <2>1, <2>2 DEF AppType
    <3> QED BY <3>2, <3>3, <3>4 DEF ReadyIsPointedTo, Ready
  <2>3. CASE ~save[2]
    BY <1>0, <1>s, <2>1, <2>3, ReadyKept DEF SameConversation
  <2> QED BY <2>2, <2>3
<1>6. ASSUME NEW c \in Conversations, PickerSelect(c) PROVE ReadyIsPointedTo'
  BY <1>0, <1>6 DEF PickerSelect, Takes, Restored, Ready, ReadyIsPointedTo, AppType,
     IntentKeeps, stores
<1>7. CASE ReceiveControl
  <2> DEFINE c == pending.conversation
  <2>1. PICK b \in AppType :
          /\ SameConversation(app, b)
          /\ \/ app' = b
             \/ app' = ResumeHasFailed(b, c)
             \/ /\ EndsPending(Head(controlQueue))
                /\ file[c].there /\ app.provider = "OpenRouter" /\ app.pointer = c
                /\ app' = AutomaticallyRestored(b, c)
    BY <1>7, ReceivesControl DEF ReducedBy
  <2>2. CASE app' = b
    BY <1>2, <2>1, <2>2
  <2>3. CASE app' = ResumeHasFailed(b, c)
    <3>1. app'.conversation.kind = "ResumeFailed" \/ app' = b
      BY <2>3 DEF ResumeHasFailed, ResumeFailed, AppType
    <3> QED BY <1>3, <2>1, <1>2, <3>1
  <2>4. CASE /\ EndsPending(Head(controlQueue)) /\ file[c].there /\ app.provider = "OpenRouter" /\ app.pointer = c
             /\ app' = AutomaticallyRestored(b, c)
    <3>1. app' = b \/ app' = Restored(b, c)
      BY <2>4 DEF AutomaticallyRestored
    <3>2. CASE app' = Restored(b, c)
      <4>1. /\ app'.conversation = Ready(c) /\ app'.pointer = c /\ app'.provider = "OpenRouter"
        BY <3>2 DEF Restored, AppType
      <4>2. file' = file
        BY <1>7 DEF ReceiveControl, stores
      <4>3. c \in Conversations
        BY <1>7, <2>4, PendingIsSome
      <4> QED BY <2>4, <4>1, <4>2, <4>3 DEF ReadyIsPointedTo, Ready
    <3> QED BY <1>2, <2>1, <3>1, <3>2
  <2> QED BY <2>1, <2>2, <2>3, <2>4
<1>8. CASE LogoutEnds
  <2> DEFINE settled == [app EXCEPT !.turn = IF @.kind = "Streaming" THEN TurnIs("Idle") ELSE @]
  <2>1. settled \in AppType /\ SameConversation(app, settled)
    BY <1>0 DEF AppType, TurnIs, SomeConversation, SomeTurn, SameConversation
  <2>2. \E auth \in Auths : app' = AuthChanged(settled, auth)
    BY <1>8 DEF LogoutEnds, Auths
  <2> HIDE DEF settled
  <2>3. SameConversation(app, app')
    BY <2>1, <2>2, AuthChangedType DEF SameConversation
  <2> QED BY <1>2, <2>3
<1>9. CASE PickerSelectOther \/ (\E provider \in Providers : SwitchProvider(provider))
          \/ Quit \/ Crash
  <2>1. CASE Quit \/ Crash
    <3>1. Restarts /\ saved' \in PreferencesType /\ disk' \in [key : BOOLEAN, catalog : BOOLEAN]
      BY <2>1 DEF Quit, Crash, TypeOK, StoreTypeOK, AppTypeOK, AppType, Preferences, PreferencesType
    <3> QED BY <1>3, <3>1, RestartShowsNothing
  <2>2. CASE PickerSelectOther \/ \E provider \in Providers : SwitchProvider(provider)
    <3>1. app'.conversation = NoConversation
      BY <1>0, <2>2 DEF PickerSelectOther, SwitchProvider, Takes, AppType
    <3> QED BY <1>3, <3>1 DEF NoConversation
  <2> QED BY <1>9, <2>1, <2>2
<1>10. CASE Chat \/ Control
  <2>1. app' = app
    BY <1>10 DEF Chat, Control, ChatDelta, ChatSaves, ChatReports, Announces, CoordinatorKeeps,
       ControlReplacesKey, ControlRejectsCandidate, ControlAcceptsKey, ControlFails,
       ControlSavesCatalog, ControlFinishes
  <2> QED BY <1>2, <2>1 DEF SameConversation
<1>11. CASE \/ SendMessage \/ SendUnresolved \/ Interrupt \/ SelectModel \/ Resume \/ PickerClose
            \/ AcceptCredential \/ RefreshOpenRouter \/ LogoutOpenRouter
            \/ LogoutDropsControl \/ LogoutEndsControl \/ Persist
  <2>1. SameConversation(app, app')
    <3>1. CASE SendMessage \/ SendUnresolved \/ Interrupt
      BY <1>0, <3>1 DEF SendMessage, SendUnresolved, Interrupt, SameConversation, AppType
    <3>2. CASE SelectModel \/ Resume \/ PickerClose
      BY <1>0, <3>2 DEF SelectModel, Resume, PickerClose, Takes, SameConversation, AppType
    <3>3. CASE AcceptCredential \/ RefreshOpenRouter \/ LogoutOpenRouter
      BY <1>0, <3>3 DEF AcceptCredential, RefreshOpenRouter, LogoutOpenRouter, Takes,
         SameConversation, AppType
    <3>4. CASE LogoutDropsControl \/ LogoutEndsControl \/ Persist
      BY <1>0, <3>4 DEF LogoutDropsControl, LogoutEndsControl, Persist, SameConversation
    <3> QED BY <1>11, <3>1, <3>2, <3>3, <3>4
  <2> QED BY <1>2, <2>1
<1>12. CASE SendPrepares \/ SendRefused \/ SendAbandons
  <2>1. SameConversation(app, TurnFails(app))
    BY <1>0 DEF TurnFails, SameConversation, AppType
  <2>2. app' = app \/ app' = TurnFails(app)
    BY <1>12 DEF SendPrepares, SendRefused, SendAbandons
  <2> QED BY <1>2, <2>1, <2>2 DEF SameConversation
<1>13. CASE LogoutReadsChat \/ ReceiveChat
  <2>1. Head(chatQueue) \in ChatEventType /\ app' = ChatReduced(app, Head(chatQueue))
    BY <1>13 DEF LogoutReadsChat, ReceiveChat, TypeOK, ServiceTypeOK
  <2> QED BY <1>0, <1>2, <2>1, ChatReducedType
<1> QED
  BY <1>4, <1>5, <1>6, <1>7, <1>8, <1>9, <1>10, <1>11, <1>12, <1>13
     DEF Next, Intent, Execute

\* A step that keeps the conversation, starts no turn and opens no picker leaves an
\* active turn where it is.
LEMMA ActiveKept ==
  ASSUME ActiveIsPointedTo, SameConversation(app, app'),
         app'.turn = app.turn \/ app'.turn.kind = "Idle",
         app'.picker \in {app.picker, "closed"}, pending' \in {pending, NoPending}
  PROVE  ActiveIsPointedTo'
<1>1. NoPending.op = None
  BY DEF NoPending
<1> QED BY <1>1 DEF ActiveIsPointedTo, SameConversation, TurnActive

\* An active turn stays with its conversation.
LEMMA ActiveStep ==
  ASSUME TypeOK, ScreenInv, CopyIsWhole, OpsAreFresh, Next
  PROVE  ActiveIsPointedTo'
<1>0. ActiveIsPointedTo /\ SendingHasRoom /\ app \in AppType
  BY DEF ScreenInv, TypeOK, AppTypeOK
<1>i. TurnIs("Idle").kind = "Idle" /\ TurnIs("Starting").kind = "Starting"
  BY DEF TurnIs
<1>1. CASE SendMessage
  BY <1>0, <1>1 DEF SendMessage, MaySend, IntentKeeps, ActiveIsPointedTo, AppType, TurnIs
<1>2. CASE SendLaunches
  <2>1. /\ app'.conversation.kind = "Ready" /\ app'.pointer = chat.conversation
        /\ app'.provider = app.provider /\ app'.picker = app.picker
        /\ app'.turn.kind = "Streaming" /\ app'.turn.conversation = chat.conversation
        /\ pending' = pending
    BY <1>0, <1>2 DEF SendLaunches, AppType, Ready, Streaming
  <2>2. app.picker = "closed" /\ app.provider = "OpenRouter"
    BY <1>0, <1>2 DEF SendLaunches, ActiveIsPointedTo, SendingHasRoom, TurnActive
  <2> QED BY <1>0, <2>1, <2>2 DEF ActiveIsPointedTo
<1>3. CASE NewThread
  <2>1. /\ app'.turn = app.turn /\ app'.picker = app.picker /\ pending' = pending
        /\ ~TurnActive(app)
    BY <1>0, <1>3 DEF NewThread, MaySend, AppType
  <2> QED BY <1>0, <2>1 DEF ActiveIsPointedTo, TurnActive
<1>4. CASE Resume
  BY <1>0, <1>4 DEF Resume, Takes, IntentKeeps, ActiveIsPointedTo, TurnActive, AppType
<1>5. CASE \/ PickerSelectOther \/ (\E provider \in Providers : SwitchProvider(provider))
           \/ \E c \in Conversations : PickerSelect(c)
  <2>1. app'.turn.kind = "Idle" /\ pending' = pending
    BY <1>0, <1>5, <1>i DEF PickerSelectOther, SwitchProvider, PickerSelect, Takes, Restored,
       IntentKeeps, AppType
  <2> QED BY <1>0, <2>1 DEF ActiveIsPointedTo, TurnActive
<1>6. CASE ReceiveControl
  <2> DEFINE c == pending.conversation
  <2>1. PICK b \in AppType :
          /\ SameConversation(app, b) /\ b.turn = app.turn /\ b.picker \in {app.picker, "closed"}
          /\ pending' \in {pending, NoPending}
          /\ \/ app' = b
             \/ /\ pending' = NoPending
                /\ app' = ResumeHasFailed(b, c) \/ app' = AutomaticallyRestored(b, c)
    BY <1>6, ReceivesControl DEF ReducedBy
  <2>2. CASE app' = b
    BY <1>0, <2>1, <2>2, ActiveKept
  <2>3. CASE pending' = NoPending /\ app' = ResumeHasFailed(b, c)
    <3>1. /\ app'.turn = b.turn /\ app'.picker = b.picker /\ app'.provider = b.provider
          /\ app'.pointer = b.pointer
      BY <2>3 DEF ResumeHasFailed, AppType
    <3>2. pending'.op = None
      BY <2>3 DEF NoPending
    <3> QED BY <1>0, <2>1, <3>1, <3>2 DEF ActiveIsPointedTo, SameConversation, TurnActive
  <2>4. CASE pending' = NoPending /\ app' = AutomaticallyRestored(b, c)
    <3>1. CASE app' = b
      BY <1>0, <2>1, <3>1, ActiveKept
    <3>2. CASE app' = Restored(b, c)
      <4>1. app'.turn.kind = "Idle"
        BY <1>i, <3>2 DEF Restored, AppType
      <4> QED BY <2>4, <4>1 DEF ActiveIsPointedTo, TurnActive, NoPending
    <3> QED BY <2>4, <3>1, <3>2 DEF AutomaticallyRestored
  <2> QED BY <2>1, <2>2, <2>3, <2>4
<1>7. CASE LogoutEnds
  <2> DEFINE settled == [app EXCEPT !.turn = IF @.kind = "Streaming" THEN TurnIs("Idle") ELSE @]
  <2>1. settled \in AppType /\ SameConversation(app, settled) /\ settled.picker = app.picker
        /\ (settled.turn = app.turn \/ settled.turn.kind = "Idle")
    BY <1>0, <1>i DEF AppType, TurnIs, SomeConversation, SomeTurn, SameConversation
  <2>2. \E auth \in Auths : app' = AuthChanged(settled, auth)
    BY <1>7 DEF LogoutEnds, Auths
  <2> HIDE DEF settled
  <2>3. /\ SameConversation(app, app') /\ app'.turn = settled.turn
        /\ app'.picker \in {app.picker, "closed"}
    BY <2>1, <2>2, AuthChangedType DEF SameConversation
  <2> QED BY <1>0, <1>7, <2>1, <2>3, ActiveKept DEF LogoutEnds
<1>8. CASE Quit \/ Crash
  <2>1. Restarts /\ saved' \in PreferencesType /\ disk' \in [key : BOOLEAN, catalog : BOOLEAN]
    BY <1>8 DEF Quit, Crash, TypeOK, StoreTypeOK, AppTypeOK, AppType, Preferences, PreferencesType
  <2> QED BY <2>1, RestartShowsNothing DEF ActiveIsPointedTo, TurnActive
<1>9. CASE Chat \/ Control
  <2>1. app' = app /\ pending' = pending
    BY <1>9 DEF Chat, Control, ChatDelta, ChatSaves, ChatReports, Announces, CoordinatorKeeps,
       ControlReplacesKey, ControlRejectsCandidate, ControlAcceptsKey, ControlFails,
       ControlSavesCatalog, ControlFinishes
  <2> QED BY <1>0, <2>1 DEF ActiveIsPointedTo
<1>10. CASE \/ SendUnresolved \/ Interrupt \/ SelectModel \/ PickerClose
            \/ AcceptCredential \/ RefreshOpenRouter \/ LogoutOpenRouter
            \/ LogoutDropsControl \/ LogoutEndsControl \/ Persist
            \/ \E c \in Conversations : PickerDelete(c)
  <2>1. /\ SameConversation(app, app') /\ app'.turn = app.turn
        /\ app'.picker \in {app.picker, "closed"} /\ pending' = pending
    <3>1. CASE SendUnresolved \/ Interrupt \/ SelectModel \/ PickerClose
      BY <1>0, <3>1 DEF SendUnresolved, Interrupt, SelectModel, PickerClose, Takes,
         IntentKeeps, SameConversation, AppType
    <3>2. CASE AcceptCredential \/ RefreshOpenRouter \/ LogoutOpenRouter
      BY <1>0, <3>2 DEF AcceptCredential, RefreshOpenRouter, LogoutOpenRouter, Takes,
         IntentKeeps, SameConversation, AppType
    <3>3. CASE LogoutDropsControl \/ LogoutEndsControl \/ Persist
      BY <1>0, <3>3 DEF LogoutDropsControl, LogoutEndsControl, Persist, SameConversation
    <3>4. ASSUME NEW c \in Conversations, PickerDelete(c)
          PROVE  /\ SameConversation(app, app') /\ app'.turn = app.turn
                 /\ app'.picker \in {app.picker, "closed"} /\ pending' = pending
      BY <1>0, <3>4 DEF PickerDelete, IntentKeeps, SameConversation, AppType
    <3> QED BY <1>10, <3>1, <3>2, <3>3, <3>4
  <2> QED BY <1>0, <2>1, ActiveKept
<1>11. CASE SendPrepares \/ SendRefused \/ SendAbandons
  <2>1. /\ SameConversation(app, TurnFails(app)) /\ TurnFails(app).picker = app.picker
        /\ TurnFails(app).turn = app.turn \/ TurnFails(app).turn.kind = "Idle"
    BY <1>0, <1>i DEF TurnFails, SameConversation, AppType
  <2>2. (app' = app \/ app' = TurnFails(app)) /\ pending' = pending
    BY <1>11 DEF SendPrepares, SendRefused, SendAbandons
  <2> QED BY <1>0, <2>1, <2>2, ActiveKept DEF SameConversation
<1>12. CASE LogoutReadsChat \/ ReceiveChat
  <2>1. /\ Head(chatQueue) \in ChatEventType /\ app' = ChatReduced(app, Head(chatQueue))
        /\ pending' = pending
    BY <1>12 DEF LogoutReadsChat, ReceiveChat, TypeOK, ServiceTypeOK
  <2>2. /\ SameConversation(app, app') /\ app'.picker \in {app.picker, "closed"}
        /\ app'.turn = app.turn \/ app'.turn.kind = "Idle"
    BY <1>0, <1>i, <2>1, ChatReducedType
  <2> QED BY <1>0, <2>1, <2>2, ActiveKept
<1> QED
  BY <1>1, <1>2, <1>3, <1>4, <1>5, <1>6, <1>7, <1>8, <1>9, <1>10, <1>11, <1>12
     DEF Next, Intent, Execute

\* A message that is being sent keeps its room.
LEMMA SendingStep ==
  ASSUME TypeOK, ScreenInv, Next
  PROVE  SendingHasRoom'
<1>0. SendingHasRoom /\ app \in AppType
  BY DEF ScreenInv, TypeOK, AppTypeOK
<1>1. CASE SendMessage
  <2>1. /\ app'.turn.kind = "Starting" /\ app'.provider = app.provider
        /\ app'.conversation = app.conversation /\ app.provider = "OpenRouter"
        /\ next' = next /\ next.turn \in Turns
        /\ app.conversation.kind = "None" => next.conversation \in Conversations
    BY <1>0, <1>1 DEF SendMessage, MaySend, IntentKeeps, AppType, TurnIs
  <2> QED BY <2>1 DEF SendingHasRoom
<1>2. CASE SendPrepares
  <2>1. \/ effect' = "launch" /\ app' = app
        \/ effect' = "none"
    BY <1>2 DEF SendPrepares
  <2> QED BY <1>0, <1>2, <2>1 DEF SendPrepares, SendingHasRoom
<1>3. CASE Chat \/ Control
  <2>1. app' = app /\ effect' = effect /\ next' = next
    BY <1>3 DEF Chat, Control, ChatDelta, ChatSaves, ChatReports, Announces, CoordinatorKeeps,
       ControlReplacesKey, ControlRejectsCandidate, ControlAcceptsKey, ControlFails,
       ControlSavesCatalog, ControlFinishes
  <2> QED BY <1>0, <2>1 DEF SendingHasRoom
<1>4. CASE effect' \notin {"send", "launch"}
  BY <1>4 DEF SendingHasRoom
<1>5. SendMessage \/ SendPrepares \/ Chat \/ Control \/ effect' \notin {"send", "launch"}
  <2>1. ASSUME Execute, ~SendPrepares PROVE effect' \notin {"send", "launch"}
    BY <2>1 DEF Execute, SendUnresolved, SendRefused, SendLaunches, SendAbandons,
       LogoutDropsControl, LogoutEndsControl, LogoutReadsChat, LogoutEnds, Persist
  <2>2. ASSUME Intent, ~SendMessage PROVE effect' \notin {"send", "launch"}
    BY <2>2 DEF Intent, Interrupt, NewThread, SelectModel, SwitchProvider, Resume, PickerClose,
       PickerSelectOther, PickerSelect, PickerDelete, AcceptCredential, RefreshOpenRouter,
       LogoutOpenRouter, Takes, CoordinatorFree
  <2>3. ASSUME ReceiveControl \/ ReceiveChat \/ Quit \/ Crash
        PROVE  effect' \notin {"send", "launch"}
    BY <2>3 DEF ReceiveControl, ReceiveChat, Quit, Crash, Restarts, CoordinatorFree
  <2> QED BY <2>1, <2>2, <2>3 DEF Next
<1> QED BY <1>1, <1>2, <1>3, <1>4, <1>5

-----------------------------------------------------------------------------
(* The turns and their files.                                              *)

\* The turns announced as completed are so in the files f.
DoneIn(f) == \A r \in reported : f[r[1]].there => f[r[1]].turns[r[2]] = "Completed"

\* What happens beside the running turn: its task, the files and the ids stay, and it
\* stays on the screen and in the saved preferences.
LEMMA TurnKept ==
  ASSUME TypeOK, TurnInv, UNCHANGED <<file, next, reported>>,
         /\ chat'.pc = chat.pc /\ chat'.conversation = chat.conversation
         /\ chat'.turn = chat.turn /\ chat'.copy = chat.copy /\ chat'.outcome = chat.outcome,
         \/ chatQueue' = chatQueue
         \/ chatQueue # <<>> /\ chatQueue' = Tail(chatQueue)
         \/ chatQueue' = Append(chatQueue, [kind |-> "TextDelta"]),
         effect' = "launch" <=> effect = "launch",
         ChatRunning => app'.turn = app.turn,
         chat.pc = "streaming" =>
           saved'.provider = "OpenRouter" /\ saved'.pointer = chat.conversation
  PROVE  TurnInv'
<1>1. chatQueue \in Seq(ChatEventType)
  BY DEF TypeOK, ServiceTypeOK
<1>2. \A k \in DOMAIN chatQueue' :
        \/ chatQueue'[k].kind # "TurnFinished"
        \/ \E j \in DOMAIN chatQueue : chatQueue'[k] = chatQueue[j]
  <2>1. CASE chatQueue' = chatQueue
    BY <2>1
  <2>2. CASE chatQueue # <<>> /\ chatQueue' = Tail(chatQueue)
    <3>1. \A k \in DOMAIN chatQueue' : /\ k + 1 \in DOMAIN chatQueue
                                       /\ chatQueue'[k] = chatQueue[k + 1]
      BY <1>1, <2>2
    <3> QED BY <3>1
  <2>3. CASE chatQueue' = Append(chatQueue, [kind |-> "TextDelta"])
    <3>1. \A k \in DOMAIN chatQueue' :
            \/ chatQueue'[k] = [kind |-> "TextDelta"]
            \/ k \in DOMAIN chatQueue /\ chatQueue'[k] = chatQueue[k]
      BY <1>1, <2>3
    <3> QED BY <3>1
  <2> QED BY <2>1, <2>2, <2>3
<1>3. IdsAreFresh'
  BY <1>2 DEF TurnInv, IdsAreFresh, HasTurn, Finishes
<1>4. CopyIsWhole'
  BY DEF TurnInv, CopyIsWhole
<1>5. DoneIsKept' /\ NoOrphanTurn'
  BY DEF TurnInv, DoneIsKept, NoOrphanTurn, ChatRunning
<1>6. SentIsRecorded'
  BY DEF TurnInv, SentIsRecorded
<1> QED BY <1>3, <1>4, <1>5, <1>6 DEF TurnInv

\* What happens when the task is gone: the turns that were done must still be so.
LEMMA ChatGone ==
  ASSUME TypeOK, TurnInv, chat' = NoChat, effect' # "launch", reported' = reported,
         next'.conversation \in Nat /\ next'.turn \in Nat,
         next.conversation <= next'.conversation /\ next.turn <= next'.turn,
         chatQueue' = chatQueue \/ chatQueue' = <<>>,
         \A c \in Conversations :
           file'[c].there => file[c].there \/ c < next'.conversation,
         DoneIn(file')
  PROVE  TurnInv'
<1>1. NoChat.pc = "none"
  BY DEF NoChat
<1>2. next.conversation \in Nat /\ next.turn \in Nat /\ reported \subseteq Conversations \X Turns
      /\ Conversations \subseteq Nat /\ Turns \subseteq Nat /\ chatQueue \in Seq(ChatEventType)
  BY OpenRouterAssumption DEF TypeOK, StoreTypeOK, ServiceTypeOK, Conversations, Turns
<1>3. IdsAreFresh'
  <2>1. \A c \in Conversations : file'[c].there => c < next'.conversation
    BY <1>2 DEF TurnInv, IdsAreFresh
  <2>2. \A r \in reported : r[1] < next'.conversation /\ r[2] < next'.turn
    <3> SUFFICES ASSUME NEW r \in reported
                 PROVE  r[1] < next'.conversation /\ r[2] < next'.turn
      OBVIOUS
    <3>1. r[1] \in Nat /\ r[2] \in Nat
      BY <1>2
    <3>2. r[1] < next.conversation /\ r[2] < next.turn
      BY DEF TurnInv, IdsAreFresh
    <3> QED BY <1>2, <3>1, <3>2
  <2>3. \A k \in DOMAIN chatQueue' :
          chatQueue'[k].kind = "TurnFinished" => chatQueue'[k].turn < next'.turn
    <3>1. CASE chatQueue' = <<>>
      BY <3>1
    <3>2. CASE chatQueue' = chatQueue
      <4> SUFFICES ASSUME NEW k \in DOMAIN chatQueue, chatQueue[k].kind = "TurnFinished"
                   PROVE  chatQueue[k].turn < next'.turn
        BY <3>2
      <4>1. chatQueue[k].turn < next.turn
        BY DEF TurnInv, IdsAreFresh
      <4>2. chatQueue[k] \in ChatEventType
        BY <1>2
      <4>3. chatQueue[k].turn \in Nat
        <5>1. chatQueue[k] \in [kind : {"TurnFinished"}, conversation : SomeConversation,
                                turn : SomeTurn, unauthorized : BOOLEAN]
          BY <4>2 DEF ChatEventType
        <5>2. chatQueue[k].turn \in SomeTurn
          BY <5>1
        <5>3. SomeTurn \subseteq Nat
          BY <1>2 DEF SomeTurn, None
        <5> QED BY <5>2, <5>3
      <4> QED BY <1>2, <4>1, <4>3
    <3> QED BY <3>1, <3>2
  <2> QED BY <1>1, <2>1, <2>2, <2>3 DEF IdsAreFresh, HasTurn
<1>4. CopyIsWhole' /\ NoOrphanTurn' /\ SentIsRecorded'
  BY <1>1 DEF CopyIsWhole, NoOrphanTurn, SentIsRecorded, ChatRunning
<1>5. DoneIsKept'
  BY DEF DoneIn, DoneIsKept
<1> QED BY <1>3, <1>4, <1>5 DEF TurnInv

\* A save leaves the other conversations' files alone.
LEMMA OthersAreLeft ==
  ASSUME file \in [Conversations -> [there : BOOLEAN, turns : TurnsType]],
         NEW c, NEW turns, NEW save \in Saves(c, turns), NEW d \in Conversations, d # c
  PROVE  save[1][d] = file[d]
<1> DEFINE f == [file EXCEPT ![c] = FileOf(turns)]
<1>1. save[1] = file \/ save[1] = f
  BY SavesOutcome
<1>2. f[d] = file[d]
  OBVIOUS
<1> HIDE DEF f
<1> QED BY <1>1, <1>2

\* Whatever outcome the task saves for its turn, the other turns stay done.
LEMMA SavesKeepDone ==
  ASSUME TypeOK, TurnInv, chat.pc \in {"prepared", "streaming"}, NEW outcome \in Ended,
         NEW save \in Saves(chat.conversation, [chat.copy EXCEPT ![chat.turn] = outcome])
  PROVE  /\ DoneIn(save[1])
         /\ save[1] \in [Conversations -> [there : BOOLEAN, turns : TurnsType]]
         /\ save[2] => save[1] = [file EXCEPT ![chat.conversation] =
                                    FileOf([chat.copy EXCEPT ![chat.turn] = outcome])]
         /\ \A c \in Conversations :
              save[1][c].there => file[c].there \/ c < next.conversation
         /\ chat.conversation \in Conversations /\ chat.turn \in Turns
         /\ [chat.copy EXCEPT ![chat.turn] = outcome][chat.turn] = outcome
<1> DEFINE turns == [chat.copy EXCEPT ![chat.turn] = outcome]
           f == [file EXCEPT ![chat.conversation] = FileOf(turns)]
<1>1. /\ chat.conversation \in Conversations /\ chat.turn \in Turns
      /\ chat.conversation < next.conversation
      /\ \A r \in reported : r[2] # chat.turn
  BY DEF TurnInv, IdsAreFresh, HasTurn
<1>2. chat.copy \in TurnsType /\ turns \in TurnsType
  BY <1>1 DEF TypeOK, ServiceTypeOK, ChatType, TurnsType, TurnStates
<1>3. reported \subseteq Conversations \X Turns
      /\ file \in [Conversations -> [there : BOOLEAN, turns : TurnsType]]
  BY DEF TypeOK, StoreTypeOK
<1>4. turns[chat.turn] = outcome /\ \A t \in Turns : t # chat.turn => turns[t] = chat.copy[t]
  BY <1>1, <1>2 DEF TurnsType
<1>5. \A r \in reported : r[1] = chat.conversation => turns[r[2]] = "Completed"
  BY <1>1, <1>3, <1>4 DEF TurnInv, CopyIsWhole
<1>6. save[1] \in {file, f} /\ (save[2] => save[1] = f)
  BY SavesOutcome
<1>7. save[1] \in [Conversations -> [there : BOOLEAN, turns : TurnsType]]
  BY <1>1, <1>2, SavesType DEF TypeOK
<1> HIDE DEF turns
<1>8. \A c \in Conversations : f[c] = IF c = chat.conversation THEN FileOf(turns) ELSE file[c]
  BY <1>1, <1>3
<1>9. DoneIn(file)
  BY DEF TurnInv, DoneIsKept, DoneIn
<1>10. DoneIn(f)
  BY <1>3, <1>5, <1>8, <1>9 DEF DoneIn, FileOf
<1>11. \A c \in Conversations : f[c].there => file[c].there \/ c < next.conversation
  BY <1>1, <1>8
<1> HIDE DEF f
<1>12. DoneIn(save[1])
       /\ \A c \in Conversations : save[1][c].there => file[c].there \/ c < next.conversation
  BY <1>6, <1>9, <1>10, <1>11
<1> QED BY <1>1, <1>4, <1>6, <1>7, <1>12 DEF turns, f

\* No step loses a finished turn, runs one beside the screen or sends one that is not
\* recorded.
LEMMA TurnStep ==
  ASSUME TypeOK, ScreenInv, TurnInv, OpsAreFresh, Next
  PROVE  TurnInv'
<1>0. /\ app \in AppType /\ chat \in ChatType /\ chatQueue \in Seq(ChatEventType)
      /\ file \in [Conversations -> [there : BOOLEAN, turns : TurnsType]]
      /\ next \in [conversation : Nat, turn : Nat]
      /\ reported \subseteq Conversations \X Turns
      /\ Conversations \subseteq Nat /\ Turns \subseteq Nat
  BY OpenRouterAssumption DEF TypeOK, AppTypeOK, ServiceTypeOK, StoreTypeOK, Conversations, Turns
<1>d. DoneIn(file)
  BY DEF TurnInv, DoneIsKept, DoneIn
<1>s. chat.pc = "streaming" =>
        saved.provider = "OpenRouter" /\ saved.pointer = chat.conversation
  BY DEF TurnInv, SentIsRecorded
<1>l. effect = "launch" <=> chat.pc = "prepared"
  BY DEF TurnInv, CopyIsWhole
<1>r. ChatRunning => app.turn.kind = "Streaming"
  BY DEF TurnInv, NoOrphanTurn, Streaming
<1>1. CASE ChatDelta
  <2>1. /\ chat'.pc = chat.pc /\ chat'.conversation = chat.conversation
        /\ chat'.turn = chat.turn /\ chat'.copy = chat.copy /\ chat'.outcome = chat.outcome
        /\ chatQueue' = chatQueue \/ chatQueue' = Append(chatQueue, [kind |-> "TextDelta"])
        /\ UNCHANGED <<file, next, reported, effect, app, saved>>
    BY <1>0, <1>1 DEF ChatDelta, CoordinatorKeeps, ChatType
  <2> QED BY <1>s, <2>1, TurnKept
<1>2. CASE ChatSaves
  <2>0. PICK outcome \in Ended, unauthorized \in BOOLEAN :
          \E save \in Saves(chat.conversation, [chat.copy EXCEPT ![chat.turn] = outcome]) :
            /\ file' = save[1]
            /\ chat' = [chat EXCEPT !.pc = "reporting", !.cancelled = FALSE,
                                    !.undelivered = FALSE, !.copy = NoTurns,
                                    !.outcome = Announced(outcome, save[2]),
                                    !.unauthorized = save[2] /\ unauthorized]
    BY <1>2 DEF ChatSaves
  <2>1. PICK save \in Saves(chat.conversation, [chat.copy EXCEPT ![chat.turn] = outcome]) :
          /\ file' = save[1]
          /\ chat' = [chat EXCEPT !.pc = "reporting", !.cancelled = FALSE,
                                  !.undelivered = FALSE, !.copy = NoTurns,
                                  !.outcome = Announced(outcome, save[2]),
                                  !.unauthorized = save[2] /\ unauthorized]
    BY <2>0
  <2>2. /\ chat'.pc = "reporting" /\ chat'.conversation = chat.conversation
        /\ chat'.turn = chat.turn /\ chat'.outcome = Announced(outcome, save[2])
        /\ UNCHANGED <<next, reported, effect, app, saved, chatQueue>> /\ chat.pc = "streaming"
    BY <1>0, <1>2, <2>1 DEF ChatSaves, CoordinatorKeeps, ChatType
  <2> DEFINE turns == [chat.copy EXCEPT ![chat.turn] = outcome]
  <2>3. /\ DoneIn(file')
        /\ save[2] => file' = [file EXCEPT ![chat.conversation] = FileOf(turns)]
        /\ \A c \in Conversations : file'[c].there => file[c].there \/ c < next.conversation
        /\ chat.conversation \in Conversations /\ chat.turn \in Turns
        /\ turns[chat.turn] = outcome
    BY <2>1, <2>2, SavesKeepDone
  <2> HIDE DEF turns
  <2>4. IdsAreFresh'
    BY <2>2, <2>3 DEF TurnInv, IdsAreFresh, HasTurn
  <2>5. CopyIsWhole'
    <3>1. chat'.outcome = "Completed" => save[2] /\ outcome = "Completed"
      BY <2>2 DEF Announced
    <3>2. save[2] => file'[chat.conversation] = FileOf(turns)
      BY <1>0, <2>3
    <3>3. effect' # "launch"
      BY <1>l, <2>2
    <3> QED BY <2>2, <2>3, <3>1, <3>2, <3>3 DEF CopyIsWhole, FileOf
  <2>6. DoneIsKept' /\ NoOrphanTurn' /\ SentIsRecorded'
    BY <2>2, <2>3 DEF TurnInv, DoneIn, DoneIsKept, NoOrphanTurn, ChatRunning, SentIsRecorded
  <2> QED BY <2>4, <2>5, <2>6 DEF TurnInv
<1>3. CASE ChatReports
  <2> DEFINE e == [kind |-> "TurnFinished", conversation |-> chat.conversation,
                   turn |-> chat.turn, unauthorized |-> chat.unauthorized]
  <2>1. /\ chat'.pc = "done" /\ chat.pc = "reporting" /\ chatQueue' = Append(chatQueue, e)
        /\ UNCHANGED <<next, file, effect, app, saved>>
        /\ reported' = IF chat.outcome = "Completed"
                       THEN reported \cup {<<chat.conversation, chat.turn>>} ELSE reported
    BY <1>3 DEF ChatReports, CoordinatorKeeps, NoChat
  <2>2. /\ chat.conversation \in Conversations /\ chat.turn \in Turns
        /\ chat.conversation < next.conversation /\ chat.turn < next.turn
    BY <2>1 DEF TurnInv, IdsAreFresh, HasTurn
  <2>3. IdsAreFresh'
    <3>1. \A c \in Conversations : file'[c].there => c < next'.conversation
      BY <2>1 DEF TurnInv, IdsAreFresh
    <3>2. \A r \in reported' : r[1] < next'.conversation /\ r[2] < next'.turn
      BY <2>1, <2>2 DEF TurnInv, IdsAreFresh
    <3>3. \A k \in DOMAIN chatQueue' :
            \/ chatQueue'[k] = e
            \/ k \in DOMAIN chatQueue /\ chatQueue'[k] = chatQueue[k]
      BY <1>0, <2>1
    <3>4. e.turn = chat.turn
      OBVIOUS
    <3> HIDE DEF e
    <3>5. \A k \in DOMAIN chatQueue' :
            chatQueue'[k].kind = "TurnFinished" => chatQueue'[k].turn < next'.turn
      BY <2>1, <2>2, <3>3, <3>4 DEF TurnInv, IdsAreFresh
    <3> QED BY <2>1, <3>1, <3>2, <3>5 DEF IdsAreFresh, HasTurn
  <2>4. CopyIsWhole' /\ NoOrphanTurn' /\ SentIsRecorded'
    BY <1>l, <2>1 DEF CopyIsWhole, NoOrphanTurn, ChatRunning, SentIsRecorded
  <2>5. DoneIsKept'
    <3>1. chat.outcome = "Completed" /\ file[chat.conversation].there =>
            file[chat.conversation].turns[chat.turn] = "Completed"
      BY <2>1 DEF TurnInv, CopyIsWhole
    <3> QED BY <1>d, <2>1, <3>1 DEF DoneIn, DoneIsKept
  <2> QED BY <2>3, <2>4, <2>5 DEF TurnInv
<1>4. CASE Control
  <2>1. UNCHANGED <<chat, chatQueue, file, next, reported, effect, app, saved>>
    BY <1>4 DEF Control, Announces, CoordinatorKeeps, ControlReplacesKey,
       ControlRejectsCandidate, ControlAcceptsKey, ControlFails, ControlSavesCatalog,
       ControlFinishes
  <2> QED BY <1>s, <2>1, TurnKept
<1>5. CASE SendPrepares
  <2> DEFINE turns == [file[Target].turns EXCEPT ![next.turn] = "InProgress"]
  <2>1. Target \in Conversations /\ next.turn \in Turns
    BY <1>5, TargetIsConversation DEF SendPrepares, ScreenInv
  <2>2. PICK save \in Saves(Target, turns) :
          /\ file' = save[1]
          /\ save[2] =>
               /\ chat' = [NoChat EXCEPT !.pc = "prepared", !.turn = next.turn,
                                         !.conversation = Target, !.copy = turns]
               /\ effect' = "launch" /\ app' = app
          /\ ~save[2] => chat' = NoChat /\ effect' = "none"
    BY <1>5 DEF SendPrepares
  <2>3. turns \in TurnsType /\ turns[next.turn] = "InProgress"
        /\ \A t \in Turns : t # next.turn => turns[t] = file[Target].turns[t]
    BY <1>0, <2>1 DEF TurnsType, TurnStates
  <2>4. /\ next'.turn = next.turn + 1
        /\ next'.conversation = IF Target = next.conversation THEN Target + 1
                                ELSE next.conversation
        /\ UNCHANGED <<chatQueue, saved, reported>> /\ app.conversation.kind # "ResumeFailed"
    BY <1>5 DEF SendPrepares, history
  <2>5. \/ Target = next.conversation
        \/ file[Target].there /\ Target < next.conversation
    BY <1>0, <2>1 DEF Target, ScreenInv, ReadyIsPointedTo, TurnInv, IdsAreFresh
  <2>6. /\ next.conversation \in Nat /\ next.turn \in Nat /\ Target \in Nat
        /\ next'.conversation \in Nat /\ next'.turn \in Nat /\ next.turn < next'.turn
        /\ Target < next'.conversation /\ next.conversation <= next'.conversation
    <3>1. next.conversation \in Nat /\ next.turn \in Nat /\ Target \in Nat
      BY <1>0, <2>1
    <3>2. CASE Target = next.conversation
      BY <2>4, <3>1, <3>2
    <3>3. CASE Target # next.conversation
      BY <2>4, <2>5, <3>1, <3>3
    <3> QED BY <3>2, <3>3, <3>1
  <2>7. \A r \in reported : /\ r[1] \in Conversations /\ r[2] \in Turns
                            /\ r[1] < next.conversation /\ r[2] < next.turn
    BY <1>0 DEF TurnInv, IdsAreFresh
  <2>8. \A r \in reported : r[1] = Target => turns[r[2]] = "Completed"
    <3> TAKE r \in reported
    <3> HAVE r[1] = Target
    <3>1. file[Target].there
      BY <1>0, <2>1, <2>5, <2>7
    <3>2. file[Target].turns[r[2]] = "Completed"
      BY <1>d, <3>1 DEF DoneIn
    <3>3. r[2] # next.turn
      <4>1. r[2] \in Nat /\ r[2] < next.turn
        BY <1>0, <2>7
      <4> QED BY <2>6, <4>1
    <3> QED BY <2>3, <2>7, <3>2, <3>3
  <2> HIDE DEF turns
  <2>9. DoneIn(file')
    <3> DEFINE f == [file EXCEPT ![Target] = FileOf(turns)]
    <3>1. file' = file \/ file' = f
      BY <2>2, SavesOutcome
    <3>2. \A c \in Conversations : f[c] = IF c = Target THEN FileOf(turns) ELSE file[c]
      BY <1>0, <2>1
    <3> HIDE DEF f
    <3>3. DoneIn(f)
      BY <1>d, <2>7, <2>8, <3>2 DEF DoneIn, FileOf
    <3> QED BY <1>d, <3>1, <3>3
  <2>10. \A c \in Conversations : file'[c].there => file[c].there \/ c = Target
    <3> DEFINE f == [file EXCEPT ![Target] = FileOf(turns)]
    <3>1. file' = file \/ file' = f
      BY <2>2, SavesOutcome
    <3>2. \A c \in Conversations : c # Target => f[c] = file[c]
      BY <1>0, <2>1
    <3> HIDE DEF f
    <3> QED BY <3>1, <3>2
  <2>11. CASE ~save[2]
    BY <1>0, <2>2, <2>4, <2>6, <2>9, <2>10, <2>11, ChatGone
  <2>12. CASE save[2]
    <3>1. /\ chat'.pc = "prepared" /\ chat'.turn = next.turn /\ chat'.conversation = Target
          /\ chat'.copy = turns /\ effect' = "launch" /\ app' = app
      BY <2>2, <2>12 DEF NoChat
    <3>2. file'[Target] = FileOf(turns)
      <4>1. file' = [file EXCEPT ![Target] = FileOf(turns)]
        BY <2>2, <2>12, SavesOutcome
      <4> QED BY <1>0, <2>1, <4>1
    <3>3. IdsAreFresh'
      <4>1. \A c \in Conversations : file'[c].there => c < next'.conversation
        <5> TAKE c \in Conversations
        <5> HAVE file'[c].there
        <5>1. c \in Nat
          BY <1>0
        <5>2. c = Target \/ c < next.conversation
          BY <2>10 DEF TurnInv, IdsAreFresh
        <5> QED BY <2>6, <5>1, <5>2
      <4>2. \A r \in reported' : r[1] < next'.conversation /\ r[2] < next'.turn /\ r[2] # next.turn
        <5> SUFFICES ASSUME NEW r \in reported
                     PROVE  /\ r[1] < next'.conversation /\ r[2] < next'.turn
                            /\ r[2] # next.turn
          BY <2>4
        <5>1. /\ r[1] \in Nat /\ r[2] \in Nat
              /\ r[1] < next.conversation /\ r[2] < next.turn
          BY <1>0, <2>7
        <5> QED BY <2>6, <5>1
      <4>3. \A k \in DOMAIN chatQueue : chatQueue[k].kind = "TurnFinished" =>
              chatQueue[k].turn < next.turn + 1 /\ chatQueue[k].turn # next.turn
        <5> SUFFICES ASSUME NEW k \in DOMAIN chatQueue, chatQueue[k].kind = "TurnFinished"
                     PROVE  chatQueue[k].turn < next.turn + 1 /\ chatQueue[k].turn # next.turn
          OBVIOUS
        <5>1. chatQueue[k].turn < next.turn
          BY DEF TurnInv, IdsAreFresh
        <5>2. chatQueue[k] \in ChatEventType
          BY <1>0
        <5>3. chatQueue[k] \in [kind : {"TurnFinished"}, conversation : SomeConversation,
                                turn : SomeTurn, unauthorized : BOOLEAN]
          BY <5>2 DEF ChatEventType
        <5>4. chatQueue[k].turn \in SomeTurn /\ SomeTurn \subseteq Nat
          BY <1>0, <5>3 DEF SomeTurn, None
        <5>5. chatQueue[k].turn \in Nat
          BY <5>4
        <5> QED BY <2>6, <5>1, <5>5
      <4> QED BY <1>0, <2>1, <2>4, <2>6, <3>1, <4>1, <4>2, <4>3
              DEF IdsAreFresh, HasTurn, Finishes
    <3>4. CopyIsWhole'
      BY <2>3, <2>4, <2>8, <3>1, <3>2 DEF CopyIsWhole, FileOf
    <3>5. DoneIsKept' /\ NoOrphanTurn' /\ SentIsRecorded'
      BY <2>4, <2>9, <3>1 DEF DoneIn, DoneIsKept, NoOrphanTurn, ChatRunning, SentIsRecorded
    <3> QED BY <3>3, <3>4, <3>5 DEF TurnInv
  <2> QED BY <2>11, <2>12
<1>6. CASE SendLaunches
  <2>1. /\ chat'.pc = "streaming" /\ chat'.conversation = chat.conversation
        /\ chat'.turn = chat.turn /\ chat'.copy = chat.copy /\ chat.pc = "prepared"
        /\ UNCHANGED <<next, file, chatQueue, reported>> /\ effect' = "none"
        /\ app'.turn = Streaming(chat.conversation, chat.turn)
        /\ saved'.provider = "OpenRouter" /\ saved'.pointer = chat.conversation
    BY <1>0, <1>6, <1>l DEF SendLaunches, ChatType, AppType, WithPointer, Preferences, history
  <2>2. IdsAreFresh'
    BY <2>1 DEF TurnInv, IdsAreFresh, HasTurn
  <2>3. CopyIsWhole'
    BY <2>1 DEF TurnInv, CopyIsWhole
  <2>4. DoneIsKept' /\ NoOrphanTurn'
    BY <2>1 DEF TurnInv, DoneIsKept, NoOrphanTurn, ChatRunning
  <2>5. SentIsRecorded'
    BY <2>1 DEF TurnInv, CopyIsWhole, SentIsRecorded
  <2> QED BY <2>2, <2>3, <2>4, <2>5 DEF TurnInv
<1>7. CASE SendAbandons
  <2>1. /\ chat.pc = "prepared" /\ chat' = NoChat /\ effect' = "none"
        /\ UNCHANGED <<next, chatQueue, reported>>
    BY <1>7, <1>l DEF SendAbandons, history
  <2>2. PICK save \in Saves(chat.conversation, [chat.copy EXCEPT ![chat.turn] = "Failed"]) :
          file' = save[1]
    BY <1>7 DEF SendAbandons
  <2>3. /\ DoneIn(file')
        /\ \A c \in Conversations : file'[c].there => file[c].there \/ c < next.conversation
    BY <2>1, <2>2, SavesKeepDone DEF Ended
  <2> QED BY <1>0, <2>1, <2>3, ChatGone
<1>8. CASE SendRefused
  <2>1. ~ChatRunning
    BY <1>8, <1>r DEF SendRefused, ScreenInv, SendingHasRoom
  <2>2. chat' = NoChat /\ effect' = "none" /\ UNCHANGED <<next, chatQueue, reported, file>>
    BY <1>8, <2>1 DEF SendRefused, stores, history
  <2> QED BY <1>0, <1>d, <2>2, ChatGone
<1>9. CASE LogoutEnds
  <2>1. chat' = NoChat /\ effect' = "none" /\ UNCHANGED <<next, chatQueue, reported, file>>
    BY <1>9 DEF LogoutEnds
  <2> QED BY <1>0, <1>d, <2>1, ChatGone
<1>10. CASE NewThread
  <2>1. /\ ~TurnActive(app) /\ CoordinatorFree /\ next.conversation \in Conversations
        /\ next'.conversation = next.conversation + 1 /\ next'.turn = next.turn
        /\ UNCHANGED <<chat, chatQueue, reported, saved>> /\ effect' \in {effect, "persistIntent"}
    BY <1>0, <1>10 DEF NewThread, MaySend, tasks, history
  <2>2. ~HasTurn
    BY <1>l, <1>r, <2>1 DEF TurnActive, HasTurn, ChatRunning, CoordinatorFree
  <2>3. PICK save \in Saves(next.conversation, NoTurns) : file' = save[1]
    BY <1>10 DEF NewThread
  <2>6. \A c \in Conversations : c # next.conversation => file'[c] = file[c]
    BY <1>0, <2>3, OthersAreLeft
  <2>7. \A r \in reported : /\ r[1] \in Conversations /\ r[1] # next.conversation
                            /\ r[1] < next'.conversation /\ r[2] < next'.turn
    <3> TAKE r \in reported
    <3>1. r[1] \in Conversations /\ r[1] < next.conversation /\ r[2] < next.turn
      BY <1>0 DEF TurnInv, IdsAreFresh
    <3>2. /\ r[1] \in Nat /\ r[2] \in Nat
          /\ next.conversation \in Nat /\ next.turn \in Nat
      BY <1>0
    <3> QED BY <2>1, <3>1, <3>2
  <2>8. DoneIsKept'
    BY <1>d, <2>1, <2>6, <2>7 DEF DoneIn, DoneIsKept
  <2>9. IdsAreFresh'
    <3>1. \A c \in Conversations : file'[c].there => c < next'.conversation
      <4> TAKE c \in Conversations
      <4> HAVE file'[c].there
      <4>1. CASE c = next.conversation
        BY <1>0, <2>1, <4>1
      <4>2. CASE c # next.conversation
        <5>1. c < next.conversation
          BY <2>6, <4>2 DEF TurnInv, IdsAreFresh
        <5> QED BY <1>0, <2>1, <5>1
      <4> QED BY <4>1, <4>2
    <3> QED BY <2>1, <2>2, <2>7, <3>1 DEF TurnInv, IdsAreFresh, HasTurn
  <2>10. CopyIsWhole' /\ NoOrphanTurn' /\ SentIsRecorded'
    BY <2>1, <2>2 DEF HasTurn, CopyIsWhole, NoOrphanTurn, ChatRunning, SentIsRecorded, CoordinatorFree
  <2> QED BY <2>8, <2>9, <2>10 DEF TurnInv
<1>11. ASSUME NEW c \in Conversations, PickerDelete(c) PROVE TurnInv'
  <2>1. /\ file' = [file EXCEPT ![c] = NoFile] /\ app.picker = "ready" /\ CoordinatorFree
        /\ UNCHANGED <<app, effect, chat, chatQueue, saved, next, reported>>
    BY <1>11 DEF PickerDelete, tasks, history
  <2>2. ~TurnActive(app)
    BY <2>1 DEF ScreenInv, ActiveIsPointedTo
  <2>3. ~HasTurn
    BY <1>l, <1>r, <2>1, <2>2 DEF TurnActive, HasTurn, ChatRunning, CoordinatorFree
  <2>4. \A d \in Conversations : file'[d].there => file[d].there /\ file'[d] = file[d]
    BY <1>0, <2>1 DEF NoFile
  <2>5. IdsAreFresh'
    BY <2>1, <2>3, <2>4 DEF TurnInv, IdsAreFresh, HasTurn
  <2>6. DoneIsKept'
    BY <1>0, <1>d, <2>1, <2>4 DEF DoneIn, DoneIsKept
  <2>7. CopyIsWhole' /\ NoOrphanTurn' /\ SentIsRecorded'
    BY <2>1, <2>3 DEF HasTurn, CopyIsWhole, NoOrphanTurn, ChatRunning, SentIsRecorded, CoordinatorFree
  <2> QED BY <2>5, <2>6, <2>7 DEF TurnInv
<1>12. CASE Quit \/ Crash
  <2>1. /\ chat' = NoChat /\ effect' = "none" /\ chatQueue' = <<>> /\ UNCHANGED <<next, reported>>
    BY <1>12 DEF Quit, Crash, Restarts
  <2>2. \A f \in [Conversations -> [there : BOOLEAN, turns : TurnsType]] :
          DoneIn(f) => DoneIn(Repaired(f))
    <3> SUFFICES ASSUME NEW f \in [Conversations -> [there : BOOLEAN, turns : TurnsType]],
                        DoneIn(f), NEW r \in reported, Repaired(f)[r[1]].there
                 PROVE  Repaired(f)[r[1]].turns[r[2]] = "Completed"
      BY DEF DoneIn
    <3>1. r[1] \in Conversations /\ r[2] \in Turns
      BY <1>0
    <3>2. /\ Repaired(f)[r[1]].there = f[r[1]].there
          /\ Repaired(f)[r[1]].turns[r[2]] =
               IF f[r[1]].turns[r[2]] = "InProgress" THEN "Interrupted"
               ELSE f[r[1]].turns[r[2]]
      BY <3>1 DEF Repaired
    <3> QED BY <3>2 DEF DoneIn
  <2>3. CASE file' = Repaired(file)
    BY <1>0, <1>d, <2>1, <2>2, <2>3, RepairedType, ChatGone
  <2>4. ASSUME chat.pc = "streaming", NEW outcome \in Ended,
               NEW save \in Saves(chat.conversation, [chat.copy EXCEPT ![chat.turn] = outcome]),
               file' = Repaired(save[1])
        PROVE  TurnInv'
    <3>1. /\ DoneIn(save[1])
          /\ save[1] \in [Conversations -> [there : BOOLEAN, turns : TurnsType]]
          /\ \A c \in Conversations : save[1][c].there => file[c].there \/ c < next.conversation
      BY <2>4, SavesKeepDone
    <3>2. DoneIn(file')
          /\ \A c \in Conversations : file'[c].there => file[c].there \/ c < next.conversation
      BY <2>2, <2>4, <3>1, RepairedType
    <3> QED BY <1>0, <2>1, <3>2, ChatGone
  <2> QED BY <1>12, <2>3, <2>4 DEF Quit, Crash
<1>13. CASE Interrupt \/ LogoutEndsControl
  <2>1. /\ chat'.pc = chat.pc /\ chat'.conversation = chat.conversation
        /\ chat'.turn = chat.turn /\ chat'.copy = chat.copy /\ chat'.outcome = chat.outcome
        /\ UNCHANGED <<file, next, reported, app, saved, chatQueue>>
        /\ effect # "launch" /\ effect' # "launch"
    BY <1>0, <1>13 DEF Interrupt, LogoutEndsControl, CoordinatorFree, ChatType, stores, history
  <2> QED BY <1>s, <2>1, TurnKept
<1>14. CASE LogoutReadsChat \/ ReceiveChat
  <2>1. /\ app' = ChatReduced(app, Head(chatQueue)) /\ chatQueue # <<>>
        /\ chatQueue' = Tail(chatQueue)
        /\ UNCHANGED <<file, next, reported, chat, saved, effect>>
    BY <1>14 DEF LogoutReadsChat, ReceiveChat, stores, history
  <2>2. Head(chatQueue) \in ChatEventType /\ 1 \in DOMAIN chatQueue
        /\ Head(chatQueue) = chatQueue[1]
    BY <1>0, <2>1
  <2>3. ChatRunning => ~Finishes(Head(chatQueue), chat.turn)
    BY <2>2 DEF TurnInv, IdsAreFresh, HasTurn, ChatRunning
  <2>4. ChatRunning => app'.turn = app.turn
    <3> SUFFICES ASSUME ChatRunning PROVE app'.turn = app.turn
      OBVIOUS
    <3>1. app.turn = Streaming(chat.conversation, chat.turn)
      BY DEF TurnInv, NoOrphanTurn
    <3>2. ~(/\ Head(chatQueue).kind = "TurnFinished"
            /\ app.turn = Streaming(Head(chatQueue).conversation, Head(chatQueue).turn))
      BY <2>3, <3>1 DEF Finishes, Streaming
    <3> QED BY <1>0, <2>1, <2>2, <3>2, ChatReducedType
  <2> QED BY <1>s, <2>1, <2>4, TurnKept
<1>15. CASE ReceiveControl
  <2> DEFINE c == pending.conversation
  <2>1. PICK b \in AppType :
          /\ SameConversation(app, b) /\ b.turn = app.turn
          /\ \/ app' = b
             \/ /\ EndsPending(Head(controlQueue))
                /\ app' = ResumeHasFailed(b, c) \/ app' = AutomaticallyRestored(b, c)
    BY <1>15, ReceivesControl DEF ReducedBy
  <2>2. ChatRunning => app'.turn = app.turn
    <3> SUFFICES ASSUME ChatRunning PROVE app'.turn = app.turn
      OBVIOUS
    <3>1. app.turn.kind = "Streaming"
      BY <1>r
    <3>2. CASE app' = ResumeHasFailed(b, c)
      BY <2>1, <3>2 DEF ResumeHasFailed, AppType
    <3>3. CASE EndsPending(Head(controlQueue)) /\ app' = AutomaticallyRestored(b, c)
      <4>1. pending.op # None
        BY <1>15, <3>3, PendingIsSome
      <4>2. app.conversation.kind = "Ready"
        BY <3>1, <4>1 DEF ScreenInv, ActiveIsPointedTo
      <4>3. app' = b
        BY <2>1, <3>3, <4>2 DEF AutomaticallyRestored, SameConversation
      <4> QED BY <2>1, <4>3
    <3> QED BY <2>1, <3>2, <3>3
  <2>3. /\ effect # "launch" /\ effect' # "launch"
        /\ UNCHANGED <<file, next, reported, chat, saved, chatQueue>>
    BY <1>15 DEF ReceiveControl, CoordinatorFree, stores, history
  <2> QED BY <1>s, <2>2, <2>3, TurnKept
<1>16. CASE Persist
  <2>1. /\ effect # "launch" /\ effect' # "launch" /\ saved' \in {saved, Preferences(app)}
        /\ UNCHANGED <<file, next, reported, chat, app, chatQueue>>
    BY <1>16 DEF Persist, tasks, history
  <2>2. chat.pc = "streaming" =>
          saved'.provider = "OpenRouter" /\ saved'.pointer = chat.conversation
    <3> SUFFICES ASSUME chat.pc = "streaming"
                 PROVE  saved'.provider = "OpenRouter" /\ saved'.pointer = chat.conversation
      OBVIOUS
    <3>1. app.turn = Streaming(chat.conversation, chat.turn)
      BY DEF TurnInv, NoOrphanTurn, ChatRunning
    <3>2. app.provider = "OpenRouter" /\ app.pointer = chat.conversation
      BY <3>1 DEF ScreenInv, ActiveIsPointedTo, Streaming
    <3> QED BY <1>s, <2>1, <3>2 DEF Preferences
  <2> QED BY <2>1, <2>2, TurnKept
<1>17. CASE SendMessage \/ SendUnresolved \/ PickerSelectOther
            \/ (\E provider \in Providers : SwitchProvider(provider))
            \/ \E c \in Conversations : PickerSelect(c)
  <2>1. /\ effect # "launch" /\ effect' # "launch"
        /\ UNCHANGED <<file, next, reported, chat, saved, chatQueue>>
    BY <1>17 DEF SendMessage, SendUnresolved, PickerSelectOther, SwitchProvider, PickerSelect,
       Takes, IntentKeeps, CoordinatorFree, tasks, stores, history
  <2>2. app.turn.kind # "Streaming"
    <3>1. CASE SendMessage \/ \E provider \in Providers : SwitchProvider(provider)
      BY <3>1 DEF SendMessage, MaySend, SwitchProvider, TurnActive
    <3>2. CASE SendUnresolved
      BY <3>2 DEF SendUnresolved, ScreenInv, SendingHasRoom
    <3>3. CASE PickerSelectOther \/ \E c \in Conversations : PickerSelect(c)
      BY <3>3 DEF PickerSelectOther, PickerSelect, ScreenInv, ActiveIsPointedTo, TurnActive
    <3> QED BY <1>17, <3>1, <3>2, <3>3
  <2> QED BY <1>r, <1>s, <2>1, <2>2, TurnKept
<1>18. CASE SelectModel \/ Resume \/ PickerClose \/ AcceptCredential \/ RefreshOpenRouter
            \/ LogoutOpenRouter \/ LogoutDropsControl
  <2>1. /\ effect # "launch" /\ effect' # "launch" /\ app'.turn = app.turn
        /\ UNCHANGED <<file, next, reported, chat, saved, chatQueue>>
    BY <1>0, <1>18 DEF SelectModel, Resume, PickerClose, AcceptCredential, RefreshOpenRouter,
       LogoutOpenRouter, LogoutDropsControl, Takes, IntentKeeps, CoordinatorFree, AppType,
       tasks, stores, history
  <2> QED BY <1>s, <2>1, TurnKept
<1> QED
  BY <1>1, <1>2, <1>3, <1>4, <1>5, <1>6, <1>7, <1>8, <1>9, <1>10, <1>11, <1>12, <1>13,
     <1>14, <1>15, <1>16, <1>17, <1>18
     DEF Next, Intent, Execute, Chat

-----------------------------------------------------------------------------
(* The credential.                                                         *)

\* What happens beside the control task: it or its events may go, the operation that is
\* waited for may end, and nobody signs in.
LEMMA CredentialKept ==
  ASSUME TypeOK, CredentialInv, UNCHANGED <<nextOp, disk, signedOut>>,
         control' = control \/ control' = NoControl,
         \/ controlQueue' = controlQueue
         \/ controlQueue # <<>> /\ controlQueue' = Tail(controlQueue),
         app'.validation.op \in {app.validation.op, None},
         signedOut /\ app'.auth = "Valid" => app.auth = "Valid",
         effect' = "logoutChat" => effect = "logoutChat" \/ control' = NoControl
  PROVE  CredentialInv'
<1>1. controlQueue \in Seq(ControlEventType) /\ NoControl.pc = "none"
  BY DEF TypeOK, ServiceTypeOK, NoControl
<1>2. \A k \in DOMAIN controlQueue' : \E j \in DOMAIN controlQueue :
        controlQueue'[k] = controlQueue[j]
  <2>1. CASE controlQueue' = controlQueue
    BY <2>1
  <2>2. CASE controlQueue # <<>> /\ controlQueue' = Tail(controlQueue)
    <3>1. \A k \in DOMAIN controlQueue' : /\ k + 1 \in DOMAIN controlQueue
                                          /\ controlQueue'[k] = controlQueue[k + 1]
      BY <1>1, <2>2
    <3> QED BY <3>1
  <2> QED BY <2>1, <2>2
<1>3. OpsAreFresh'
  <2>1. app'.validation.op < nextOp'
    BY DEF CredentialInv, OpsAreFresh
  <2>2. \A k \in DOMAIN controlQueue' : controlQueue'[k].op # None /\ controlQueue'[k].op < nextOp'
    BY <1>2 DEF CredentialInv, OpsAreFresh
  <2>3. ControlRunning' => control'.op # None /\ control'.op < nextOp'
    BY <1>1 DEF CredentialInv, OpsAreFresh, ControlRunning
  <2>4. effect' = "logoutChat" => control'.pc = "none"
    BY <1>1 DEF CredentialInv, OpsAreFresh
  <2> QED BY <2>1, <2>2, <2>3, <2>4 DEF CredentialInv, OpsAreFresh
<1>4. NothingSignsIn'
  <2> SUFFICES ASSUME signedOut PROVE NothingSignsIn'
    BY DEF NothingSignsIn
  <2>1. control'.pc \in {"none", "validating", "done"} /\ (ControlRunning' => control'.kind = "refresh")
    BY <1>1 DEF CredentialInv, NothingSignsIn, ControlRunning
  <2>2. \A k \in DOMAIN controlQueue' :
          controlQueue'[k].op = app'.validation.op => controlQueue'[k].kind = "CatalogFailed"
    <3>1. \A j \in DOMAIN controlQueue : controlQueue[j].op # None
      BY DEF CredentialInv, OpsAreFresh
    <3> QED BY <1>2, <3>1 DEF CredentialInv, NothingSignsIn
  <2> QED BY <2>1, <2>2 DEF NothingSignsIn
<1>5. SignedOutStaysOut'
  BY DEF CredentialInv, SignedOutStaysOut
<1> QED BY <1>3, <1>4, <1>5 DEF CredentialInv

\* What the control task announces it does for its own operation; after a logout it can
\* only announce that it failed.
LEMMA AnnouncesKeeps ==
  ASSUME TypeOK, CredentialInv, NEW e \in ControlEventType, NEW pc, Announces(e, pc),
         ControlRunning, e.op = control.op, disk' = disk,
         signedOut => e.kind = "CatalogFailed" /\ pc = "done"
  PROVE  CredentialInv'
<1>1. /\ controlQueue' = Append(controlQueue, e) /\ controlQueue \in Seq(ControlEventType)
      /\ control' = (IF pc = "done" THEN [NoControl EXCEPT !.pc = pc]
                     ELSE [control EXCEPT !.pc = pc])
      /\ control \in ControlType
      /\ UNCHANGED <<nextOp, app, effect, disk, signedOut>>
  BY DEF Announces, CoordinatorKeeps, TypeOK, ServiceTypeOK
<1>2. \A k \in DOMAIN controlQueue' :
        \/ controlQueue'[k] = e
        \/ k \in DOMAIN controlQueue /\ controlQueue'[k] = controlQueue[k]
  BY <1>1
<1>3. IF pc = "done" THEN control'.pc = "done"
      ELSE control'.pc = pc /\ control'.op = control.op /\ control'.kind = control.kind
  BY <1>1 DEF ControlType, NoControl
<1>4. control.op # None /\ control.op < nextOp /\ effect # "logoutChat"
  BY DEF CredentialInv, OpsAreFresh, ControlRunning
<1>5. OpsAreFresh'
  <2>1. \A k \in DOMAIN controlQueue' : controlQueue'[k].op # None /\ controlQueue'[k].op < nextOp'
    BY <1>1, <1>2, <1>4 DEF CredentialInv, OpsAreFresh
  <2>2. ControlRunning' => control'.op # None /\ control'.op < nextOp'
    BY <1>1, <1>3, <1>4 DEF ControlRunning
  <2> QED BY <1>1, <1>4, <2>1, <2>2 DEF CredentialInv, OpsAreFresh
<1>6. NothingSignsIn'
  BY <1>1, <1>2, <1>3 DEF CredentialInv, NothingSignsIn, ControlRunning
<1>7. SignedOutStaysOut'
  BY <1>1 DEF CredentialInv, SignedOutStaysOut
<1> QED BY <1>5, <1>6, <1>7 DEF CredentialInv

\* The control task signs nobody in once the key is gone.
LEMMA ControlStep ==
  ASSUME TypeOK, CredentialInv, Control
  PROVE  CredentialInv'
<1>0. control \in ControlType /\ disk \in [key : BOOLEAN, catalog : BOOLEAN]
  BY DEF TypeOK, ServiceTypeOK, StoreTypeOK
<1>k. signedOut => "found" \notin KeyLoads
  BY DEF CredentialInv, SignedOutStaysOut, KeyLoads
<1>c. ControlRunning => control.op # None /\ control.op < nextOp /\ effect # "logoutChat"
  BY DEF CredentialInv, OpsAreFresh, ControlRunning
<1>n. signedOut =>
        /\ control.pc \in {"none", "validating", "done"}
        /\ ControlRunning => control.kind = "refresh"
  BY DEF CredentialInv, NothingSignsIn
<1>1. CASE ControlReplacesKey \/ ControlSavesCatalog
  <2>1. /\ UNCHANGED <<app, effect, controlQueue, nextOp, signedOut>> /\ ControlRunning
        /\ control'.op = control.op
    BY <1>0, <1>1 DEF ControlReplacesKey, ControlSavesCatalog, CoordinatorKeeps, ControlRunning,
       ControlType
  <2>2. ~signedOut
    BY <1>1, <1>k, <1>n, <2>1 DEF ControlReplacesKey, ControlSavesCatalog
  <2>3. OpsAreFresh'
    BY <1>c, <2>1 DEF CredentialInv, OpsAreFresh, ControlRunning
  <2> QED BY <2>1, <2>2, <2>3 DEF CredentialInv, NothingSignsIn, SignedOutStaysOut
<1>2. CASE ControlRejectsCandidate
  <2>1. /\ LoginFailed \in ControlEventType /\ LoginFailed.op = control.op
        /\ ControlRunning /\ disk' = disk /\ Announces(LoginFailed, "done")
    BY <1>0, <1>2 DEF ControlRejectsCandidate, LoginFailed, ControlEventType, ControlType,
       ControlRunning
  <2>2. ~signedOut
    BY <1>2, <1>n, <2>1 DEF ControlRejectsCandidate
  <2> QED BY <2>1, <2>2, AnnouncesKeeps
<1>3. CASE ControlAcceptsKey
  <2>1. /\ AuthValidated \in ControlEventType /\ AuthValidated.op = control.op
        /\ ControlRunning /\ disk' = disk /\ Announces(AuthValidated, "fetching")
    BY <1>0, <1>3 DEF ControlAcceptsKey, AuthValidated, ControlEventType, ControlType,
       ControlRunning
  <2>2. ~signedOut
    BY <1>3, <1>k, <1>n, <2>1 DEF ControlAcceptsKey
  <2> QED BY <2>1, <2>2, AnnouncesKeeps
<1>4. ASSUME NEW category \in {"Unauthorized", "Other", "MissingCredential", "CredentialStore"},
             ControlRunning, disk' = disk, Announces(CatalogFailed(category), "done")
      PROVE  CredentialInv'
  <2>1. /\ CatalogFailed(category) \in ControlEventType
        /\ CatalogFailed(category).op = control.op
        /\ CatalogFailed(category).kind = "CatalogFailed"
    BY <1>0 DEF CatalogFailed, ControlEventType, ControlType
  <2> QED BY <1>4, <2>1, AnnouncesKeeps
<1>5. CASE ControlFails
  <2>1. PICK category \in (KeyLoads \ {"found"})
                            \cup (IF "found" \in KeyLoads THEN Rejections ELSE {}) :
          Announces(CatalogFailed(category), "done")
    BY <1>5 DEF ControlFails
  <2>2. category \in {"Unauthorized", "Other", "MissingCredential", "CredentialStore"}
    BY <2>1, KeyLoadsType DEF KeyResults, Rejections
  <2>3. ControlRunning /\ disk' = disk
    BY <1>5 DEF ControlFails, ControlRunning
  <2> QED BY <1>4, <2>1, <2>2, <2>3
<1>6. CASE ControlFinishes
  <2>1. ControlRunning /\ disk' = disk /\ ~signedOut
    BY <1>6, <1>n DEF ControlFinishes, ControlRunning
  <2> DEFINE e == [kind |-> IF control.kind = "login" THEN "LoginSucceeded" ELSE "CatalogLoaded",
                   op |-> control.op, catalog |-> disk.catalog]
  <2>2. Announces(e, "done") \/ Announces(CatalogFailed("CredentialStore"), "done")
    BY <1>6 DEF ControlFinishes
  <2>3. e \in [kind : {"LoginSucceeded", "CatalogLoaded"}, op : Nat, catalog : BOOLEAN]
        /\ e.op = control.op
    BY <1>0 DEF ControlType
  <2>4. e \in ControlEventType
    BY <2>3 DEF ControlEventType
  <2> HIDE DEF e
  <2> QED BY <1>4, <2>1, <2>2, <2>3, <2>4, AnnouncesKeeps
<1> QED BY <1>1, <1>2, <1>3, <1>5, <1>6 DEF Control

\* No step signs in again after a logout.
LEMMA CredentialStep ==
  ASSUME TypeOK, CredentialInv, Next
  PROVE  CredentialInv'
<1>0. /\ app \in AppType /\ nextOp \in Nat /\ control \in ControlType
      /\ controlQueue \in Seq(ControlEventType) /\ chatQueue \in Seq(ChatEventType)
      /\ disk \in [key : BOOLEAN, catalog : BOOLEAN]
  BY DEF TypeOK, AppTypeOK, ServiceTypeOK, StoreTypeOK
<1>i. Idle.op = None
  BY DEF Idle
<1>1. CASE Control
  BY <1>1, ControlStep
<1>2. CASE AcceptCredential \/ RefreshOpenRouter
  <2>1. /\ effect # "logoutChat" /\ effect' = effect /\ nextOp' = nextOp + 1
        /\ controlQueue' = controlQueue /\ disk' = disk
        /\ app'.validation.op = nextOp /\ app'.auth = app.auth
        /\ control'.op = nextOp /\ control'.pc = "validating"
    <3>1. CASE AcceptCredential
      <4>1. Validating(nextOp, FALSE).op = nextOp
        BY DEF Validating
      <4> QED BY <1>0, <3>1, <4>1 DEF AcceptCredential, CoordinatorFree, ControlTask, AppType, stores
    <3>2. CASE RefreshOpenRouter
      <4>1. Refreshing(nextOp).op = nextOp
        BY DEF Refreshing
      <4> QED BY <1>0, <3>2, <4>1 DEF RefreshOpenRouter, CoordinatorFree, ControlTask, AppType, stores
    <3> QED BY <1>2, <3>1, <3>2
  <2>2. AcceptCredential => ~signedOut'
    BY DEF AcceptCredential
  <2>3. RefreshOpenRouter => signedOut' = signedOut /\ control'.kind = "refresh"
    BY DEF RefreshOpenRouter, history, ControlTask
  <2>4. /\ nextOp > None /\ nextOp # None /\ nextOp < nextOp' /\ nextOp' > None
    BY <1>0, <2>1 DEF CredentialInv, OpsAreFresh, None
  <2>5. \A k \in DOMAIN controlQueue : /\ controlQueue[k].op # None /\ controlQueue[k].op # nextOp
                                       /\ controlQueue[k].op < nextOp'
    <3> TAKE k \in DOMAIN controlQueue
    <3>1. controlQueue[k].op # None /\ controlQueue[k].op < nextOp
      BY DEF CredentialInv, OpsAreFresh
    <3>2. controlQueue[k] \in ControlEventType
      BY <1>0
    <3>3. controlQueue[k].op \in Nat
      BY <3>2 DEF ControlEventType
    <3> QED BY <1>0, <2>1, <3>1, <3>3
  <2>6. OpsAreFresh'
    BY <2>1, <2>4, <2>5 DEF OpsAreFresh, ControlRunning
  <2>7. NothingSignsIn'
    BY <1>2, <2>1, <2>2, <2>3, <2>5 DEF NothingSignsIn
  <2>8. SignedOutStaysOut'
    BY <1>2, <2>1, <2>2, <2>3 DEF CredentialInv, SignedOutStaysOut
  <2> QED BY <2>6, <2>7, <2>8 DEF CredentialInv
<1>3. CASE LogoutEnds
  <2> DEFINE settled == [app EXCEPT !.turn = IF @.kind = "Streaming" THEN TurnIs("Idle") ELSE @]
  <2>1. settled \in AppType
    BY <1>0 DEF AppType, TurnIs, SomeConversation, SomeTurn
  <2>2. /\ UNCHANGED <<control, controlQueue, nextOp>> /\ effect' = "none"
        /\ effect = "logoutChat"
        /\ \/ ~disk'.key /\ app' = AuthChanged(settled, "Missing")
           \/ /\ app' = AuthChanged(settled, "CredentialUnavailable")
              /\ signedOut' = signedOut /\ (~disk.key => ~disk'.key)
    BY <1>0, <1>3 DEF LogoutEnds
  <2> HIDE DEF settled
  <2>3. app'.auth # "Valid" /\ app'.validation = Idle
    BY <2>1, <2>2, AuthChangedType DEF Auths
  <2>4. control.pc = "none" /\ \A k \in DOMAIN controlQueue : controlQueue[k].op # None
    BY <2>2 DEF CredentialInv, OpsAreFresh
  <2>5. OpsAreFresh'
    BY <1>0, <1>i, <2>2, <2>3, <2>4 DEF CredentialInv, OpsAreFresh, ControlRunning, None
  <2>6. NothingSignsIn'
    BY <1>i, <2>2, <2>3, <2>4 DEF NothingSignsIn, ControlRunning
  <2>7. SignedOutStaysOut'
    BY <2>2, <2>3 DEF CredentialInv, SignedOutStaysOut
  <2> QED BY <2>5, <2>6, <2>7 DEF CredentialInv
<1>4. CASE Quit \/ Crash
  <2>1. /\ Restarts /\ saved' \in PreferencesType /\ disk' = disk /\ signedOut' = signedOut
        /\ controlQueue' = <<>> /\ effect' = "none"
    <3>1. saved \in PreferencesType /\ Preferences(app) \in PreferencesType
      BY <1>0 DEF TypeOK, AppTypeOK, AppType, Preferences, PreferencesType
    <3>2. saved' = saved \/ saved' = Preferences(app)
      BY <1>4 DEF Quit, Crash
    <3> QED BY <1>4, <3>1, <3>2 DEF Quit, Crash, Restarts
  <2>2. /\ app'.auth # "Valid" /\ app'.validation.op < nextOp' /\ nextOp' > None
        /\ control'.op < nextOp' /\ control'.kind = "refresh"
        /\ control'.pc \in {"none", "validating"}
        /\ control'.pc = "validating" => control'.op # None
    BY <1>0, <2>1, RestartShowsNothing
  <2> QED BY <2>1, <2>2 DEF CredentialInv, OpsAreFresh, NothingSignsIn, SignedOutStaysOut,
             ControlRunning
<1>5. CASE ReceiveControl
  <2>1. PICK b \in AppType :
          /\ ReducedBy(b, Head(controlQueue))
          /\ \/ app' = b \/ app' = ResumeHasFailed(b, pending.conversation)
             \/ app' = AutomaticallyRestored(b, pending.conversation)
    BY <1>5, ReceivesControl
  <2>2. app'.validation = b.validation /\ app'.auth = b.auth
    BY <2>1 DEF ResumeHasFailed, AutomaticallyRestored, Restored, AppType
  <2>3. /\ controlQueue # <<>> /\ controlQueue' = Tail(controlQueue) /\ effect' # "logoutChat"
        /\ UNCHANGED <<nextOp, disk, signedOut, control>>
    BY <1>5 DEF ReceiveControl, stores, history
  <2>4. Head(controlQueue) = controlQueue[1] /\ 1 \in DOMAIN controlQueue
    BY <1>0, <2>3
  <2>5. signedOut /\ app'.auth = "Valid" => app.auth = "Valid"
    BY <2>1, <2>2, <2>4 DEF ReducedBy, CredentialInv, NothingSignsIn
  <2>6. app'.validation.op \in {app.validation.op, None}
    BY <2>1, <2>2 DEF ReducedBy
  <2> QED BY <2>3, <2>5, <2>6, CredentialKept
<1>6. CASE LogoutReadsChat \/ ReceiveChat
  <2>1. /\ Head(chatQueue) \in ChatEventType /\ app' = ChatReduced(app, Head(chatQueue))
        /\ UNCHANGED <<nextOp, disk, signedOut, control, controlQueue, effect>>
    BY <1>6 DEF LogoutReadsChat, ReceiveChat, TypeOK, ServiceTypeOK, stores, history
  <2>2. app'.validation \in {app.validation, Idle} /\ (app'.auth = "Valid" => app.auth = "Valid")
    BY <1>0, <2>1, ChatReducedType
  <2> QED BY <1>i, <2>1, <2>2, CredentialKept
<1>7. CASE SendPrepares \/ SendRefused \/ SendAbandons \/ SendLaunches \/ NewThread
  <2>1. TurnFails(app).validation = app.validation /\ TurnFails(app).auth = app.auth
    BY <1>0 DEF TurnFails, AppType
  <2>2. /\ app'.validation = app.validation /\ app'.auth = app.auth
        /\ UNCHANGED <<nextOp, disk, signedOut, control, controlQueue>> /\ effect' # "logoutChat"
    <3>1. CASE SendPrepares \/ SendRefused \/ SendAbandons
      BY <2>1, <3>1 DEF SendPrepares, SendRefused, SendAbandons, stores, history
    <3>2. CASE SendLaunches \/ NewThread
      BY <1>0, <3>2 DEF SendLaunches, NewThread, CoordinatorFree, AppType, tasks, stores, history
    <3> QED BY <1>7, <3>1, <3>2
  <2> QED BY <2>2, CredentialKept
<1>8. CASE Chat
  <2>1. UNCHANGED <<app, effect, nextOp, disk, signedOut, control, controlQueue>>
    BY <1>8 DEF Chat, ChatDelta, ChatSaves, ChatReports, CoordinatorKeeps
  <2> QED BY <2>1, CredentialKept
<1>9. CASE LogoutDropsControl \/ LogoutEndsControl
  <2>1. /\ UNCHANGED <<app, nextOp, disk, signedOut>>
        /\ control' = control \/ control' = NoControl
        /\ \/ controlQueue' = controlQueue
           \/ controlQueue # <<>> /\ controlQueue' = Tail(controlQueue)
        /\ effect' = "logoutChat" => effect = "logoutChat" \/ control' = NoControl
    BY <1>9 DEF LogoutDropsControl, LogoutEndsControl, MayDropControl, stores, history
  <2> QED BY <2>1, CredentialKept
<1>10. CASE \/ SendMessage \/ SendUnresolved \/ Interrupt \/ SelectModel \/ Resume \/ PickerClose
            \/ PickerSelectOther \/ LogoutOpenRouter \/ Persist
            \/ (\E provider \in Providers : SwitchProvider(provider))
            \/ \E c \in Conversations : PickerSelect(c) \/ PickerDelete(c)
  <2>1. /\ app'.validation = app.validation /\ app'.auth = app.auth
        /\ UNCHANGED <<nextOp, disk, signedOut, control, controlQueue>>
        /\ effect' = "logoutChat" => effect = "logoutChat"
    <3>1. CASE SendMessage
      BY <1>0, <3>1 DEF SendMessage, IntentKeeps, AppType, tasks, stores, history
    <3>6. CASE SelectModel \/ Resume \/ PickerClose
      BY <1>0, <3>6 DEF SelectModel, Resume, PickerClose, Takes, IntentKeeps, AppType, tasks,
         stores, history
    <3>7. CASE PickerSelectOther
      BY <1>0, <3>7 DEF PickerSelectOther, Takes, IntentKeeps, AppType, tasks, stores, history
    <3>2. CASE LogoutOpenRouter \/ Persist \/ SendUnresolved \/ Interrupt
      BY <3>2 DEF LogoutOpenRouter, Persist, SendUnresolved, Interrupt, Takes, IntentKeeps,
         tasks, stores, history
    <3>3. CASE \E provider \in Providers : SwitchProvider(provider)
      BY <1>0, <3>3 DEF SwitchProvider, Takes, IntentKeeps, AppType, tasks, stores, history
    <3>4. CASE \E c \in Conversations : PickerSelect(c)
      BY <1>0, <3>4 DEF PickerSelect, Takes, Restored, IntentKeeps, AppType, tasks, stores, history
    <3>5. CASE \E c \in Conversations : PickerDelete(c)
      BY <3>5 DEF PickerDelete, tasks, history
    <3> QED BY <1>10, <3>1, <3>2, <3>3, <3>4, <3>5, <3>6, <3>7
  <2> QED BY <2>1, CredentialKept
<1> QED BY <1>1, <1>2, <1>3, <1>4, <1>5, <1>6, <1>7, <1>8, <1>9, <1>10
        DEF Next, Intent, Execute

-----------------------------------------------------------------------------
(* The invariant and the theorems.                                         *)

Inv == TypeOK /\ ScreenInv /\ TurnInv /\ CredentialInv

\* A first start shows nothing, runs no turn and signs nobody in.
LEMMA InitInv ==
  Init => Inv
<1> SUFFICES ASSUME Init PROVE Inv
  OBVIOUS
<1>1. PICK c \in {None} \cup ({1} \cap Conversations), key \in BOOLEAN :
        /\ saved = [provider |-> "OpenRouter", pointer |-> c, model |-> TRUE]
        /\ disk = [key |-> key, catalog |-> TRUE]
        /\ file = [d \in Conversations |-> IF d = c THEN FileOf(NoTurns) ELSE NoFile]
        /\ next = [conversation |-> c + 1, turn |-> 1]
        /\ \E found \in KeyLoads :
             LET start == Start(saved, found, TRUE)
             IN /\ app = start.app /\ control = start.control
                /\ nextOp = start.nextOp /\ pending = start.pending
  BY DEF Init
<1>2. /\ effect = "none" /\ deaf = FALSE
      /\ chat = NoChat /\ chatQueue = <<>> /\ controlQueue = <<>>
      /\ reported = {} /\ signedOut = FALSE
  BY DEF Init
<1>3. saved \in PreferencesType /\ c \in SomeConversation /\ c \in Nat
  BY <1>1 DEF PreferencesType, Providers, SomeConversation, None
<1>4. PICK found \in KeyLoads :
        LET start == Start(saved, found, TRUE)
        IN /\ app = start.app /\ control = start.control
           /\ nextOp = start.nextOp /\ pending = start.pending
  BY <1>1
<1>5. found \in KeyResults
  BY KeyLoadsType
<1>6. /\ app \in AppType /\ control \in ControlType /\ nextOp \in Nat
      /\ pending \in PendingType
      /\ app.conversation.kind # "Ready" /\ app.turn.kind = "Idle"
      /\ app.auth # "Valid" /\ app.validation.op < nextOp /\ nextOp > None
      /\ control.op < nextOp /\ control.kind = "refresh"
      /\ control.pc \in {"none", "validating"}
      /\ control.pc = "validating" => control.op # None
      /\ pending.op # None => pending.conversation # None
  BY <1>3, <1>4, <1>5, StartType
<1>7. AppTypeOK
  BY <1>2, <1>3, <1>6 DEF AppTypeOK, PendingType, PreferencesType, Effects
<1>8. ServiceTypeOK
  <2>1. NoChat \in ChatType
    BY DEF NoChat, ChatType, NoTurns, TurnsType, TurnStates, SomeConversation, SomeTurn
  <2> QED BY <1>2, <1>6, <2>1 DEF ServiceTypeOK
<1>9. StoreTypeOK
  <2>1. NoTurns \in TurnsType
    BY DEF NoTurns, TurnsType, TurnStates
  <2>2. file \in [Conversations -> [there : BOOLEAN, turns : TurnsType]]
    BY <1>1, <2>1 DEF FileOf, NoFile
  <2>3. disk \in [key : BOOLEAN, catalog : BOOLEAN]
    BY <1>1
  <2>4. next \in [conversation : Nat, turn : Nat]
    BY <1>1, <1>3
  <2>5. reported \subseteq Conversations \X Turns /\ signedOut \in BOOLEAN
    BY <1>2
  <2> QED BY <2>2, <2>3, <2>4, <2>5 DEF StoreTypeOK
<1>10. ScreenInv
  BY <1>2, <1>6 DEF ScreenInv, ReadyIsPointedTo, ActiveIsPointedTo, SendingHasRoom, TurnActive
<1>11. TurnInv
  <2>1. chat.pc = "none" /\ ~HasTurn
    BY <1>2 DEF NoChat, HasTurn
  <2>2. \A d \in Conversations : file[d].there => d < next.conversation
    BY <1>1, <1>3 DEF NoFile
  <2> QED BY <1>2, <2>1, <2>2 DEF TurnInv, IdsAreFresh, CopyIsWhole, DoneIsKept, NoOrphanTurn,
             ChatRunning, SentIsRecorded
<1>12. CredentialInv
  BY <1>2, <1>6 DEF CredentialInv, OpsAreFresh, NothingSignsIn, SignedOutStaysOut, ControlRunning
<1> QED BY <1>7, <1>8, <1>9, <1>10, <1>11, <1>12 DEF Inv, TypeOK

\* Every step keeps the invariant.
LEMMA NextInv ==
  ASSUME Inv, [Next]_vars
  PROVE  Inv'
<1>1. CASE Next
  <2>1. TypeOK /\ ScreenInv /\ TurnInv /\ CredentialInv /\ IdsAreFresh /\ CopyIsWhole /\ OpsAreFresh
    BY DEF Inv, TurnInv, CredentialInv
  <2>2. HasTurn => chat.conversation \in Conversations /\ chat.turn \in Turns
    BY <2>1 DEF IdsAreFresh
  <2>3. effect = "launch" => HasTurn
    BY <2>1 DEF CopyIsWhole, HasTurn
  <2>4. TypeOK'
    BY <1>1, <2>1, <2>2, <2>3, AppTypeStep, ServiceTypeStep, StoreTypeStep DEF TypeOK
  <2>5. ScreenInv'
    BY <1>1, <2>1, ReadyStep, ActiveStep, SendingStep DEF ScreenInv
  <2>6. TurnInv'
    BY <1>1, <2>1, TurnStep
  <2>7. CredentialInv'
    BY <1>1, <2>1, CredentialStep
  <2> QED BY <2>4, <2>5, <2>6, <2>7 DEF Inv
<1>2. CASE UNCHANGED vars
  <2> USE <1>2 DEF vars, tasks, stores, history
  <2>1. TypeOK'
    BY DEF Inv, TypeOK, AppTypeOK, ServiceTypeOK, StoreTypeOK
  <2>2. ScreenInv'
    BY DEF Inv, ScreenInv, ReadyIsPointedTo, ActiveIsPointedTo, SendingHasRoom
  <2>3. TurnInv'
    BY DEF Inv, TurnInv, IdsAreFresh, HasTurn, CopyIsWhole, DoneIsKept, NoOrphanTurn,
       ChatRunning, SentIsRecorded
  <2>4. CredentialInv'
    BY DEF Inv, CredentialInv, OpsAreFresh, NothingSignsIn, SignedOutStaysOut, ControlRunning
  <2> QED BY <2>1, <2>2, <2>3, <2>4 DEF Inv
<1> QED BY <1>1, <1>2

\* The invariant holds in every behaviour, however many conversations, turns, operations
\* and restarts there are, whatever the queues' capacity and whatever may fail.
THEOREM Invariance == Spec => []Inv
<1>1. Inv /\ [Next]_vars => Inv'
  BY NextInv
<1> QED BY InitInv, <1>1, PTL DEF Spec

\* A turn announced as completed stays completed in its conversation's file, for as long as
\* the file is there (launch_prepared_turn, prepare_turn, rebuild_index).
THEOREM CompletedTurnsAreKept == Spec => []DoneIsKept
<1>1. Inv => DoneIsKept
  BY DEF Inv, TurnInv
<1> QED BY Invariance, <1>1, PTL

\* After a logout nothing that was in flight or still queued brings the key back or counts
\* as signed in (logout, reduce_openrouter_service_event).
THEOREM LogoutIsFinal == Spec => []SignedOutStaysOut
<1>1. Inv => SignedOutStaysOut
  BY DEF Inv, CredentialInv
<1> QED BY Invariance, <1>1, PTL

\* The conversation on the screen is not deleted under it (active_saved_thread_id).
THEOREM ShownConversationIsKept == Spec => []ConversationIsKept
<1>1. Inv => ConversationIsKept
  BY DEF Inv, ScreenInv, ReadyIsPointedTo, ConversationIsKept
<1> QED BY Invariance, <1>1, PTL

\* A turn the service is running is the one the reducer waits for
\* (OpenRouterConversationRestored, send_openrouter_message_effect, prepare_turn).
THEOREM NoTurnIsOrphaned == Spec => []NoOrphanTurn
<1>1. Inv => NoOrphanTurn
  BY DEF Inv, TurnInv
<1> QED BY Invariance, <1>1, PTL

\* A message is on its way to the provider only when a restart would find it again
\* (prepare_turn, send_openrouter_message_effect).
THEOREM SendIsRecordedFirst == Spec => []SentIsRecorded
<1>1. Inv => SentIsRecorded
  BY DEF Inv, TurnInv
<1> QED BY Invariance, <1>1, PTL

-----------------------------------------------------------------------------
(* What is under way has an end in sight.                                  *)

\* The event that ends the turn on the screen, and the one that ends its operation.
EndsTurn(a, e) == e.kind = "TurnFinished" /\ a.turn = Streaming(e.conversation, e.turn)

EndsOperation(a, e) ==
  /\ e.op = a.validation.op
  /\ \/ e.kind = "CatalogFailed"
     \/ e.kind \in {"LoginSucceeded", "LoginFailed"} /\ a.validation.kind = "Validating"
     \/ e.kind = "CatalogLoaded" /\ a.validation.kind = "Refreshing"

\* An active turn has its task or its TurnFinished.
TurnIsEnding ==
  app.turn.kind = "Streaming" =>
    ChatRunning \/ \E k \in DOMAIN chatQueue : EndsTurn(app, chatQueue[k])

\* An operation that is waited for has its task or its last event, or is being ended.
OperationIsEnding ==
  app.validation.kind # "Idle" =>
    \/ ControlRunning /\ control.op = app.validation.op
    \/ \E k \in DOMAIN controlQueue : EndsOperation(app, controlQueue[k])
    \/ effect \in {"logoutControl", "logoutChat"}

\* The task is of the kind the reducer waits for, so that its last event counts.
TaskIsAwaited ==
  ControlRunning =>
    /\ control.pc = "rejecting" => control.kind = "login"
    /\ control.op = app.validation.op =>
         /\ control.kind = "login" => app.validation.kind \in {"Validating", "Idle"}
         /\ control.kind = "refresh" => app.validation.kind \in {"Refreshing", "Idle"}

EndInv == TurnIsEnding /\ OperationIsEnding /\ TaskIsAwaited

\* A chat event ends the turn just when it is its TurnFinished.
LEMMA TurnEnds ==
  ASSUME NEW a \in AppType, NEW e \in ChatEventType, a.turn.kind = "Streaming"
  PROVE  /\ (ChatReduced(a, e).turn.kind = "Idle") <=> EndsTurn(a, e)
         /\ ~EndsTurn(a, e) => ChatReduced(a, e).turn = a.turn
<1>1. TurnIs("Idle").kind = "Idle"
  BY DEF TurnIs
<1> QED BY <1>1, ChatReducedType DEF EndsTurn

\* A control event ends the operation that is waited for, or leaves it.
LEMMA OperationEnds ==
  ASSUME NEW a \in AppType, NEW e \in ControlEventType, a.validation.kind # "Idle"
  PROVE  LET b == ControlReduced(a, e)
         IN /\ (b.validation.kind = "Idle") <=> EndsOperation(a, e)
            /\ ~EndsOperation(a, e) =>
                 b.validation.kind = a.validation.kind /\ b.validation.op = a.validation.op
<1> DEFINE b == ControlReduced(a, e)
<1>0. Idle.kind = "Idle" /\ a.validation.kind \in {"Refreshing", "Validating"}
  BY DEF Idle, AppType
<1>1. CASE e.kind = "AuthValidated" /\ Matches(a, "Refreshing", e.op)
  <2>1. b = AuthChanged(a, "Valid")
    BY <1>1 DEF ControlReduced, Matches
  <2> QED BY <1>1, <2>1, AuthChangedType DEF Auths, EndsOperation
<1>2. CASE e.kind = "AuthValidated" /\ Matches(a, "Validating", e.op)
  <2> DEFINE c == [a EXCEPT !.validation.saved = TRUE]
  <2>1. b = AuthChanged(c, "Valid")
    BY <1>2 DEF ControlReduced, Matches
  <2>2. c \in AppType /\ c.validation.op = a.validation.op
        /\ c.validation.kind = a.validation.kind
    BY DEF AppType
  <2> HIDE DEF c
  <2> QED BY <1>2, <2>1, <2>2, AuthChangedType DEF Auths, EndsOperation
<1>3. CASE \/ e.kind = "LoginSucceeded" /\ Matches(a, "Validating", e.op)
           \/ e.kind = "CatalogLoaded" /\ Matches(a, "Refreshing", e.op)
  <2>1. b = CatalogLoaded(a, e.catalog)
    BY <1>3 DEF ControlReduced, Matches
  <2>2. e.catalog \in BOOLEAN
    BY <1>3 DEF ControlEventType
  <2> QED BY <1>0, <1>3, <2>1, <2>2, CatalogLoadedType DEF Matches, EndsOperation
<1>4. CASE e.kind = "LoginFailed" /\ Matches(a, "Validating", e.op)
  <2>1. b = [a EXCEPT !.validation = Idle]
    BY <1>4 DEF ControlReduced, Matches
  <2>2. b.validation = Idle
    BY <2>1 DEF AppType
  <2> QED BY <1>0, <1>4, <2>2 DEF Matches, EndsOperation
<1>5. CASE e.kind = "CatalogFailed" /\ FailureCounts(a, e)
  <2>1. b = OperationFailed(a, e.category)
    BY <1>5 DEF ControlReduced, Matches
  <2>2. e.category \in {"Unauthorized", "Other", "MissingCredential", "CredentialStore"}
    BY <1>5 DEF ControlEventType
  <2> QED BY <1>0, <1>5, <2>1, <2>2, OperationFailedType DEF FailureCounts, EndsOperation
<1>6. CASE /\ ~(e.kind = "AuthValidated" /\ Matches(a, "Refreshing", e.op))
           /\ ~(e.kind = "AuthValidated" /\ Matches(a, "Validating", e.op))
           /\ ~\/ e.kind = "LoginSucceeded" /\ Matches(a, "Validating", e.op)
               \/ e.kind = "CatalogLoaded" /\ Matches(a, "Refreshing", e.op)
           /\ ~(e.kind = "LoginFailed" /\ Matches(a, "Validating", e.op))
           /\ ~(e.kind = "CatalogFailed" /\ FailureCounts(a, e))
  <2>1. b = a
    BY <1>6 DEF ControlReduced
  <2>2. ~EndsOperation(a, e)
    BY <1>6 DEF EndsOperation, Matches, FailureCounts
  <2> QED BY <2>1, <2>2
<1> QED BY <1>1, <1>2, <1>3, <1>4, <1>5, <1>6

\* So what is ending is what the property calls an end in sight.
LEMMA EndingIsInSight ==
  ASSUME TypeOK, EndInv
  PROVE  EndsAreInSight
<1>1. app \in AppType /\ chatQueue \in Seq(ChatEventType) /\ controlQueue \in Seq(ControlEventType)
  BY DEF TypeOK, AppTypeOK, ServiceTypeOK
<1>2. /\ DOMAIN chatQueue = 1 .. Len(chatQueue) /\ DOMAIN controlQueue = 1 .. Len(controlQueue)
      /\ \A k \in DOMAIN chatQueue : chatQueue[k] \in ChatEventType
      /\ \A k \in DOMAIN controlQueue : controlQueue[k] \in ControlEventType
  BY <1>1
<1>3. ASSUME app.turn.kind = "Streaming", ~ChatRunning
      PROVE  \E i \in 1..Len(chatQueue) : ChatReduced(app, chatQueue[i]).turn.kind = "Idle"
  <2>1. PICK k \in DOMAIN chatQueue : EndsTurn(app, chatQueue[k])
    BY <1>3 DEF EndInv, TurnIsEnding
  <2>2. ChatReduced(app, chatQueue[k]).turn.kind = "Idle"
    BY <1>1, <1>2, <1>3, <2>1, TurnEnds
  <2> QED BY <1>2, <2>2
<1>4. ASSUME NEW k \in DOMAIN controlQueue, EndsOperation(app, controlQueue[k]),
             app.validation.kind # "Idle"
      PROVE  \E i \in 1..Len(controlQueue) :
               ControlReduced(app, controlQueue[i]).validation.kind = "Idle"
  <2>1. ControlReduced(app, controlQueue[k]).validation.kind = "Idle"
    BY <1>1, <1>2, <1>4, OperationEnds
  <2> QED BY <1>2, <2>1
<1> QED BY <1>3, <1>4 DEF EndInv, OperationIsEnding, EndsAreInSight

\* A turn's end that is coming still comes.
LEMMA TurnEndStays ==
  ASSUME TypeOK, TurnIsEnding,
         app'.turn = app.turn \/ app'.turn.kind # "Streaming",
         ChatRunning => ChatRunning',
         chatQueue' = chatQueue \/ \E e : chatQueue' = Append(chatQueue, e)
  PROVE  TurnIsEnding'
<1>1. chatQueue \in Seq(ChatEventType)
  BY DEF TypeOK, ServiceTypeOK
<1>2. \A k \in DOMAIN chatQueue : k \in DOMAIN chatQueue' /\ chatQueue'[k] = chatQueue[k]
  BY <1>1
<1> QED BY <1>2 DEF TurnIsEnding, EndsTurn

\* What is received of the chat ends the turn, or its end is still queued.
LEMMA TurnEndReceived ==
  ASSUME TypeOK, TurnIsEnding, chatQueue # <<>>, chatQueue' = Tail(chatQueue), chat' = chat,
         app' = ChatReduced(app, Head(chatQueue))
  PROVE  TurnIsEnding'
<1> SUFFICES ASSUME app'.turn.kind = "Streaming", ~ChatRunning
             PROVE  \E k \in DOMAIN chatQueue' : EndsTurn(app', chatQueue'[k])
  BY DEF TurnIsEnding, ChatRunning
<1>1. chatQueue \in Seq(ChatEventType) /\ app \in AppType
  BY DEF TypeOK, ServiceTypeOK, AppTypeOK
<1>2. Head(chatQueue) = chatQueue[1] /\ Head(chatQueue) \in ChatEventType
  BY <1>1
<1>3. app.turn.kind = "Streaming"
  <2>1. TurnIs("Idle").kind = "Idle"
    BY DEF TurnIs
  <2>2. app'.turn = TurnIs("Idle") \/ app'.turn = app.turn
    BY <1>1, <1>2, ChatReducedType
  <2> QED BY <2>1, <2>2
<1>4. ~EndsTurn(app, Head(chatQueue)) /\ app'.turn = app.turn
  BY <1>1, <1>2, <1>3, TurnEnds
<1>5. PICK k \in DOMAIN chatQueue : EndsTurn(app, chatQueue[k])
  BY <1>3 DEF TurnIsEnding
<1>6. k # 1
  BY <1>2, <1>4, <1>5
<1>7. k - 1 \in DOMAIN chatQueue' /\ chatQueue'[k - 1] = chatQueue[k]
  BY <1>1, <1>5, <1>6
<1> QED BY <1>4, <1>5, <1>7 DEF EndsTurn

\* An active turn keeps an end in sight.
LEMMA TurnEndStep ==
  ASSUME TypeOK, ScreenInv, TurnInv, TurnIsEnding, Next
  PROVE  TurnIsEnding'
<1>0. app \in AppType /\ chat \in ChatType /\ SendingHasRoom
  BY DEF ScreenInv, TypeOK, AppTypeOK, ServiceTypeOK
<1>i. TurnIs("Idle").kind = "Idle" /\ TurnIs("Starting").kind = "Starting"
  BY DEF TurnIs
<1>1. CASE ChatReports
  <2> DEFINE e == [kind |-> "TurnFinished", conversation |-> chat.conversation,
                   turn |-> chat.turn, unauthorized |-> chat.unauthorized]
  <2>1. /\ chatQueue' = Append(chatQueue, e) /\ app' = app /\ ChatRunning
        /\ chatQueue \in Seq(ChatEventType)
    BY <1>1 DEF ChatReports, CoordinatorKeeps, ChatRunning, TypeOK, ServiceTypeOK
  <2>2. app.turn = Streaming(chat.conversation, chat.turn)
    BY <2>1 DEF TurnInv, NoOrphanTurn
  <2>3. EndsTurn(app, e)
    BY <2>2 DEF EndsTurn
  <2> HIDE DEF e
  <2>4. Len(chatQueue) + 1 \in DOMAIN chatQueue' /\ chatQueue'[Len(chatQueue) + 1] = e
    BY <2>1
  <2> QED BY <2>1, <2>3, <2>4 DEF TurnIsEnding
<1>2. CASE ChatDelta \/ ChatSaves
  <2>1. /\ app' = app /\ ChatRunning'
    BY <1>0, <1>2 DEF ChatDelta, ChatSaves, CoordinatorKeeps, ChatRunning, ChatType
  <2> QED BY <2>1 DEF TurnIsEnding
<1>3. CASE LogoutReadsChat \/ ReceiveChat
  BY <1>3, TurnEndReceived DEF LogoutReadsChat, ReceiveChat
<1>4. CASE SendLaunches
  <2>1. ChatRunning'
    BY <1>0, <1>4 DEF SendLaunches, ChatRunning, ChatType
  <2> QED BY <2>1 DEF TurnIsEnding
<1>5. CASE SendPrepares \/ SendRefused \/ SendAbandons
  <2>1. /\ app.turn.kind = "Starting" /\ TurnFails(app).turn.kind = "Idle"
    BY <1>0, <1>5, <1>i DEF SendPrepares, SendRefused, SendAbandons, SendingHasRoom, TurnFails,
       TurnActive, AppType
  <2>2. app' = app \/ app' = TurnFails(app)
    BY <1>5 DEF SendPrepares, SendRefused, SendAbandons
  <2> QED BY <2>1, <2>2 DEF TurnIsEnding
<1>6. CASE LogoutEnds
  <2> DEFINE settled == [app EXCEPT !.turn = IF @.kind = "Streaming" THEN TurnIs("Idle") ELSE @]
  <2>1. settled \in AppType /\ settled.turn.kind # "Streaming"
    BY <1>0, <1>i DEF AppType, TurnIs, SomeConversation, SomeTurn
  <2>2. \E auth \in Auths : app' = AuthChanged(settled, auth)
    BY <1>6 DEF LogoutEnds, Auths
  <2> HIDE DEF settled
  <2>3. app'.turn = settled.turn
    BY <2>1, <2>2, AuthChangedType
  <2> QED BY <2>1, <2>3 DEF TurnIsEnding
<1>7. CASE Quit \/ Crash
  <2>1. Restarts /\ saved' \in PreferencesType /\ disk' \in [key : BOOLEAN, catalog : BOOLEAN]
    BY <1>7 DEF Quit, Crash, TypeOK, StoreTypeOK, AppTypeOK, AppType, Preferences, PreferencesType
  <2> QED BY <2>1, RestartShowsNothing DEF TurnIsEnding
<1>8. CASE ReceiveControl
  <2>1. PICK b \in AppType :
          /\ ReducedBy(b, Head(controlQueue))
          /\ \/ app' = b \/ app' = ResumeHasFailed(b, pending.conversation)
             \/ app' = AutomaticallyRestored(b, pending.conversation)
    BY <1>8, ReceivesControl
  <2>2. b.turn = app.turn
    BY <2>1 DEF ReducedBy
  <2>3. app'.turn = app.turn \/ app'.turn.kind # "Streaming"
    BY <1>i, <2>1, <2>2 DEF ResumeHasFailed, AutomaticallyRestored, Restored, AppType
  <2>4. chat' = chat /\ chatQueue' = chatQueue
    BY <1>8 DEF ReceiveControl
  <2> QED BY <2>3, <2>4, TurnEndStays DEF ChatRunning
<1>9. CASE Control
  <2>1. app' = app /\ chat' = chat /\ chatQueue' = chatQueue
    BY <1>9 DEF Control, Announces, CoordinatorKeeps, ControlReplacesKey,
       ControlRejectsCandidate, ControlAcceptsKey, ControlFails, ControlSavesCatalog,
       ControlFinishes
  <2> QED BY <2>1, TurnEndStays DEF ChatRunning
<1>10. CASE Interrupt \/ LogoutEndsControl
  <2>1. app' = app /\ chat'.pc = chat.pc /\ chatQueue' = chatQueue
    BY <1>0, <1>10 DEF Interrupt, LogoutEndsControl, ChatType
  <2> QED BY <2>1, TurnEndStays DEF ChatRunning
<1>11. CASE \/ SendMessage \/ SendUnresolved \/ NewThread \/ SelectModel \/ Resume \/ PickerClose
            \/ PickerSelectOther \/ AcceptCredential \/ RefreshOpenRouter \/ LogoutOpenRouter
            \/ LogoutDropsControl \/ Persist
            \/ (\E provider \in Providers : SwitchProvider(provider))
            \/ \E c \in Conversations : PickerSelect(c) \/ PickerDelete(c)
  <2>1. /\ chat' = chat /\ chatQueue' = chatQueue
        /\ app'.turn = app.turn \/ app'.turn.kind # "Streaming"
    <3>1. CASE SendMessage \/ SendUnresolved \/ NewThread
      BY <1>0, <1>i, <3>1 DEF SendMessage, SendUnresolved, NewThread, IntentKeeps, AppType, tasks
    <3>2. CASE SelectModel \/ Resume \/ PickerClose \/ LogoutOpenRouter
      BY <1>0, <3>2 DEF SelectModel, Resume, PickerClose, LogoutOpenRouter, Takes, IntentKeeps,
         AppType, tasks
    <3>3. CASE PickerSelectOther
      BY <1>0, <1>i, <3>3 DEF PickerSelectOther, Takes, IntentKeeps, AppType, tasks
    <3>4. CASE AcceptCredential \/ RefreshOpenRouter
      BY <1>0, <3>4 DEF AcceptCredential, RefreshOpenRouter, AppType
    <3>5. CASE LogoutDropsControl \/ Persist
      BY <3>5 DEF LogoutDropsControl, Persist, tasks
    <3>6. CASE \E provider \in Providers : SwitchProvider(provider)
      BY <1>0, <1>i, <3>6 DEF SwitchProvider, Takes, IntentKeeps, AppType, tasks
    <3>7. CASE \E c \in Conversations : PickerSelect(c)
      BY <1>0, <1>i, <3>7 DEF PickerSelect, Takes, Restored, IntentKeeps, AppType, tasks
    <3>8. CASE \E c \in Conversations : PickerDelete(c)
      BY <3>8 DEF PickerDelete, tasks
    <3> QED BY <1>11, <3>1, <3>2, <3>3, <3>4, <3>5, <3>6, <3>7, <3>8
  <2> QED BY <2>1, TurnEndStays DEF ChatRunning
<1> QED
  BY <1>1, <1>2, <1>3, <1>4, <1>5, <1>6, <1>7, <1>8, <1>9, <1>10, <1>11
     DEF Next, Intent, Execute, Chat

\* What is waited for, and the kinds of task.
LEMMA OperationTypes ==
  /\ Idle.kind = "Idle" /\ Idle.op = None
  /\ NoControl.pc = "none"
  /\ \A op : /\ Refreshing(op).kind = "Refreshing" /\ Refreshing(op).op = op
             /\ Validating(op, FALSE).kind = "Validating" /\ Validating(op, FALSE).op = op
             /\ ControlTask("refresh", op).kind = "refresh" /\ ControlTask("refresh", op).op = op
             /\ ControlTask("login", op).kind = "login" /\ ControlTask("login", op).op = op
             /\ ControlTask("refresh", op).pc = "validating"
             /\ ControlTask("login", op).pc = "validating"
BY DEF Idle, NoControl, Refreshing, Validating, ControlTask

\* The task and its events being left alone, an operation keeps its end, or is over.
LEMMA OperationEndStays ==
  ASSUME OperationIsEnding, TaskIsAwaited, UNCHANGED <<control, controlQueue>>,
         app'.validation = app.validation \/ app'.validation = Idle,
         \/ effect \in {"logoutControl", "logoutChat"} =>
              effect' \in {"logoutControl", "logoutChat"}
         \/ app'.validation = Idle
  PROVE  OperationIsEnding' /\ TaskIsAwaited'
<1>1. CASE app'.validation = Idle
  <2>1. app'.validation.kind = "Idle"
    BY <1>1, OperationTypes
  <2> QED BY <2>1 DEF OperationIsEnding, TaskIsAwaited, ControlRunning
<1>2. CASE /\ app'.validation = app.validation
           /\ effect \in {"logoutControl", "logoutChat"} =>
                effect' \in {"logoutControl", "logoutChat"}
  BY <1>2 DEF OperationIsEnding, TaskIsAwaited, ControlRunning, EndsOperation
<1> QED BY <1>1, <1>2

\* The task takes a step without an event.
LEMMA OperationGoesOn ==
  ASSUME OperationIsEnding, TaskIsAwaited, ControlRunning, CoordinatorKeeps,
         controlQueue' = controlQueue, ControlRunning', control'.op = control.op,
         control'.kind = control.kind, control'.pc = "rejecting" => control.kind = "login"
  PROVE  OperationIsEnding' /\ TaskIsAwaited'
BY DEF CoordinatorKeeps, OperationIsEnding, TaskIsAwaited, ControlRunning, EndsOperation

\* It says something; the last that it says ends its operation, if it is waited for.
LEMMA OperationAnnounces ==
  ASSUME TypeOK, OperationIsEnding, TaskIsAwaited, ControlRunning, NEW e, NEW pc,
         Announces(e, pc), pc \in {"done", "fetching"},
         e.op = control.op,
         /\ pc = "done" /\ app.validation.kind # "Idle" /\ control.op = app.validation.op
         => EndsOperation(app, e)
  PROVE  OperationIsEnding' /\ TaskIsAwaited'
<1>0. control \in ControlType /\ controlQueue \in Seq(ControlEventType)
  BY DEF TypeOK, ServiceTypeOK
<1>1. /\ controlQueue' = Append(controlQueue, e) /\ app' = app /\ effect' = effect
      /\ control' = (IF pc = "done" THEN [NoControl EXCEPT !.pc = pc]
                     ELSE [control EXCEPT !.pc = pc])
  BY DEF Announces, CoordinatorKeeps
<1>2. IF pc = "done" THEN ~ControlRunning'
      ELSE control'.pc = "fetching" /\ control'.op = control.op /\ control'.kind = control.kind
  BY <1>0, <1>1 DEF NoControl, ControlType, ControlRunning
<1>3. TaskIsAwaited'
  BY <1>1, <1>2 DEF TaskIsAwaited, ControlRunning
<1>4. \A k \in DOMAIN controlQueue :
        k \in DOMAIN controlQueue' /\ controlQueue'[k] = controlQueue[k]
  BY <1>0, <1>1
<1>5. Len(controlQueue) + 1 \in DOMAIN controlQueue' /\ controlQueue'[Len(controlQueue) + 1] = e
  BY <1>0, <1>1
<1>6. EndsOperation(app, e) => \E k \in DOMAIN controlQueue' : EndsOperation(app, controlQueue'[k])
  BY <1>5
<1>7. OperationIsEnding'
  BY <1>1, <1>2, <1>4, <1>6 DEF OperationIsEnding, ControlRunning
<1> QED BY <1>3, <1>7

\* Each step of the task.
LEMMA ControlEndStep ==
  ASSUME TypeOK, OperationIsEnding, TaskIsAwaited, Control
  PROVE  OperationIsEnding' /\ TaskIsAwaited'
<1>0. control \in ControlType /\ app \in AppType
  BY DEF TypeOK, ServiceTypeOK, AppTypeOK
<1>v. app.validation.kind \in {"Idle", "Refreshing", "Validating"}
  BY <1>0 DEF AppType
<1>1. CASE ControlReplacesKey \/ ControlSavesCatalog
  <2>1. /\ ControlRunning /\ CoordinatorKeeps /\ controlQueue' = controlQueue
        /\ control'.op = control.op /\ control'.kind = control.kind
        /\ control'.pc \in {"announcing", "rejecting", "finishing"}
        /\ control'.pc = "rejecting" => control.kind = "login"
    BY <1>0, <1>1 DEF ControlReplacesKey, ControlSavesCatalog, ControlRunning, ControlType
  <2>2. ControlRunning'
    BY <2>1 DEF ControlRunning
  <2> QED BY <2>1, <2>2, OperationGoesOn
<1>2. CASE ControlRejectsCandidate
  <2>1. /\ ControlRunning /\ Announces(LoginFailed, "done")
        /\ control.pc # "rejecting" => control.kind = "login"
    BY <1>2 DEF ControlRejectsCandidate, ControlRunning
  <2>2. control.kind = "login"
    BY <2>1 DEF TaskIsAwaited
  <2>3. LoginFailed.op = control.op /\ LoginFailed.kind = "LoginFailed"
    BY DEF LoginFailed
  <2>4. app.validation.kind # "Idle" /\ control.op = app.validation.op
        => EndsOperation(app, LoginFailed)
    BY <1>v, <2>1, <2>2, <2>3 DEF TaskIsAwaited, EndsOperation
  <2> QED BY <2>1, <2>3, <2>4, OperationAnnounces
<1>3. CASE ControlAcceptsKey
  <2>1. ControlRunning /\ Announces(AuthValidated, "fetching") /\ AuthValidated.op = control.op
    BY <1>3 DEF ControlAcceptsKey, ControlRunning, AuthValidated
  <2> QED BY <2>1, OperationAnnounces
<1>4. ASSUME NEW category, Announces(CatalogFailed(category), "done"), ControlRunning
      PROVE  OperationIsEnding' /\ TaskIsAwaited'
  <2> DEFINE e == CatalogFailed(category)
  <2>1. e.op = control.op /\ e.kind = "CatalogFailed"
    BY DEF CatalogFailed
  <2>2. control.op = app.validation.op => EndsOperation(app, e)
    BY <2>1 DEF EndsOperation
  <2> HIDE DEF e
  <2>3. Announces(e, "done")
    BY <1>4 DEF e
  <2> QED BY <1>4, <2>1, <2>2, <2>3, OperationAnnounces
<1>5. CASE ControlFails
  <2>1. ControlRunning
    BY <1>5 DEF ControlFails, ControlRunning
  <2>2. \E category : Announces(CatalogFailed(category), "done")
    BY <1>5 DEF ControlFails
  <2> QED BY <1>4, <2>1, <2>2
<1>6. CASE ControlFinishes
  <2> DEFINE e == [kind |-> IF control.kind = "login" THEN "LoginSucceeded"
                            ELSE "CatalogLoaded",
                   op |-> control.op, catalog |-> disk.catalog]
  <2>1. ControlRunning
    BY <1>6 DEF ControlFinishes, ControlRunning
  <2>2. Announces(e, "done") \/ Announces(CatalogFailed("CredentialStore"), "done")
    BY <1>6 DEF ControlFinishes
  <2>3. /\ e.op = control.op
        /\ e.kind = IF control.kind = "login" THEN "LoginSucceeded" ELSE "CatalogLoaded"
    OBVIOUS
  <2> HIDE DEF e
  <2>4. control.kind \in {"login", "refresh"}
    BY <1>0 DEF ControlType
  <2>5. app.validation.kind # "Idle" /\ control.op = app.validation.op => EndsOperation(app, e)
    BY <1>v, <2>1, <2>3, <2>4 DEF TaskIsAwaited, EndsOperation
  <2> QED BY <1>4, <2>1, <2>2, <2>3, <2>5, OperationAnnounces
<1> QED BY <1>1, <1>2, <1>3, <1>5, <1>6 DEF Control

\* Nor does a control event make a reducer wait that does not.
LEMMA IdleStays ==
  ASSUME NEW a \in AppType, NEW e \in ControlEventType, a.validation.kind = "Idle"
  PROVE  ControlReduced(a, e).validation.kind = "Idle"
<1> DEFINE b == ControlReduced(a, e)
<1>0. Idle.kind = "Idle"
  BY DEF Idle
<1>1. CASE e.kind = "CatalogFailed" /\ FailureCounts(a, e)
  <2>1. b = OperationFailed(a, e.category)
    BY <1>1 DEF ControlReduced, Matches
  <2>2. e.category \in {"Unauthorized", "Other", "MissingCredential", "CredentialStore"}
    BY <1>1 DEF ControlEventType
  <2> QED BY <1>0, <2>1, <2>2, OperationFailedType
<1>2. CASE ~(e.kind = "CatalogFailed" /\ FailureCounts(a, e))
  <2>1. b = a
    BY <1>2 DEF ControlReduced, Matches
  <2> QED BY <2>1
<1> QED BY <1>1, <1>2

\* What the coordinator makes of a control event ends the operation if the event does, and
\* leaves it if not.
LEMMA OperationReceives ==
  ASSUME TypeOK, ReceiveControl
  PROVE  \/ app'.validation.kind = "Idle"
         \/ /\ app.validation.kind # "Idle" => ~EndsOperation(app, Head(controlQueue))
            /\ app'.validation.kind = app.validation.kind
            /\ app'.validation.op = app.validation.op
<1> DEFINE e == Head(controlQueue)
           c == pending.conversation
           r == ControlReduced(app, e)
           l == CatalogLoadedForResume(app, e.catalog)
           Outcome(b) == \/ b.validation.kind = "Idle"
                         \/ /\ app.validation.kind # "Idle" => ~EndsOperation(app, e)
                            /\ b.validation.kind = app.validation.kind
                            /\ b.validation.op = app.validation.op
<1>1. e \in ControlEventType /\ app \in AppType
  BY DEF ReceiveControl, TypeOK, ServiceTypeOK, AppTypeOK
<1>2. Outcome(r) /\ r \in AppType
  <2> HIDE DEF e
  <2>1. r \in AppType
    BY <1>1, ControlReducedType
  <2>2. CASE app.validation.kind # "Idle"
    BY <1>1, <2>1, <2>2, OperationEnds
  <2>3. CASE app.validation.kind = "Idle"
    BY <1>1, <2>1, <2>3, IdleStays
  <2> QED BY <2>2, <2>3
<1>3. CASE EndsPending(e) /\ Matches(app, "Refreshing", e.op) /\ PendingIsCurrent(app)
  <2> DEFINE b == IF e.kind = "CatalogLoaded" THEN l ELSE r
  <2>1. l.validation.kind = "Idle" /\ DOMAIN l = DOMAIN app
    BY <1>1 DEF AppType, CatalogLoadedForResume, Idle
  <2>2. Outcome(b)
    BY <1>2, <2>1
  <2>3. PICK found \in {file[c].there}
                         \cup (IF "conversations" \in Faults THEN {FALSE} ELSE {}) :
          app' = Resumes(b, e.kind = "CatalogLoaded", found)
    BY <1>3 DEF ReceiveControl
  <2>4. \/ app' = b \/ app' = ResumeHasFailed(b, c) \/ app' = AutomaticallyRestored(b, c)
    BY <2>3 DEF Resumes
  <2>5. l \in AppType \/ e.kind # "CatalogLoaded"
    BY <1>1 DEF AppType, CatalogLoadedForResume, Idle, None, ControlEventType
  <2>6. b \in AppType
    BY <1>2, <2>5
  <2> HIDE DEF b
  <2>7. app'.validation = b.validation
    BY <2>4, <2>6 DEF ResumeHasFailed, AutomaticallyRestored, Restored, AppType
  <2> QED BY <2>2, <2>7
<1>4. CASE ~(EndsPending(e) /\ Matches(app, "Refreshing", e.op) /\ PendingIsCurrent(app))
  <2>1. app' = r
    BY <1>4 DEF ReceiveControl
  <2> QED BY <1>2, <2>1
<1> QED BY <1>3, <1>4

\* What is received of the task ends the operation, or its end is still queued.
LEMMA OperationEndReceived ==
  ASSUME TypeOK, OperationIsEnding, TaskIsAwaited, ReceiveControl
  PROVE  OperationIsEnding' /\ TaskIsAwaited'
<1>1. /\ controlQueue # <<>> /\ controlQueue' = Tail(controlQueue) /\ control' = control
      /\ effect = "none" /\ controlQueue \in Seq(ControlEventType)
  BY DEF ReceiveControl, CoordinatorFree, TypeOK, ServiceTypeOK
<1>2. CASE app'.validation.kind = "Idle"
  BY <1>1, <1>2 DEF OperationIsEnding, TaskIsAwaited, ControlRunning
<1>3. CASE /\ app'.validation.kind = app.validation.kind /\ app'.validation.kind # "Idle"
           /\ app'.validation.op = app.validation.op
           /\ ~EndsOperation(app, Head(controlQueue))
  <2>1. TaskIsAwaited'
    BY <1>1, <1>3 DEF TaskIsAwaited, ControlRunning
  <2>2. ASSUME NEW k \in DOMAIN controlQueue, EndsOperation(app, controlQueue[k])
        PROVE  \E i \in DOMAIN controlQueue' : EndsOperation(app', controlQueue'[i])
    <3>1. k # 1
      BY <1>1, <1>3, <2>2
    <3>2. k - 1 \in DOMAIN controlQueue' /\ controlQueue'[k - 1] = controlQueue[k]
      BY <1>1, <2>2, <3>1
    <3> QED BY <1>3, <2>2, <3>2 DEF EndsOperation
  <2>3. OperationIsEnding'
    BY <1>1, <1>3, <2>2 DEF OperationIsEnding, ControlRunning
  <2> QED BY <2>1, <2>3
<1> QED BY <1>2, <1>3, OperationReceives

\* A start waits for the validation that it begins, or for nothing.
LEMMA StartAwaits ==
  ASSUME NEW prefs \in PreferencesType, NEW found \in KeyResults, NEW catalog \in BOOLEAN
  PROVE  LET s == Start(prefs, found, catalog)
         IN \/ s.app.validation = Idle /\ s.control = NoControl
            \/ s.app.validation = Refreshing(1) /\ s.control = ControlTask("refresh", 1)
<1> DEFINE auth == StoredAuth(found)
           s == Start(prefs, found, catalog)
<1>1. /\ s.app = Started(prefs, auth, catalog)
      /\ s.control = (IF auth = "Unverified" THEN ControlTask("refresh", 1) ELSE NoControl)
  BY DEF Start
<1>2. s.app.validation = (IF auth = "Unverified" THEN Refreshing(1) ELSE Idle)
  BY <1>1 DEF Started
<1> QED BY <1>1, <1>2

\* An operation that is waited for keeps an end in sight.
LEMMA OperationEndStep ==
  ASSUME TypeOK, OpsAreFresh, OperationIsEnding, TaskIsAwaited, Next
  PROVE  OperationIsEnding' /\ TaskIsAwaited'
<1>0. app \in AppType /\ chat \in ChatType
  BY DEF TypeOK, AppTypeOK, ServiceTypeOK
<1>1. CASE Control
  BY <1>1, ControlEndStep
<1>2. CASE AcceptCredential \/ RefreshOpenRouter
  <2>1. CASE AcceptCredential
    <3>1. app'.validation = Validating(nextOp, FALSE) /\ control' = ControlTask("login", nextOp)
      BY <1>0, <2>1 DEF AcceptCredential, AppType
    <3>2. /\ app'.validation.kind = "Validating" /\ app'.validation.op = nextOp
          /\ control'.kind = "login" /\ control'.op = nextOp /\ control'.pc = "validating"
      <4>1. PICK v : v = Validating(nextOp, FALSE)
        OBVIOUS
      <4>2. PICK c : c = ControlTask("login", nextOp)
        OBVIOUS
      <4>3. v.kind = "Validating" /\ v.op = nextOp
        BY <4>1, OperationTypes
      <4>4. c.kind = "login" /\ c.op = nextOp /\ c.pc = "validating"
        BY <4>2, OperationTypes
      <4> QED BY <3>1, <4>1, <4>2, <4>3, <4>4
    <3> QED BY <3>2 DEF OperationIsEnding, TaskIsAwaited, ControlRunning
  <2>2. CASE RefreshOpenRouter
    <3>1. app'.validation = Refreshing(nextOp) /\ control' = ControlTask("refresh", nextOp)
      BY <1>0, <2>2 DEF RefreshOpenRouter, AppType
    <3>2. /\ app'.validation.kind = "Refreshing" /\ app'.validation.op = nextOp
          /\ control'.kind = "refresh" /\ control'.op = nextOp /\ control'.pc = "validating"
      <4>1. PICK v : v = Refreshing(nextOp)
        OBVIOUS
      <4>2. PICK c : c = ControlTask("refresh", nextOp)
        OBVIOUS
      <4>3. v.kind = "Refreshing" /\ v.op = nextOp
        BY <4>1, OperationTypes
      <4>4. c.kind = "refresh" /\ c.op = nextOp /\ c.pc = "validating"
        BY <4>2, OperationTypes
      <4> QED BY <3>1, <4>1, <4>2, <4>3, <4>4
    <3> QED BY <3>2 DEF OperationIsEnding, TaskIsAwaited, ControlRunning
  <2> QED BY <1>2, <2>1, <2>2
<1>3. CASE ReceiveControl
  BY <1>3, OperationEndReceived
<1>4. CASE LogoutDropsControl \/ LogoutEndsControl
  <2>1. CASE LogoutDropsControl
    BY <2>1 DEF LogoutDropsControl, OperationIsEnding, TaskIsAwaited, ControlRunning
  <2>2. CASE LogoutEndsControl
    <3>1. control'.pc = "none" /\ effect' = "logoutChat"
      BY <2>2, OperationTypes DEF LogoutEndsControl
    <3> QED BY <3>1 DEF OperationIsEnding, TaskIsAwaited, ControlRunning
  <2> QED BY <1>4, <2>1, <2>2
<1>5. CASE LogoutEnds
  <2> DEFINE settled == [app EXCEPT !.turn = IF @.kind = "Streaming" THEN TurnIs("Idle") ELSE @]
  <2>1. settled \in AppType
    BY <1>0 DEF AppType, TurnIs, SomeConversation, SomeTurn
  <2>2. /\ app' = AuthChanged(settled, "Missing") \/ app' = AuthChanged(settled, "CredentialUnavailable")
        /\ UNCHANGED <<control, controlQueue>>
    BY <1>5 DEF LogoutEnds
  <2> HIDE DEF settled
  <2>3. app'.validation = Idle
    BY <2>1, <2>2, AuthChangedType DEF Auths
  <2> QED BY <2>2, <2>3, OperationEndStays
<1>6. CASE Quit \/ Crash
  <2>1. Restarts /\ saved' \in PreferencesType /\ disk' \in [key : BOOLEAN, catalog : BOOLEAN]
    BY <1>6 DEF Quit, Crash, TypeOK, StoreTypeOK, AppTypeOK, AppType, Preferences, PreferencesType
  <2>2. PICK found \in KeyLoads', catalog \in {FALSE, disk'.catalog} :
          app' = Start(saved', found, catalog).app /\ control' = Start(saved', found, catalog).control
    BY <2>1 DEF Restarts
  <2>3. found \in KeyResults /\ catalog \in BOOLEAN
    BY <2>1, <2>2, KeyLoadsType
  <2>4. \/ app'.validation = Idle /\ control' = NoControl
        \/ app'.validation = Refreshing(1) /\ control' = ControlTask("refresh", 1)
    BY <2>1, <2>2, <2>3, StartAwaits
  <2>5. \/ app'.validation.kind = "Idle" /\ control'.pc = "none"
        \/ /\ app'.validation.kind = "Refreshing" /\ app'.validation.op = 1
           /\ control'.pc = "validating" /\ control'.kind = "refresh" /\ control'.op = 1
    BY <2>4, OperationTypes
  <2> QED BY <2>5 DEF OperationIsEnding, TaskIsAwaited, ControlRunning
<1>7. CASE LogoutReadsChat \/ ReceiveChat
  <2>1. /\ Head(chatQueue) \in ChatEventType /\ app' = ChatReduced(app, Head(chatQueue))
        /\ UNCHANGED <<control, controlQueue, effect>>
    BY <1>7 DEF LogoutReadsChat, ReceiveChat, TypeOK, ServiceTypeOK
  <2>2. app'.validation = app.validation \/ app'.validation = Idle
    BY <1>0, <2>1, ChatReducedType
  <2> QED BY <2>1, <2>2, OperationEndStays
<1>8. CASE SendPrepares \/ SendRefused \/ SendAbandons \/ SendLaunches \/ NewThread
  <2>1. TurnFails(app).validation = app.validation
    BY <1>0 DEF TurnFails, AppType
  <2>2. /\ app'.validation = app.validation /\ UNCHANGED <<control, controlQueue>>
        /\ effect \notin {"logoutControl", "logoutChat"}
    <3>1. CASE SendPrepares \/ SendRefused \/ SendAbandons
      BY <2>1, <3>1 DEF SendPrepares, SendRefused, SendAbandons
    <3>2. CASE SendLaunches \/ NewThread
      BY <1>0, <3>2 DEF SendLaunches, NewThread, CoordinatorFree, AppType, tasks
    <3> QED BY <1>8, <3>1, <3>2
  <2> QED BY <2>2, OperationEndStays
<1>9. CASE Chat
  <2>1. UNCHANGED <<app, effect, control, controlQueue>>
    BY <1>9 DEF Chat, ChatDelta, ChatSaves, ChatReports, CoordinatorKeeps
  <2> QED BY <2>1, OperationEndStays
<1>10. CASE \/ SendMessage \/ SendUnresolved \/ Interrupt \/ SelectModel \/ Resume \/ PickerClose
            \/ PickerSelectOther \/ LogoutOpenRouter \/ Persist
            \/ (\E provider \in Providers : SwitchProvider(provider))
            \/ \E c \in Conversations : PickerSelect(c) \/ PickerDelete(c)
  <2>1. /\ app'.validation = app.validation /\ UNCHANGED <<control, controlQueue>>
        /\ effect \notin {"logoutControl", "logoutChat"}
    <3>1. CASE SendMessage \/ SendUnresolved \/ Interrupt \/ Persist
      BY <1>0, <3>1 DEF SendMessage, SendUnresolved, Interrupt, Persist, CoordinatorFree,
         IntentKeeps, AppType, tasks
    <3>2. CASE SelectModel \/ Resume \/ PickerClose \/ LogoutOpenRouter
      BY <1>0, <3>2 DEF SelectModel, Resume, PickerClose, LogoutOpenRouter, Takes, IntentKeeps,
         CoordinatorFree, AppType, tasks
    <3>3. CASE PickerSelectOther
      BY <1>0, <3>3 DEF PickerSelectOther, Takes, IntentKeeps, CoordinatorFree, AppType, tasks
    <3>4. CASE \E provider \in Providers : SwitchProvider(provider)
      BY <1>0, <3>4 DEF SwitchProvider, Takes, IntentKeeps, CoordinatorFree, AppType, tasks
    <3>5. CASE \E c \in Conversations : PickerSelect(c)
      BY <1>0, <3>5 DEF PickerSelect, Takes, Restored, IntentKeeps, CoordinatorFree, AppType, tasks
    <3>6. CASE \E c \in Conversations : PickerDelete(c)
      BY <3>6 DEF PickerDelete, CoordinatorFree, tasks
    <3> QED BY <1>10, <3>1, <3>2, <3>3, <3>4, <3>5, <3>6
  <2> QED BY <2>1, OperationEndStays
<1> QED BY <1>1, <1>2, <1>3, <1>4, <1>5, <1>6, <1>7, <1>8, <1>9, <1>10
        DEF Next, Intent, Execute

\* At first no turn is active, and what is validated has its task.
LEMMA InitEnds == Init => EndInv
<1> SUFFICES ASSUME Init PROVE EndInv
  OBVIOUS
<1>1. saved \in PreferencesType /\ disk \in [key : BOOLEAN, catalog : BOOLEAN]
  BY InitInv DEF Inv, TypeOK, AppTypeOK, StoreTypeOK, PreferencesType
<1>2. PICK found \in KeyLoads :
        /\ app = Start(saved, found, TRUE).app /\ control = Start(saved, found, TRUE).control
  BY DEF Init
<1>3. found \in KeyResults
  BY <1>2 DEF KeyLoads, KeyResults
<1>4. \/ app.validation = Idle /\ control = NoControl
      \/ app.validation = Refreshing(1) /\ control = ControlTask("refresh", 1)
  BY <1>1, <1>2, <1>3, StartAwaits
<1>5. \/ app.validation.kind = "Idle" /\ control.pc = "none"
      \/ /\ app.validation.kind = "Refreshing" /\ app.validation.op = 1
         /\ control.pc = "validating" /\ control.kind = "refresh" /\ control.op = 1
  BY <1>4, OperationTypes
<1>6. app.turn.kind = "Idle"
  BY <1>1, <1>2, <1>3, StartType
<1> QED BY <1>5, <1>6 DEF EndInv, TurnIsEnding, OperationIsEnding, TaskIsAwaited, ControlRunning

\* Every step keeps the ends in sight.
LEMMA NextEnds ==
  ASSUME Inv, EndInv, [Next]_vars
  PROVE  EndInv'
<1>1. TypeOK /\ ScreenInv /\ TurnInv /\ OpsAreFresh
  BY DEF Inv, CredentialInv
<1>2. TurnIsEnding /\ OperationIsEnding /\ TaskIsAwaited
  BY DEF EndInv
<1>3. CASE Next
  BY <1>1, <1>2, <1>3, TurnEndStep, OperationEndStep DEF EndInv
<1>4. CASE UNCHANGED vars
  BY <1>2, <1>4 DEF vars, tasks, EndInv, TurnIsEnding, OperationIsEnding, TaskIsAwaited,
     ChatRunning, ControlRunning, EndsTurn, EndsOperation
<1> QED BY <1>3, <1>4

\* Whatever turn or validation is displayed as under way, its task runs or the event that
\* ends it is queued, whichever of its steps fails and whatever earlier ones left behind
\* (launch_prepared_turn, start_control_task, reduce_openrouter_service_event).
THEOREM EndsComeInSight == Spec => []EndsAreInSight
<1>1. Inv /\ EndInv /\ [Next]_vars => EndInv'
  BY NextEnds
<1>2. Inv /\ EndInv => EndsAreInSight
  BY EndingIsInSight DEF Inv
<1> QED BY Invariance, InitEnds, <1>1, <1>2, PTL DEF Spec
=============================================================================
