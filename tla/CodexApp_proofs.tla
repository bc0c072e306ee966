--------------------------- MODULE CodexApp_proofs ---------------------------
(***************************************************************************)
(* Theorems about CodexApp, for any accounts, bounds and queue capacity,   *)
(* and with every fault: nothing on the screen waits for an effect that    *)
(* has ended, the account and the thread shown are the right ones, a       *)
(* streaming turn has its end coming, and what is saved can be loaded.     *)
(***************************************************************************)
EXTENDS CodexApp, TLAPS

-----------------------------------------------------------------------------
(* Types.                                                                  *)

SomeThread == Threads \cup {None}

PreferencesType ==
  [provider : Providers, pointer : SomeThread, scope : Scopes, registry : [Threads -> Scopes]]

AuthType ==
  [kind : {"Unknown", "SignedOut", "SigningIn", "SignedIn", "Unsupported"},
   login : Nat, scope : Scopes]

ThreadType ==
  [kind : {"None", "Resuming", "Ready", "ResumeFailed", "AccountMismatch"}, id : SomeThread]

TurnType == [kind : {"Idle", "Starting", "Streaming"}, thread : SomeThread, turn : Nat]

PickerType ==
  [phase : {"closed", "Loading", "Ready", "Resuming", "Deleting", "Failed"},
   threads : SUBSET Threads, targets : SUBSET Threads, mixed : BOOLEAN]

AppType ==
  [provider : Providers, connection : {"Disconnected", "Ready", "Failed"}, auth : AuthType,
   models : BOOLEAN, thread : ThreadType, turn : TurnType, picker : PickerType,
   pointer : SomeThread, scope : Scopes, registry : [Threads -> Scopes]]

EffectType ==
  [kind : {"none", "startup", "login", "cancel", "cancelRead", "logout", "read", "new",
           "resume", "list", "switch", "delete", "startThread", "persistThread",
           "startTurn", "interrupt", "persist"},
   id : Nat, left : SUBSET Threads, done : SUBSET Threads, mixed : BOOLEAN, event : BOOLEAN]

NoteType ==
  [kind : {"AccountUpdated", "LoginCompleted", "TurnFinished", "AgentCompleted",
           "SafetyViolation"},
   thread : SomeThread, turn : Nat, login : Nat, success : BOOLEAN]

ServerType ==
  [account : ServerAccounts, login : Nat, running : SUBSET (Threads \X Nat),
   threads : SUBSET Threads]

CountsType == [changes : Nat, switches : Nat, restarts : Nat, faults : Nat]

TypeOK ==
  /\ app \in AppType /\ saved \in PreferencesType /\ effect \in EffectType
  /\ deaf \in BOOLEAN /\ wire \in {"open", "closed", "denied", "gone"}
  /\ events \in Seq(NoteType) /\ Len(events) <= QueueCapacity
  /\ server \in ServerType
  /\ next \in [thread : Nat, turn : Nat, login : Nat]
  /\ counts \in CountsType /\ unsaved \in BOOLEAN

-----------------------------------------------------------------------------
(* The inductive invariant.                                                *)

\* What is on the screen agrees with the pointer, and the pointer with the registry.
Screen(a) ==
  /\ a.provider = "Other" => a.pointer = None /\ a.thread.kind = "None" /\ ~TurnActive(a)
  /\ a.thread.kind # "None" => a.pointer = a.thread.id /\ a.pointer # None
  /\ a.pointer # None /\ a.scope # NoScope => a.registry[a.pointer] = a.scope
  /\ a.thread.kind = "Ready" /\ a.auth.kind = "SignedIn" /\ a.auth.scope # NoScope =>
       a.scope = a.auth.scope
  /\ a.turn.kind = "Streaming" => a.pointer = a.turn.thread

\* What is under way on the screen is the effect at hand,
Waits(a, e) ==
  /\ a.turn.kind = "Starting" => e.kind \in {"startThread", "persistThread", "startTurn"}
  /\ a.thread.kind = "Resuming" => e.kind = "resume"
  /\ a.picker.phase = "Loading" => e.kind = "list"
  /\ a.picker.phase = "Resuming" => e.kind = "switch"
  /\ a.picker.phase = "Deleting" => e.kind = "delete"

\* and the effect finds the screen as the intent or the event that led to it left it.
Finds(a, e) ==
  /\ e.kind \in {"startThread", "persistThread", "startTurn"} => a.turn.kind = "Starting"
  /\ e.kind = "startThread" => a.thread.kind = "None"
  /\ e.kind \in {"persistThread", "startTurn"} => a.thread.kind = "Ready"
  /\ e.kind \in {"startThread", "new"} => a.provider = "Codex" /\ a.auth.kind = "SignedIn"
  /\ e.kind = "resume" => /\ a.thread = Resuming(e.id) /\ a.scope # NoScope
                          /\ a.auth = SignedIn(a.scope)
  /\ e.kind = "switch" => /\ a.auth.kind = "SignedIn" /\ a.auth.scope # NoScope
                          /\ e.id \in Threads
  /\ e.kind = "login" => a.auth.kind = "SignedOut"
  /\ e.kind \in {"cancel", "cancelRead"} => a.auth.kind = "SigningIn"
  /\ e.kind = "startup" => a.connection = "Disconnected"

EffectInv ==
  /\ Waits(app, effect) /\ Finds(app, effect)
  /\ effect.kind \in {"startThread", "new"} => next.thread \in Threads

\* The account shown is the app-server's, or will be read.
AuthInv ==
  ~deaf /\ wire = "open" /\ app.connection = "Ready" =>
    \/ AccountShown = server.account
    \/ \E i \in 1..Len(events) : events[i].kind = "AccountUpdated"
    \/ effect.kind = "read"

\* What was not saved yet will be.
SavedInv ==
  /\ Valid(saved)
  /\ ~unsaved => \/ saved.pointer = app.pointer
                 \/ effect.kind \in {"persist", "persistThread"}

Inv == /\ TypeOK /\ Screen(app) /\ EffectInv /\ AuthInv /\ SavedInv
       /\ StreamEnds /\ ThreadIsKept

-----------------------------------------------------------------------------
(* The values of the screen and their types.                               *)

\* No thread is not one of them.
LEMMA ThreadIds ==
  /\ None \in SomeThread /\ Threads \subseteq SomeThread /\ SomeThread \subseteq Nat
  /\ None \notin Threads /\ NoScope \in Scopes /\ 1 \in Threads
BY CodexAssumption DEF None, SomeThread, Threads, NoScope, Scopes

\* The states of a thread.
LEMMA ThreadsType ==
  /\ NoThread \in ThreadType /\ NoThread.kind = "None"
  /\ \A t \in SomeThread :
       /\ Ready(t) \in ThreadType /\ Ready(t).kind = "Ready" /\ Ready(t).id = t
       /\ Resuming(t) \in ThreadType /\ Resuming(t).kind = "Resuming" /\ Resuming(t).id = t
       /\ ResumeFailed(t) \in ThreadType /\ ResumeFailed(t).kind = "ResumeFailed"
       /\ ResumeFailed(t).id = t
       /\ AccountMismatch(t) \in ThreadType /\ AccountMismatch(t).kind = "AccountMismatch"
       /\ AccountMismatch(t).id = t
BY ThreadIds
   DEF NoThread, Ready, Resuming, ResumeFailed, AccountMismatch, ThreadType

\* A thread is its state and its id.
LEMMA ThreadIsItsState ==
  ASSUME NEW th \in ThreadType
  PROVE  /\ th.kind = "Ready" => th = Ready(th.id)
         /\ th.kind = "Resuming" => th = Resuming(th.id)
         /\ th.id \in SomeThread
BY DEF ThreadType, Ready, Resuming

\* The states of a turn.
LEMMA TurnsType ==
  /\ TurnIs("Idle") \in TurnType /\ TurnIs("Idle").kind = "Idle"
  /\ TurnIs("Starting") \in TurnType /\ TurnIs("Starting").kind = "Starting"
  /\ \A t \in SomeThread, u \in Nat :
       /\ Streaming(t, u) \in TurnType /\ Streaming(t, u).kind = "Streaming"
       /\ Streaming(t, u).thread = t /\ Streaming(t, u).turn = u
BY ThreadIds DEF TurnIs, Streaming, TurnType, None

\* The states of the account.
LEMMA AuthsType ==
  /\ \A kind \in {"Unknown", "SignedOut", "SigningIn", "SignedIn", "Unsupported"} :
       AuthIs(kind) \in AuthType /\ AuthIs(kind).kind = kind
  /\ \A l \in Nat : /\ SigningIn(l) \in AuthType /\ SigningIn(l).kind = "SigningIn"
                    /\ SigningIn(l).login = l
  /\ \A s \in Scopes : /\ SignedIn(s) \in AuthType /\ SignedIn(s).kind = "SignedIn"
                       /\ SignedIn(s).scope = s
BY ThreadIds DEF AuthIs, SigningIn, SignedIn, AuthType, None

\* The states of the picker.
LEMMA PickersType ==
  /\ Closed \in PickerType /\ Closed.phase = "closed"
  /\ \A phase \in {"Loading", "Ready", "Failed"}, threads \in SUBSET Threads :
       Picker(phase, threads) \in PickerType /\ Picker(phase, threads).phase = phase
BY DEF Closed, Picker, PickerType

-----------------------------------------------------------------------------
(* The reducer.                                                            *)

BusyPhases == {"Loading", "Resuming", "Deleting"}

\* Nothing on the screen waits for an effect.
Calm(a) == /\ a.turn.kind # "Starting" /\ a.thread.kind # "Resuming"
           /\ a.picker.phase \notin BusyPhases

\* Nothing is shown, and nothing streams, that was not before.
ShowsNoMore(a, b) ==
  /\ b.thread.kind = "Ready" => b.thread = a.thread
  /\ b.turn.kind = "Streaming" => b.turn = a.turn
  /\ b.pointer = a.pointer

\* The preferences are as they were.
SamePreferences(a, b) ==
  /\ b.provider = a.provider /\ b.pointer = a.pointer
  /\ b.scope = a.scope /\ b.registry = a.registry

\* What keeps the preferences and shows nothing more, and no thread of an account that is
\* newly signed in, keeps the screen consistent.
LEMMA ScreenKept ==
  ASSUME NEW a, NEW b, Screen(a), SamePreferences(a, b),
         b.thread = a.thread \/ b.thread.kind = "None" \/
           (b.thread.kind # "Ready" /\ b.thread.id = a.pointer /\ a.pointer # None),
         b.turn = a.turn \/ b.turn.kind = "Idle",
         b.auth = a.auth \/ b.thread.kind # "Ready" \/ b.auth.kind # "SignedIn"
  PROVE  Screen(b) /\ (b.thread.kind = "Ready" => b.thread = a.thread) /\ b.pointer = a.pointer
BY DEF Screen, SamePreferences, TurnActive

\* LoginFailed signs out and changes nothing else.
LEMMA LoginFailedDoes ==
  ASSUME NEW a \in AppType, Screen(a)
  PROVE  LET b == LoginFailed(a)
         IN /\ b \in AppType /\ Screen(b) /\ ShowsNoMore(a, b) /\ SamePreferences(a, b)
            /\ b.connection = a.connection /\ b.auth.kind = "SignedOut"
            /\ b.thread = a.thread /\ b.turn = a.turn /\ b.picker = a.picker
<1> DEFINE b == LoginFailed(a)
<1>1. AuthIs("SignedOut") \in AuthType /\ AuthIs("SignedOut").kind = "SignedOut"
  BY AuthsType
<1>2. /\ b \in AppType /\ SamePreferences(a, b) /\ b.auth = AuthIs("SignedOut")
      /\ b.connection = a.connection /\ b.thread = a.thread /\ b.turn = a.turn
      /\ b.picker = a.picker
  BY <1>1 DEF LoginFailed, AppType, SamePreferences
<1> HIDE DEF b
<1>3. Screen(b)
  BY <1>1, <1>2, ScreenKept
<1> QED BY <1>1, <1>2, <1>3 DEF ShowsNoMore, SamePreferences, b

\* TurnOperationFailed ends the turn and changes nothing else.
LEMMA TurnFailedDoes ==
  ASSUME NEW a \in AppType, Screen(a)
  PROVE  LET b == TurnFailed(a)
         IN /\ b \in AppType /\ Screen(b) /\ ShowsNoMore(a, b) /\ SamePreferences(a, b)
            /\ b.connection = a.connection /\ b.auth = a.auth
            /\ b.thread = a.thread /\ ~TurnActive(b) /\ b.picker = a.picker
<1> DEFINE b == TurnFailed(a)
<1>1. TurnIs("Idle") \in TurnType /\ TurnIs("Idle").kind = "Idle"
  BY TurnsType
<1>2. /\ b \in AppType /\ SamePreferences(a, b) /\ b.auth = a.auth
      /\ b.connection = a.connection /\ b.thread = a.thread /\ b.picker = a.picker
      /\ b.turn = a.turn \/ b.turn.kind = "Idle"
      /\ ~TurnActive(b)
  BY <1>1 DEF TurnFailed, AppType, SamePreferences, TurnActive
<1> HIDE DEF b
<1>3. Screen(b)
  BY <1>2, ScreenKept
<1> QED BY <1>2, <1>3 DEF ShowsNoMore, SamePreferences, TurnActive, b

\* A picker that is open fails.
LEMMA FailedPickerDoes ==
  ASSUME NEW a \in AppType
  PROVE  FailedPicker(a) \in PickerType /\ FailedPicker(a).phase \in {"closed", "Failed"}
<1>1. a.picker \in PickerType
  BY DEF AppType
<1> QED BY <1>1, PickersType DEF FailedPicker, PickerType

\* ConnectionFailed ends the turn, and the picker if it is Codex's.
LEMMA ConnectionFailedDoes ==
  ASSUME NEW a \in AppType, Screen(a)
  PROVE  LET b == ConnectionFailed(a)
         IN /\ b \in AppType /\ Screen(b) /\ ShowsNoMore(a, b) /\ SamePreferences(a, b)
            /\ b.connection = "Failed" /\ b.auth = a.auth
            /\ b.thread = a.thread /\ ~TurnActive(b)
            /\ b.picker = a.picker \/ b.picker.phase \in {"closed", "Failed"}
<1> DEFINE failed == [a EXCEPT !.connection = "Failed"]
           c == [failed EXCEPT !.picker = FailedPicker(a)]
<1>1. /\ failed \in AppType /\ SamePreferences(a, failed) /\ failed.connection = "Failed"
      /\ failed.auth = a.auth /\ failed.thread = a.thread /\ failed.turn = a.turn
      /\ failed.picker = a.picker
  BY DEF AppType, SamePreferences
<1>2. Screen(failed)
  BY <1>1, ScreenKept
<1> HIDE DEF failed
<1>3. CASE a.provider = "Codex"
  <2>1. /\ c \in AppType /\ SamePreferences(a, c) /\ c.connection = "Failed"
        /\ c.auth = a.auth /\ c.thread = a.thread /\ c.turn = a.turn
        /\ c.picker.phase \in {"closed", "Failed"}
    BY <1>1, FailedPickerDoes DEF AppType, SamePreferences
  <2>2. ConnectionFailed(a) = TurnFailed(c)
    BY <1>3 DEF ConnectionFailed, failed
  <2> HIDE DEF c
  <2>3. Screen(c)
    BY <2>1, ScreenKept
  <2> QED BY <2>1, <2>2, <2>3, TurnFailedDoes DEF ShowsNoMore, SamePreferences
<1>4. CASE a.provider # "Codex"
  <2>1. ConnectionFailed(a) = failed
    BY <1>4 DEF ConnectionFailed, failed
  <2>2. ~TurnActive(a)
    BY <1>4 DEF Screen, AppType, Providers
  <2> QED BY <1>1, <1>2, <2>1, <2>2 DEF ShowsNoMore, SamePreferences, TurnActive
<1> QED BY <1>3, <1>4

\* SafetyViolation does so whichever provider is active.
LEMMA SafetyViolationDoes ==
  ASSUME NEW a \in AppType, Screen(a)
  PROVE  LET b == SafetyViolation(a)
         IN /\ b \in AppType /\ Screen(b) /\ ShowsNoMore(a, b) /\ SamePreferences(a, b)
            /\ b.connection = "Failed" /\ b.auth = a.auth
            /\ b.thread = a.thread /\ ~TurnActive(b)
            /\ b.picker.phase \in {"closed", "Failed"}
<1> DEFINE c == [a EXCEPT !.connection = "Failed", !.picker = FailedPicker(a)]
<1>1. /\ c \in AppType /\ SamePreferences(a, c) /\ c.connection = "Failed"
      /\ c.auth = a.auth /\ c.thread = a.thread /\ c.turn = a.turn
      /\ c.picker.phase \in {"closed", "Failed"}
  BY FailedPickerDoes DEF AppType, SamePreferences
<1>2. SafetyViolation(a) = TurnFailed(c)
  BY DEF SafetyViolation
<1> HIDE DEF c
<1>3. Screen(c)
  BY <1>1, ScreenKept
<1> QED BY <1>1, <1>2, <1>3, TurnFailedDoes DEF ShowsNoMore, SamePreferences

\* However a call fails that changes something: the turn ends.
LEMMA MutatingErrorDoes ==
  ASSUME NEW a \in AppType, Screen(a), NEW o
  PROVE  LET b == MutatingError(o, a)
         IN /\ b \in AppType /\ Screen(b) /\ ShowsNoMore(a, b)
            /\ b.connection \in {a.connection, "Failed"} /\ b.auth = a.auth
            /\ b.thread = a.thread /\ ~TurnActive(b)
            /\ b.picker = a.picker \/ b.picker.phase \in {"closed", "Failed"}
BY TurnFailedDoes, ConnectionFailedDoes, SafetyViolationDoes DEF MutatingError

\* A call that failed may have ended the connection.
LEMMA FailedIfFatalDoes ==
  ASSUME NEW a \in AppType, Screen(a), NEW o
  PROVE  LET b == FailedIfFatal(o, a)
         IN /\ b \in AppType /\ Screen(b) /\ ShowsNoMore(a, b) /\ SamePreferences(a, b)
            /\ b.connection \in {a.connection, "Failed"} /\ b.auth = a.auth
            /\ b.thread = a.thread /\ (b.turn = a.turn \/ ~TurnActive(b))
            /\ b.picker = a.picker \/ b.picker.phase \in {"closed", "Failed"}
<1>1. ShowsNoMore(a, a) /\ SamePreferences(a, a)
  BY DEF ShowsNoMore, SamePreferences
<1> QED BY <1>1, ConnectionFailedDoes DEF FailedIfFatal

\* LoggedOut detaches the thread and the turn, if they are Codex's.
LEMMA LoggedOutDoes ==
  ASSUME NEW a \in AppType, Screen(a)
  PROVE  LET b == LoggedOut(a)
         IN /\ b \in AppType /\ Screen(b) /\ ShowsNoMore(a, b)
            /\ b.connection = a.connection /\ b.auth.kind = "SignedOut"
            /\ b.thread = a.thread \/ b.thread.kind = "None"
            /\ b.turn = a.turn \/ b.turn.kind = "Idle"
            /\ b.picker = a.picker \/ b.picker.phase = "closed"
<1> DEFINE out == [a EXCEPT !.auth = AuthIs("SignedOut")]
           c == [out EXCEPT !.thread = NoThread, !.turn = TurnIs("Idle"), !.picker = Closed]
<1>1. AuthIs("SignedOut") \in AuthType /\ AuthIs("SignedOut").kind = "SignedOut"
  BY AuthsType
<1>2. /\ out \in AppType /\ SamePreferences(a, out) /\ out.auth = AuthIs("SignedOut")
      /\ out.connection = a.connection /\ out.thread = a.thread /\ out.turn = a.turn
      /\ out.picker = a.picker
  BY <1>1 DEF AppType, SamePreferences
<1> HIDE DEF out
<1>3. Screen(out)
  BY <1>1, <1>2, ScreenKept
<1>4. CASE a.provider = "Codex"
  <2>1. /\ c \in AppType /\ SamePreferences(a, c) /\ c.auth = AuthIs("SignedOut")
        /\ c.connection = a.connection /\ c.thread = NoThread /\ c.turn = TurnIs("Idle")
        /\ c.picker = Closed
    BY <1>2, ThreadsType, TurnsType, PickersType DEF AppType, SamePreferences
  <2>2. LoggedOut(a) = c
    BY <1>4 DEF LoggedOut, Detached, out
  <2> HIDE DEF c
  <2>3. Screen(c)
    BY <1>1, <2>1, ScreenKept, ThreadsType, TurnsType
  <2> QED
    BY <1>1, <2>1, <2>2, <2>3, ThreadsType, TurnsType, PickersType
       DEF ShowsNoMore, SamePreferences
<1>5. CASE a.provider # "Codex"
  <2>1. LoggedOut(a) = out
    BY <1>5 DEF LoggedOut, out
  <2> QED BY <1>1, <1>2, <1>3, <2>1 DEF ShowsNoMore, SamePreferences
<1> QED BY <1>4, <1>5

\* So does an account that cannot be used; the saved thread stays named.
LEMMA UnsupportedAccountDoes ==
  ASSUME NEW a \in AppType, Screen(a)
  PROVE  LET b == UnsupportedAccount(a)
         IN /\ b \in AppType /\ Screen(b) /\ ShowsNoMore(a, b)
            /\ b.connection = a.connection /\ b.auth.kind = "Unsupported"
            /\ b.thread = a.thread \/ b.thread.kind \in {"None", "AccountMismatch"}
            /\ b.turn = a.turn \/ b.turn.kind = "Idle"
            /\ b.picker = a.picker \/ b.picker.phase = "closed"
<1> DEFINE out == [a EXCEPT !.auth = AuthIs("Unsupported")]
           thread == IF a.pointer = None THEN NoThread ELSE AccountMismatch(a.pointer)
           c == [out EXCEPT !.thread = thread, !.turn = TurnIs("Idle"), !.picker = Closed]
<1>1. AuthIs("Unsupported") \in AuthType /\ AuthIs("Unsupported").kind = "Unsupported"
  BY AuthsType
<1>2. /\ out \in AppType /\ SamePreferences(a, out) /\ out.auth = AuthIs("Unsupported")
      /\ out.connection = a.connection /\ out.thread = a.thread /\ out.turn = a.turn
      /\ out.picker = a.picker
  BY <1>1 DEF AppType, SamePreferences
<1>3. Screen(out)
  BY <1>1, <1>2, ScreenKept
<1>4. CASE a.provider = "Codex"
  <2>0. a.pointer \in SomeThread
    BY DEF AppType
  <2>1. /\ thread \in ThreadType /\ thread.kind \in {"None", "AccountMismatch"}
        /\ thread.kind # "None" => thread.id = a.pointer /\ a.pointer # None
    BY <2>0, ThreadsType
  <2>2. UnsupportedAccount(a) = c
    BY <1>4 DEF UnsupportedAccount, Detached
  <2> HIDE DEF thread, out
  <2>3. /\ c \in AppType /\ SamePreferences(a, c) /\ c.auth = AuthIs("Unsupported")
        /\ c.connection = a.connection /\ c.thread = thread /\ c.turn = TurnIs("Idle")
        /\ c.picker = Closed
    BY <1>2, <2>1, TurnsType, PickersType DEF AppType, SamePreferences
  <2> HIDE DEF c
  <2>4. Screen(c)
    BY <1>1, <2>1, <2>3, ScreenKept, TurnsType
  <2> QED
    BY <1>1, <2>1, <2>2, <2>3, <2>4, TurnsType, PickersType DEF ShowsNoMore, SamePreferences
<1>5. CASE a.provider # "Codex"
  <2>1. UnsupportedAccount(a) = out
    BY <1>5 DEF UnsupportedAccount
  <2> HIDE DEF out
  <2> QED BY <1>1, <1>2, <1>3, <2>1 DEF ShowsNoMore, SamePreferences
<1> QED BY <1>4, <1>5

\* What an account that was read is waited for, when the saved thread is its own.
Awaits(a) == a.thread = Resuming(a.pointer) /\ a.scope # NoScope /\ a.auth = SignedIn(a.scope)

\* AccountLoaded signs in; it detaches what is of another account, and may ask for the saved
\* thread.
LEMMA AccountLoadedDoes ==
  ASSUME NEW a \in AppType, Screen(a), NEW s \in Scopes
  PROVE  LET b == AccountLoaded(a, s)
         IN /\ b \in AppType /\ Screen(b) /\ ShowsNoMore(a, b)
            /\ b.connection = a.connection /\ b.auth = SignedIn(s)
            /\ b.thread.kind = "Resuming" => b.thread = a.thread \/ Awaits(b)
            /\ b.turn = a.turn \/ b.turn.kind = "Idle"
            /\ b.picker = a.picker \/ b.picker.phase = "closed"
<1> DEFINE switched == a.auth.kind = "SignedIn" /\ a.auth.scope # s
           turn == IF switched THEN TurnIs("Idle") ELSE a.turn
           picker == IF switched THEN Closed ELSE a.picker
           With(th, pi) == [a EXCEPT !.auth = SignedIn(s), !.turn = turn, !.picker = pi,
                                     !.thread = th]
           in == [a EXCEPT !.auth = SignedIn(s)]
           seen == [a EXCEPT !.auth = SignedIn(s), !.turn = turn, !.picker = picker]
<1>1. SignedIn(s) \in AuthType /\ SignedIn(s).kind = "SignedIn" /\ SignedIn(s).scope = s
  BY AuthsType
<1>2. /\ turn \in TurnType /\ (turn = a.turn \/ turn.kind = "Idle")
      /\ picker \in PickerType /\ (picker = a.picker \/ picker.phase = "closed")
      /\ a.thread \in ThreadType /\ a.pointer \in SomeThread
  BY TurnsType, PickersType DEF AppType
<1>3. ASSUME NEW th \in ThreadType, NEW pi \in {picker, Closed}
      PROVE  /\ With(th, pi) \in AppType /\ SamePreferences(a, With(th, pi))
             /\ With(th, pi).connection = a.connection /\ With(th, pi).auth = SignedIn(s)
             /\ With(th, pi).thread = th /\ With(th, pi).turn = turn
             /\ With(th, pi).picker = pi
             /\ pi = a.picker \/ pi.phase = "closed"
  <2>1. pi \in PickerType /\ (pi = a.picker \/ pi.phase = "closed")
    BY <1>2, <1>3, PickersType
  <2> HIDE DEF turn, picker
  <2> QED BY <1>1, <1>2, <2>1 DEF AppType, SamePreferences
<1>4. seen = With(a.thread, picker)
  BY DEF AppType
<1>5. ASSUME NEW th \in ThreadType, NEW pi \in {picker, Closed},
             th = a.thread \/ th.kind = "None" \/
               (th.kind # "Ready" /\ th.id = a.pointer /\ a.pointer # None),
             th.kind # "Ready" \/ s = NoScope \/ a.scope = s \/
               (a.auth.kind = "SignedIn" /\ a.auth.scope = s),
             th.kind = "Resuming" =>
               \/ th = a.thread
               \/ th = Resuming(a.pointer) /\ a.scope # NoScope /\ s = a.scope
      PROVE  LET b == With(th, pi)
             IN /\ b \in AppType /\ Screen(b) /\ ShowsNoMore(a, b)
                /\ b.connection = a.connection /\ b.auth = SignedIn(s)
                /\ b.thread.kind = "Resuming" => b.thread = a.thread \/ Awaits(b)
                /\ b.turn = a.turn \/ b.turn.kind = "Idle"
                /\ b.picker = a.picker \/ b.picker.phase = "closed"
  <2> DEFINE b == With(th, pi)
  <2>1. /\ b \in AppType /\ SamePreferences(a, b) /\ b.connection = a.connection
        /\ b.auth = SignedIn(s) /\ b.thread = th /\ b.turn = turn /\ b.picker = pi
        /\ pi = a.picker \/ pi.phase = "closed"
    <3> HIDE DEF turn, picker, With
    <3> QED BY <1>3, <1>5
  <2> HIDE DEF b, turn, picker
  <2>2. Screen(b)
    BY <1>1, <1>2, <1>5, <2>1, ThreadIds DEF Screen, SamePreferences, TurnActive
  <2>3. ShowsNoMore(a, b)
    BY <1>2, <1>5, <2>1 DEF ShowsNoMore, SamePreferences
  <2>4. b.thread.kind = "Resuming" => b.thread = a.thread \/ Awaits(b)
    BY <1>5, <2>1 DEF Awaits, SamePreferences
  <2> QED BY <1>2, <2>1, <2>2, <2>3, <2>4 DEF b
<1>6. CASE a.provider # "Codex"
  <2>1. AccountLoaded(a, s) = in
    BY <1>6 DEF AccountLoaded
  <2>2. /\ in \in AppType /\ SamePreferences(a, in) /\ in.connection = a.connection
        /\ in.auth = SignedIn(s) /\ in.thread = a.thread /\ in.turn = a.turn
        /\ in.picker = a.picker
    BY <1>1 DEF AppType, SamePreferences
  <2> HIDE DEF in
  <2>3. a.thread.kind = "None"
    BY <1>6 DEF Screen, AppType, Providers
  <2>4. Screen(in)
    BY <2>2, <2>3, ScreenKept
  <2> QED BY <2>1, <2>2, <2>3, <2>4 DEF ShowsNoMore, SamePreferences
<1>7. CASE a.provider = "Codex" /\ a.pointer = None
  <2> DEFINE th == IF switched THEN NoThread ELSE a.thread
  <2>1. AccountLoaded(a, s) = With(th, picker)
    BY <1>7, <1>4 DEF AccountLoaded
  <2>2. a.thread.kind = "None"
    BY <1>7 DEF Screen
  <2>3. th \in ThreadType /\ th.kind = "None"
    BY <1>2, <2>2, ThreadsType
  <2> HIDE DEF th, With
  <2> QED BY <1>5, <2>1, <2>3
<1>8. CASE a.provider = "Codex" /\ a.pointer # None /\ (s = NoScope \/ s # a.scope)
  <2>1. AccountLoaded(a, s) = With(AccountMismatch(a.pointer), Closed)
    BY <1>8 DEF AccountLoaded
  <2>2. /\ AccountMismatch(a.pointer) \in ThreadType
        /\ AccountMismatch(a.pointer).kind = "AccountMismatch"
        /\ AccountMismatch(a.pointer).id = a.pointer
    BY <1>2, ThreadsType
  <2> HIDE DEF With
  <2> QED BY <1>5, <1>8, <2>1, <2>2
<1>9. CASE a.provider = "Codex" /\ a.pointer # None /\ ~(s = NoScope \/ s # a.scope)
  <2>1. \/ AccountLoaded(a, s) = With(a.thread, picker)
        \/ AccountLoaded(a, s) = With(Resuming(a.pointer), picker)
    BY <1>4, <1>9 DEF AccountLoaded
  <2>2. /\ Resuming(a.pointer) \in ThreadType /\ Resuming(a.pointer).kind = "Resuming"
        /\ Resuming(a.pointer).id = a.pointer
    BY <1>2, ThreadsType
  <2> HIDE DEF With
  <2> QED BY <1>2, <1>5, <1>9, <2>1, <2>2
<1> QED BY <1>6, <1>7, <1>8, <1>9

\* The account an AppState shows.
Shows(a) == CASE a.auth.kind = "SignedIn"    -> a.auth.scope
              [] a.auth.kind = "Unsupported" -> "unsupported"
              [] OTHER                       -> "signedOut"

\* reduce_account: the account read is the one shown.
LEMMA AccountReadDoes ==
  ASSUME NEW a \in AppType, Screen(a), Calm(a), NEW account \in ServerAccounts
  PROVE  LET b == AccountRead(a, account)
         IN /\ b \in AppType /\ Screen(b) /\ ShowsNoMore(a, b)
            /\ b.connection = a.connection /\ Shows(b) = account
            /\ b.thread.kind = "Resuming" => Awaits(b)
            /\ b.turn.kind # "Starting" /\ b.picker.phase \notin BusyPhases
<1>1. CASE account = "signedOut"
  BY <1>1, LoggedOutDoes DEF AccountRead, Calm, Shows, BusyPhases
<1>2. CASE account = "unsupported"
  BY <1>2, UnsupportedAccountDoes DEF AccountRead, Calm, Shows, BusyPhases
<1>3. CASE account \notin {"signedOut", "unsupported"}
  <2>1. account \in Scopes /\ AccountRead(a, account) = AccountLoaded(a, account)
    BY <1>3 DEF AccountRead, ServerAccounts
  <2> QED BY <2>1, AccountLoadedDoes, AuthsType DEF Calm, Shows, BusyPhases
<1> QED BY <1>1, <1>2, <1>3

\* A thread that is adopted is the account's that is signed in, in the preferences too.
LEMMA AdoptedDoes ==
  ASSUME NEW a \in AppType, NEW t \in Threads, a.auth.kind = "SignedIn"
  PROVE  LET b == Adopted(a, t)
         IN /\ b \in AppType /\ b.thread = Ready(t) /\ b.pointer = t /\ b.scope = a.auth.scope
            /\ b.scope # NoScope => b.registry[t] = b.scope
            /\ b.provider = a.provider /\ b.connection = a.connection /\ b.auth = a.auth
            /\ b.turn = a.turn /\ b.picker = a.picker
<1> DEFINE c == [a EXCEPT !.thread = Ready(t), !.pointer = t,
                          !.scope = IF a.auth.kind = "SignedIn" THEN a.auth.scope ELSE @]
           d == [c EXCEPT !.registry = [c.registry EXCEPT ![t] = c.auth.scope]]
<1>1. Ready(t) \in ThreadType /\ t \in SomeThread /\ a.auth.scope \in Scopes
  BY ThreadIds, ThreadsType DEF AppType, AuthType
<1>2. /\ c \in AppType /\ c.thread = Ready(t) /\ c.pointer = t /\ c.scope = a.auth.scope
      /\ c.provider = a.provider /\ c.connection = a.connection /\ c.auth = a.auth
      /\ c.turn = a.turn /\ c.picker = a.picker
  BY <1>1 DEF AppType
<1>3. Adopted(a, t) = Registered(c, t)
  BY DEF Adopted
<1> HIDE DEF c
<1>4. CASE a.auth.scope = NoScope
  <2>1. Registered(c, t) = c
    BY <1>2, <1>4 DEF Registered
  <2> QED BY <1>2, <1>3, <1>4, <2>1
<1>5. CASE a.auth.scope # NoScope
  <2>1. Registered(c, t) = d
    BY <1>2, <1>5 DEF Registered
  <2>2. c.registry \in [Threads -> Scopes] /\ c.auth.scope \in Scopes
    BY <1>1, <1>2 DEF AppType
  <2>3. [c.registry EXCEPT ![t] = c.auth.scope] \in [Threads -> Scopes]
    BY <2>2
  <2>4. /\ d \in AppType /\ d.registry = [c.registry EXCEPT ![t] = c.auth.scope]
        /\ d.thread = c.thread /\ d.pointer = c.pointer /\ d.scope = c.scope
        /\ d.provider = c.provider /\ d.connection = c.connection /\ d.auth = c.auth
        /\ d.turn = c.turn /\ d.picker = c.picker
    BY <1>2, <2>3 DEF AppType
  <2>5. d.registry[t] = c.auth.scope
    BY <2>2, <2>4
  <2> HIDE DEF d
  <2> QED BY <1>2, <1>3, <2>1, <2>4, <2>5
<1> QED BY <1>4, <1>5

\* A screen that shows a thread of the account that is signed in is consistent.
LEMMA AdoptedScreen ==
  ASSUME NEW b, NEW t \in Threads, b.provider = "Codex", b.thread = Ready(t), b.pointer = t,
         b.scope = b.auth.scope, b.scope # NoScope => b.registry[t] = b.scope,
         b.turn.kind # "Streaming"
  PROVE  Screen(b)
BY ThreadIds, ThreadsType DEF Screen

\* Another turn on the same screen.
LEMMA TurnChanges ==
  ASSUME NEW a \in AppType, NEW turn \in TurnType
  PROVE  LET b == [a EXCEPT !.turn = turn]
         IN /\ b \in AppType /\ SamePreferences(a, b) /\ b.connection = a.connection
            /\ b.auth = a.auth /\ b.thread = a.thread /\ b.turn = turn /\ b.picker = a.picker
            /\ b.models = a.models
BY DEF AppType, SamePreferences

\* Another picker on the same screen.
LEMMA PickerChanges ==
  ASSUME NEW a \in AppType, Screen(a), NEW picker \in PickerType
  PROVE  LET b == [a EXCEPT !.picker = picker]
         IN /\ b \in AppType /\ SamePreferences(a, b) /\ b.connection = a.connection
            /\ b.auth = a.auth /\ b.thread = a.thread /\ b.turn = a.turn /\ b.picker = picker
            /\ Screen(b) /\ ShowsNoMore(a, b)
<1> DEFINE b == [a EXCEPT !.picker = picker]
<1>1. /\ b \in AppType /\ SamePreferences(a, b) /\ b.connection = a.connection
      /\ b.auth = a.auth /\ b.thread = a.thread /\ b.turn = a.turn /\ b.picker = picker
  BY DEF AppType, SamePreferences
<1> HIDE DEF b
<1> QED BY <1>1, ScreenKept DEF ShowsNoMore, SamePreferences, b

\* TurnStarted: the turn that was starting streams, in the thread on the screen.
LEMMA TurnStartedDoes ==
  ASSUME NEW a \in AppType, Screen(a), NEW t \in Threads, NEW u \in Nat,
         a.thread = Ready(t), a.turn.kind = "Starting"
  PROVE  LET b == TurnStarted(a, t, u)
         IN /\ b \in AppType /\ Screen(b) /\ SamePreferences(a, b)
            /\ b.connection = a.connection /\ b.auth = a.auth /\ b.thread = a.thread
            /\ b.turn = Streaming(t, u) /\ b.picker = a.picker
<1> DEFINE b == [a EXCEPT !.turn = Streaming(t, u)]
<1>1. /\ Streaming(t, u) \in TurnType /\ Streaming(t, u).kind = "Streaming"
      /\ Streaming(t, u).thread = t
      /\ Ready(t).kind = "Ready" /\ Ready(t).id = t
  BY ThreadIds, ThreadsType, TurnsType
<1>2. /\ b \in AppType /\ SamePreferences(a, b) /\ b.connection = a.connection
      /\ b.auth = a.auth /\ b.thread = a.thread /\ b.turn = Streaming(t, u)
      /\ b.picker = a.picker
  BY <1>1, TurnChanges
<1>3. TurnStarted(a, t, u) = b
  BY DEF TurnStarted
<1> HIDE DEF b
<1>4. Screen(b)
  BY <1>1, <1>2 DEF Screen, SamePreferences, TurnActive
<1> QED BY <1>2, <1>3, <1>4

\* ThreadStarted: the turn that is starting has a thread.
LEMMA ThreadStartedDoes ==
  ASSUME NEW a \in AppType, NEW t \in Threads, a.provider = "Codex",
         a.auth.kind = "SignedIn", a.thread.kind = "None", a.turn.kind = "Starting"
  PROVE  LET b == ThreadStarted(a, t)
         IN /\ b \in AppType /\ Screen(b) /\ b.pointer = t
            /\ b.connection = a.connection /\ b.auth = a.auth /\ b.thread = Ready(t)
            /\ b.turn = a.turn /\ b.picker = a.picker
<1>1. ThreadStarted(a, t) = Adopted(a, t)
  BY DEF ThreadStarted
<1> QED BY <1>1, AdoptedDoes, AdoptedScreen

\* NewThreadSucceeded: the new thread takes the screen, or nothing changes.
LEMMA NewThreadSucceededDoes ==
  ASSUME NEW a \in AppType, Screen(a), NEW t \in Threads, a.provider = "Codex",
         a.auth.kind = "SignedIn"
  PROVE  LET b == NewThreadSucceeded(a, t, a.auth.scope)
         IN \/ b = a
            \/ /\ b \in AppType /\ Screen(b) /\ b.pointer = t /\ b.connection = a.connection
               /\ b.auth = a.auth /\ b.thread = Ready(t) /\ b.turn.kind = "Idle"
               /\ b.picker = Closed
<1> DEFINE c == Adopted(a, t)
           b == [c EXCEPT !.turn = TurnIs("Idle"), !.picker = Closed]
<1>1. /\ c \in AppType /\ c.thread = Ready(t) /\ c.pointer = t /\ c.scope = a.auth.scope
      /\ c.scope # NoScope => c.registry[t] = c.scope
      /\ c.provider = a.provider /\ c.connection = a.connection /\ c.auth = a.auth
  BY AdoptedDoes
<1> HIDE DEF c
<1>2. /\ b \in AppType /\ SamePreferences(c, b) /\ b.connection = c.connection
      /\ b.auth = c.auth /\ b.thread = c.thread /\ b.turn = TurnIs("Idle")
      /\ b.picker = Closed
  BY <1>1, TurnsType, PickersType DEF AppType, SamePreferences
<1>3. NewThreadSucceeded(a, t, a.auth.scope) = b \/ NewThreadSucceeded(a, t, a.auth.scope) = a
  BY DEF NewThreadSucceeded, c
<1> HIDE DEF b
<1>4. Screen(b)
  BY <1>1, <1>2, AdoptedScreen, TurnsType DEF SamePreferences
<1> QED BY <1>1, <1>2, <1>3, <1>4, TurnsType DEF SamePreferences

\* ThreadSwitchSucceeded: the thread takes the screen from whatever was there.
LEMMA ThreadSwitchSucceededDoes ==
  ASSUME NEW a \in AppType, NEW t \in Threads, a.auth.kind = "SignedIn"
  PROVE  LET b == ThreadSwitchSucceeded(a, t)
         IN /\ b \in AppType /\ Screen(b) /\ b.pointer = t /\ b.connection = a.connection
            /\ b.auth = a.auth /\ b.thread = Ready(t) /\ b.turn.kind = "Idle"
            /\ b.picker = Closed
<1> DEFINE c == Adopted(a, t)
           b == [c EXCEPT !.provider = "Codex", !.turn = TurnIs("Idle"), !.picker = Closed]
<1>1. /\ c \in AppType /\ c.thread = Ready(t) /\ c.pointer = t /\ c.scope = a.auth.scope
      /\ c.scope # NoScope => c.registry[t] = c.scope
      /\ c.connection = a.connection /\ c.auth = a.auth
  BY AdoptedDoes
<1>2. ThreadSwitchSucceeded(a, t) = b
  BY DEF ThreadSwitchSucceeded
<1> HIDE DEF c
<1>3. /\ b \in AppType /\ b.provider = "Codex" /\ b.connection = c.connection
      /\ b.auth = c.auth /\ b.thread = c.thread /\ b.turn = TurnIs("Idle")
      /\ b.picker = Closed /\ b.pointer = c.pointer /\ b.scope = c.scope
      /\ b.registry = c.registry
  BY <1>1, TurnsType, PickersType DEF AppType, Providers
<1> HIDE DEF b
<1>4. Screen(b)
  BY <1>1, <1>3, AdoptedScreen, TurnsType
<1> QED BY <1>1, <1>2, <1>3, <1>4, TurnsType

\* ResumeSucceeded: the saved thread is there again, as its account's.
LEMMA ResumeSucceededDoes ==
  ASSUME NEW a \in AppType, Screen(a), NEW t \in Threads, a.thread = Resuming(t),
         a.scope # NoScope, a.auth = SignedIn(a.scope)
  PROVE  LET b == ResumeSucceeded(a, t)
         IN /\ b \in AppType /\ Screen(b) /\ b.pointer = a.pointer
            /\ b.connection = a.connection /\ b.auth = a.auth /\ b.thread = Ready(t)
            /\ b.turn.kind = "Idle" /\ b.picker = a.picker
<1> DEFINE c == [a EXCEPT !.thread = Ready(t), !.turn = TurnIs("Idle"), !.pointer = t]
           d == [c EXCEPT !.registry = [c.registry EXCEPT ![t] = c.auth.scope]]
<1>1. /\ t \in SomeThread /\ Ready(t) \in ThreadType /\ Resuming(t).kind = "Resuming"
      /\ Resuming(t).id = t
      /\ SignedIn(a.scope).kind = "SignedIn" /\ SignedIn(a.scope).scope = a.scope
  BY ThreadIds, ThreadsType, AuthsType DEF AppType
<1>2. /\ c \in AppType /\ c.thread = Ready(t) /\ c.pointer = t /\ c.scope = a.scope
      /\ c.provider = a.provider /\ c.connection = a.connection /\ c.auth = a.auth
      /\ c.turn = TurnIs("Idle") /\ c.picker = a.picker
  BY <1>1, TurnsType DEF AppType
<1>3. a.pointer = t /\ a.provider = "Codex"
  BY <1>1 DEF Screen, AppType, Providers
<1>4. ResumeSucceeded(a, t) = Registered(c, t)
  BY DEF ResumeSucceeded
<1> HIDE DEF c
<1>5. Registered(c, t) = d
  BY <1>1, <1>2 DEF Registered
<1>6. c.registry \in [Threads -> Scopes] /\ c.auth.scope \in Scopes
  BY <1>1, <1>2 DEF AppType
<1>7. [c.registry EXCEPT ![t] = c.auth.scope] \in [Threads -> Scopes]
  BY <1>6
<1>8. /\ d \in AppType /\ d.registry = [c.registry EXCEPT ![t] = c.auth.scope]
      /\ d.thread = c.thread /\ d.pointer = c.pointer /\ d.scope = c.scope
      /\ d.provider = c.provider /\ d.connection = c.connection /\ d.auth = c.auth
      /\ d.turn = c.turn /\ d.picker = c.picker
  BY <1>2, <1>7 DEF AppType
<1>9. d.registry[t] = d.scope /\ d.scope = d.auth.scope
  BY <1>1, <1>2, <1>6, <1>8
<1> HIDE DEF d
<1>10. Screen(d)
  <2>1. d.provider = "Codex" /\ d.thread = Ready(t) /\ d.pointer = t /\ d.turn.kind = "Idle"
    BY <1>2, <1>3, <1>8, TurnsType
  <2> QED BY <1>8, <1>9, <2>1, AdoptedScreen
<1> QED BY <1>2, <1>3, <1>4, <1>5, <1>8, <1>10, TurnsType

\* ThreadListLoaded fills the picker.
LEMMA ThreadListLoadedDoes ==
  ASSUME NEW a \in AppType, Screen(a), NEW threads \in SUBSET Threads
  PROVE  LET b == ThreadListLoaded(a, threads)
         IN /\ b \in AppType /\ SamePreferences(a, b) /\ b.connection = a.connection
            /\ b.auth = a.auth /\ b.thread = a.thread /\ b.turn = a.turn
            /\ b.picker.phase = "Ready" /\ Screen(b) /\ ShowsNoMore(a, b)
<1> DEFINE own == {t \in threads : /\ a.auth.kind = "SignedIn" /\ a.auth.scope # NoScope
                                   /\ a.registry[t] = a.auth.scope}
<1>1. Picker("Ready", own) \in PickerType /\ Picker("Ready", own).phase = "Ready"
  BY PickersType
<1>2. ThreadListLoaded(a, threads) = [a EXCEPT !.picker = Picker("Ready", own)]
  BY DEF ThreadListLoaded
<1> HIDE DEF own
<1> QED BY <1>1, <1>2, PickerChanges

\* ThreadDeletionFinished takes what was deleted from the picker and the registry, but for
\* the thread of the pointer.
LEMMA ThreadDeletionFinishedDoes ==
  ASSUME NEW a \in AppType, Screen(a), NEW deleted \in SUBSET Threads
  PROVE  LET b == ThreadDeletionFinished(a, deleted)
         IN /\ b \in AppType /\ b.pointer = a.pointer /\ b.connection = a.connection
            /\ b.auth = a.auth /\ b.thread = a.thread /\ b.turn = a.turn
            /\ b.picker.phase = "Ready" /\ Screen(b) /\ ShowsNoMore(a, b)
<1> DEFINE safe == {t \in deleted : ~IsActive(a, t)}
           picker == Picker("Ready", a.picker.threads \ safe)
           registry == [t \in Threads |-> IF t \in safe THEN NoScope ELSE a.registry[t]]
           b == [a EXCEPT !.picker = picker, !.registry = registry]
<1>0. a.picker.threads \ safe \in SUBSET Threads
  BY DEF AppType, PickerType
<1>1. picker \in PickerType /\ picker.phase = "Ready"
  BY <1>0, PickersType
<1>2. registry \in [Threads -> Scopes]
  BY ThreadIds DEF AppType
<1>3. a.pointer # None => registry[a.pointer] = a.registry[a.pointer]
  <2>1. SUFFICES ASSUME a.pointer # None PROVE registry[a.pointer] = a.registry[a.pointer]
    OBVIOUS
  <2>2. a.provider = "Codex" /\ a.pointer \in Threads
    BY <2>1 DEF Screen, AppType, Providers, SomeThread
  <2>3. IsActive(a, a.pointer)
    BY <2>1, <2>2 DEF IsActive, ActiveSaved
  <2> QED BY <2>2, <2>3
<1>4. ThreadDeletionFinished(a, deleted) = b
  BY DEF ThreadDeletionFinished
<1> HIDE DEF safe, picker, registry
<1>5. /\ b \in AppType /\ b.provider = a.provider /\ b.pointer = a.pointer
      /\ b.scope = a.scope /\ b.registry = registry
      /\ b.connection = a.connection /\ b.auth = a.auth /\ b.thread = a.thread
      /\ b.turn = a.turn /\ b.picker = picker
  BY <1>1, <1>2 DEF AppType
<1> HIDE DEF b
<1>6. Screen(b)
  BY <1>3, <1>5 DEF Screen, TurnActive
<1> QED BY <1>1, <1>4, <1>5, <1>6 DEF ShowsNoMore

\* A new process shows nothing of the preferences it starts with.
LEMMA InitialDoes ==
  ASSUME NEW p \in PreferencesType, Valid(p)
  PROVE  /\ Initial(p) \in AppType /\ Screen(Initial(p)) /\ Calm(Initial(p))
         /\ Initial(p).pointer = p.pointer /\ Initial(p).connection = "Disconnected"
         /\ Initial(p).thread.kind = "None" /\ Initial(p).turn.kind = "Idle"
<1> DEFINE registry == Loaded(p).registry  b == Initial(p)
<1>1. /\ registry \in [Threads -> Scopes]
      /\ p.pointer # None /\ p.scope # NoScope => registry[p.pointer] = p.scope
  <2>1. p.registry \in [Threads -> Scopes] /\ p.pointer \in SomeThread /\ p.scope \in Scopes
    BY DEF PreferencesType
  <2>2. CASE p.pointer # None /\ p.scope # NoScope /\ p.registry[p.pointer] = NoScope
    <3>1. registry = [p.registry EXCEPT ![p.pointer] = p.scope]
      BY <2>2 DEF Loaded, PreferencesType
    <3>2. p.pointer \in Threads
      BY <2>1, <2>2 DEF SomeThread
    <3> QED BY <2>1, <3>1, <3>2
  <2>3. CASE ~(p.pointer # None /\ p.scope # NoScope /\ p.registry[p.pointer] = NoScope)
    BY <2>1, <2>3 DEF Loaded, Valid
  <2> QED BY <2>2, <2>3
<1>2. b = [provider |-> p.provider, connection |-> "Disconnected", auth |-> AuthIs("Unknown"),
           models |-> FALSE, thread |-> NoThread, turn |-> TurnIs("Idle"), picker |-> Closed,
           pointer |-> p.pointer, scope |-> p.scope, registry |-> registry]
  BY DEF Initial
<1> HIDE DEF registry, b
<1>3. b \in AppType
  BY <1>1, <1>2, AuthsType, ThreadsType, TurnsType, PickersType DEF AppType, PreferencesType
<1>4. /\ b.provider = p.provider /\ b.connection = "Disconnected" /\ b.thread.kind = "None"
      /\ b.turn.kind = "Idle" /\ b.picker.phase = "closed"
      /\ b.pointer = p.pointer /\ b.scope = p.scope /\ b.registry = registry
  BY <1>2, ThreadsType, TurnsType, PickersType
<1>5. p.provider = "Other" => p.pointer = None
  BY DEF Valid
<1>6. Screen(b)
  BY <1>1, <1>4, <1>5 DEF Screen, TurnActive
<1> QED BY <1>3, <1>4, <1>6 DEF Calm, BusyPhases, b

-----------------------------------------------------------------------------
(* Calls, saves and the queue.                                             *)

\* A call that went well was carried out, by a connection that is open.
LEMMA OutcomesAre ==
  ASSUME TypeOK, NEW o \in Outcomes
  PROVE  /\ o.fault \in BOOLEAN /\ o.heard \in {"ok", "failed", "timeout", "denied"}
         /\ o.heard = "ok" => o.done
         /\ o.done => wire = "open"
<1>1. CASE wire = "open"
  <2>1. \/ o = Outcome("ok", TRUE)
        \/ o \in [heard : {"failed", "timeout"}, done : BOOLEAN, fault : {TRUE}]
    BY <1>1 DEF Outcomes
  <2>2. CASE o = Outcome("ok", TRUE)
    BY <1>1, <2>2 DEF Outcome
  <2>3. CASE o \in [heard : {"failed", "timeout"}, done : BOOLEAN, fault : {TRUE}]
    BY <1>1, <2>3
  <2> QED BY <2>1, <2>2, <2>3
<1>2. CASE wire # "open"
  <2>1. o = Outcome("denied", FALSE) \/ o = Outcome("failed", FALSE)
    BY <1>2 DEF Outcomes
  <2>2. CASE o = Outcome("denied", FALSE)
    BY <2>2 DEF Outcome
  <2>3. CASE o = Outcome("failed", FALSE)
    BY <2>3 DEF Outcome
  <2> QED BY <2>1, <2>2, <2>3
<1> QED BY <1>1, <1>2

\* About a thread: only one that is there.
LEMMA OutcomesOnAre ==
  ASSUME TypeOK, NEW t, NEW o \in OutcomesOn(t)
  PROVE  /\ o.fault \in BOOLEAN /\ o.heard \in {"ok", "failed", "timeout", "denied"}
         /\ o.heard = "ok" => o.done /\ t \in server.threads
         /\ o.done => wire = "open"
<1>1. CASE o \in Outcomes /\ (o.done => t \in server.threads)
  BY <1>1, OutcomesAre
<1>2. CASE o = Outcome("failed", FALSE)
  BY <1>2 DEF Outcome
<1> QED BY <1>1, <1>2 DEF OutcomesOn

\* Faults are counted.
LEMMA CountedType ==
  ASSUME TypeOK, NEW fault, Counted(fault)
  PROVE  counts' \in CountsType
BY DEF Counted, TypeOK, CountsType

\* An effect that follows is none, or one of the kind that is named.
LEMMA ThenDoes ==
  ASSUME TypeOK, NEW kind \in {"none", "cancelRead", "persist", "persistThread", "startTurn"},
         Then(kind)
  PROVE  effect' \in EffectType /\ effect'.kind = kind
BY DEF Then, Effect, NoEffect, None, TypeOK, EffectType

\* Effects and their fields.
LEMMA EffectsType ==
  /\ NoEffect \in EffectType /\ NoEffect.kind = "none"
  /\ \A kind \in {"startup", "login", "cancel", "logout", "read", "new", "resume", "list",
                  "switch", "delete", "startThread", "startTurn", "interrupt", "persist"},
        id \in Nat :
       /\ Effect(kind, id) \in EffectType /\ Effect(kind, id).kind = kind
       /\ Effect(kind, id).id = id
BY DEF Effect, NoEffect, None, EffectType

\* A child that ended has its account and its threads.
LEMMA StoppedType ==
  ASSUME NEW srv \in ServerType
  PROVE  /\ Stopped(srv) \in ServerType /\ Stopped(srv).account = srv.account
         /\ Stopped(srv).threads = srv.threads
BY DEF Stopped, ServerType, None

\* What the app-server says is queued, or ends the connection.
LEMMA TellDoes ==
  ASSUME TypeOK, NEW srv \in ServerType, NEW notes \in Seq(NoteType), Tell(srv, notes)
  PROVE  /\ wire' \in {"open", "closed", "denied", "gone"}
         /\ events' \in Seq(NoteType) /\ Len(events') <= QueueCapacity
         /\ server' \in ServerType /\ server'.account = srv.account
         /\ server'.threads = srv.threads
         /\ wire' = "open" => /\ wire = "open" /\ server' = srv /\ events' = events \o notes
         /\ wire # "open" => /\ wire' = wire /\ server' = srv /\ events' = events
         /\ wire = "open" /\ wire' # "open" => wire' = "closed"
<1>1. CASE wire = "open" /\ Len(events) + Len(notes) > QueueCapacity
  <2> DEFINE room == QueueCapacity - Len(events)
             told == SubSeq(notes, 1, room)
  <2>1. /\ wire' = "closed" /\ events' = events \o told /\ server' = Stopped(srv)
    BY <1>1 DEF Tell
  <2>2. events \in Seq(NoteType) /\ Len(events) \in Nat /\ Len(notes) \in Nat
    BY DEF TypeOK
  <2>3. room \in Nat /\ room <= Len(notes)
    BY <1>1, <2>2, CodexAssumption DEF TypeOK
  <2>4. told \in Seq(NoteType) /\ Len(told) = room
    BY <2>3
  <2>5. events' \in Seq(NoteType) /\ Len(events') = Len(events) + room
    BY <2>1, <2>2, <2>4
  <2>6. Len(events') <= QueueCapacity
    BY <2>2, <2>5, CodexAssumption
  <2> QED BY <1>1, <2>1, <2>5, <2>6, StoppedType
<1>2. CASE wire = "open" /\ ~(Len(events) + Len(notes) > QueueCapacity)
  <2>1. events' = events \o notes /\ server' = srv /\ wire' = wire
    BY <1>2 DEF Tell
  <2>2. /\ events \in Seq(NoteType) /\ Len(events) \in Nat /\ Len(notes) \in Nat
        /\ QueueCapacity \in Nat
    BY CodexAssumption DEF TypeOK
  <2>3. events' \in Seq(NoteType) /\ Len(events') = Len(events) + Len(notes)
    BY <2>1, <2>2
  <2>4. Len(events') <= QueueCapacity
    BY <1>2, <2>2, <2>3
  <2> QED BY <1>2, <2>1, <2>3, <2>4
<1>3. CASE wire # "open"
  BY <1>3 DEF Tell, TypeOK
<1> QED BY <1>1, <1>2, <1>3

\* An account notification that is queued is not lost by queueing more.
LEMMA QueueKeeps ==
  ASSUME NEW q \in Seq(NoteType), NEW notes \in Seq(NoteType), NEW i \in 1..Len(q)
  PROVE  i \in 1..Len(q \o notes) /\ (q \o notes)[i] = q[i]
OBVIOUS

\* Nor by receiving the first of the queue, unless it is that.
LEMMA TailKeeps ==
  ASSUME NEW q \in Seq(NoteType), q # <<>>, NEW i \in 1..Len(q), i # 1
  PROVE  i - 1 \in 1..Len(Tail(q)) /\ Tail(q)[i - 1] = q[i]
OBVIOUS

-----------------------------------------------------------------------------
(* How the parts of the invariant are kept.                                *)

\* Nothing waits, and the effect at hand needs nothing of the screen.
LEMMA CalmIsSettled ==
  ASSUME NEW a, NEW e, Calm(a),
         e.kind \in {"none", "cancelRead", "delete", "logout", "read", "interrupt", "persist"},
         e.kind = "cancelRead" => a.auth.kind = "SigningIn"
  PROVE  Waits(a, e) /\ Finds(a, e)
BY DEF Calm, BusyPhases, Waits, Finds

\* A screen that nothing waits for has nothing that waits.
LEMMA SettledIsCalm ==
  ASSUME NEW a, NEW e, Waits(a, e),
         e.kind \notin {"startThread", "persistThread", "startTurn", "resume", "list",
                        "switch", "delete"}
  PROVE  Calm(a)
BY DEF Calm, BusyPhases, Waits

\* A step that leaves the connection and the files alone, and takes nothing from the
\* app-server.
LEMMA ScreenStep ==
  ASSUME Inv, TypeOK', Screen(app'), EffectInv',
         Silently, CallKeeps,
         server'.account = server.account, server.running \subseteq server'.running,
         server.threads \subseteq server'.threads,
         app'.connection = "Ready" => app.connection = "Ready" \/ Shows(app') = server.account,
         Shows(app') = Shows(app) \/ Shows(app') = server.account,
         effect.kind = "read" => Shows(app') = server.account,
         app'.thread.kind = "Ready" => app'.thread = app.thread \/ app'.thread.id \in server'.threads,
         app'.turn.kind = "Streaming" =>
           app'.turn = app.turn \/ <<app'.turn.thread, app'.turn.turn>> \in server'.running,
         app'.pointer = app.pointer \/
           /\ effect'.kind \in {"persist", "persistThread"}
           /\ app'.pointer \in server'.threads \cup {None},
         effect.kind \in {"persist", "persistThread"} => effect' = effect
  PROVE  Inv'
<1>1. AuthInv'
  BY DEF Inv, AuthInv, AccountShown, Shows, Silently, CallKeeps
<1>2. SavedInv'
  BY DEF Inv, SavedInv, CallKeeps
<1>3. StreamEnds'
  BY DEF Inv, StreamEnds, Silently, CallKeeps
<1>4. ThreadIsKept'
  BY DEF Inv, ThreadIsKept, CallKeeps
<1> QED BY <1>1, <1>2, <1>3, <1>4 DEF Inv

-----------------------------------------------------------------------------
(* Intents.                                                                *)

\* An effect at hand is one that nothing waits for, unless it is its own.
LEMMA FreeIsCalm ==
  ASSUME Inv, CoordinatorFree
  PROVE  Calm(app)
BY SettledIsCalm DEF Inv, EffectInv, CoordinatorFree

\* An intent shows no thread and starts no stream; what it forgets is saved.
LEMMA IntentTakes ==
  ASSUME Inv, CoordinatorFree, NEW a \in AppType, NEW e \in EffectType, Takes(a, e),
         Screen(a), Waits(a, e), Finds(a, e),
         e.kind \in {"startThread", "new"} => next.thread \in Threads,
         a.connection = app.connection, a.auth = app.auth,
         a.thread.kind = "Ready" => a.thread = app.thread,
         a.turn.kind = "Streaming" => a.turn = app.turn,
         a.pointer = app.pointer \/ (a.pointer = None /\ e.kind = "persist")
  PROVE  Inv'
<1>1. /\ app' = a /\ effect' = e /\ Silently /\ CallKeeps /\ server' = server
      /\ next' = next /\ counts' = counts
  BY DEF Takes, StepKeeps
<1>2. TypeOK'
  BY <1>1 DEF Inv, TypeOK, Silently, CallKeeps
<1>3. EffectInv'
  BY <1>1 DEF EffectInv
<1>4. Shows(app') = Shows(app)
  BY <1>1 DEF Shows
<1> QED BY <1>1, <1>2, <1>3, <1>4, ScreenStep DEF CoordinatorFree

\* The preferences, the account and the connection on the screen.
LEMMA ScreenOf ==
  ASSUME Inv
  PROVE  /\ app \in AppType /\ Screen(app) /\ app.picker \in PickerType
         /\ app.thread \in ThreadType /\ app.turn \in TurnType /\ app.auth \in AuthType
         /\ app.auth.login \in Nat /\ app.auth.scope \in Scopes
         /\ effect \in EffectType /\ server \in ServerType
         /\ Waits(app, effect) /\ Finds(app, effect)
BY DEF Inv, TypeOK, AppType, AuthType, EffectInv

\* An intent that only asks for an effect.
LEMMA AsksOnly ==
  ASSUME Inv, CoordinatorFree, NEW e \in EffectType, Takes(app, e), Finds(app, e),
         e.kind \in {"startThread", "new"} => next.thread \in Threads
  PROVE  Inv'
<1>1. Waits(app, e)
  BY FreeIsCalm DEF Calm, BusyPhases, Waits
<1> QED BY <1>1, ScreenOf, IntentTakes

\* The intents about the account, a new thread and an interrupt only ask for an effect.
LEMMA AskingIntents ==
  ASSUME Inv, Login \/ Logout \/ NewThread \/ Interrupt
  PROVE  Inv'
<1>1. CASE Login
  <2>1. Effect("login", None) \in EffectType /\ Effect("login", None).kind = "login"
    BY EffectsType DEF None
  <2> QED BY <1>1, <2>1, AsksOnly DEF Login, Finds
<1>2. CASE Logout
  <2>1. /\ Effect("logout", None) \in EffectType /\ Effect("logout", None).kind = "logout"
        /\ Effect("cancel", app.auth.login) \in EffectType
        /\ Effect("cancel", app.auth.login).kind = "cancel"
    BY ScreenOf, EffectsType DEF None
  <2> QED BY <1>2, <2>1, AsksOnly DEF Logout, Finds
<1>3. CASE NewThread
  <2>1. Effect("new", None) \in EffectType /\ Effect("new", None).kind = "new"
    BY EffectsType DEF None
  <2> QED BY <1>3, <2>1, AsksOnly DEF NewThread, MayAct, Finds
<1>4. CASE Interrupt
  <2>1. /\ Effect("interrupt", None) \in EffectType
        /\ Effect("interrupt", None).kind = "interrupt"
    BY EffectsType DEF None
  <2> QED BY <1>4, <2>1, AsksOnly DEF Interrupt, Finds
<1> QED BY <1>1, <1>2, <1>3, <1>4

\* An intent that only changes the picker, and may ask for an effect of the picker.
LEMMA PicksOnly ==
  ASSUME Inv, CoordinatorFree, NEW picker \in PickerType, NEW e \in EffectType,
         Takes([app EXCEPT !.picker = picker], e),
         e.kind \in {"none", "list", "switch", "delete"},
         picker.phase = "Loading" => e.kind = "list",
         picker.phase = "Resuming" => e.kind = "switch",
         picker.phase = "Deleting" => e.kind = "delete",
         e.kind = "switch" =>
           app.auth.kind = "SignedIn" /\ app.auth.scope # NoScope /\ e.id \in Threads
  PROVE  Inv'
<1> DEFINE a == [app EXCEPT !.picker = picker]
<1>1. /\ a \in AppType /\ SamePreferences(app, a) /\ a.connection = app.connection
      /\ a.auth = app.auth /\ a.thread = app.thread /\ a.turn = app.turn
      /\ a.picker = picker /\ Screen(a)
  BY ScreenOf, PickerChanges
<1>2. Takes(a, e)
  OBVIOUS
<1> HIDE DEF a
<1>3. Calm(app)
  BY FreeIsCalm
<1>4. Waits(a, e)
  BY <1>1, <1>3 DEF Calm, Waits
<1>5. Finds(a, e)
  BY <1>1 DEF Finds
<1> QED BY <1>1, <1>2, <1>4, <1>5, IntentTakes DEF SamePreferences

\* The intents about the picker change nothing else.
LEMMA PickingIntents ==
  ASSUME Inv,
         \/ Resume \/ PickerClose \/ CancelDelete \/ ConfirmDelete
         \/ \E t \in Threads : PickerSelect(t) \/ RequestDelete(t)
         \/ \E mixed \in BOOLEAN : RequestClear(mixed)
  PROVE  Inv'
<1>1. /\ Closed \in PickerType /\ Closed.phase = "closed"
      /\ NoEffect \in EffectType /\ NoEffect.kind = "none"
      /\ app.picker \in PickerType /\ app \in AppType
  BY PickersType, EffectsType, ScreenOf
<1>2. CASE Resume
  <2>1. /\ Effect("list", None) \in EffectType /\ Effect("list", None).kind = "list"
        /\ Picker("Loading", {}) \in PickerType /\ Picker("Loading", {}).phase = "Loading"
    BY EffectsType, PickersType DEF None
  <2> QED BY <1>2, <2>1, PicksOnly DEF Resume
<1>3. CASE PickerClose
  BY <1>1, <1>3, PicksOnly DEF PickerClose
<1>4. CASE CancelDelete
  <2> DEFINE picker == [app.picker EXCEPT !.targets = {}, !.mixed = FALSE]
  <2>1. picker \in PickerType /\ picker.phase = app.picker.phase
    BY <1>1 DEF PickerType
  <2>2. /\ CoordinatorFree
        /\ Takes([app EXCEPT !.picker.targets = {}, !.picker.mixed = FALSE], NoEffect)
    BY <1>4 DEF CancelDelete
  <2>3. [app EXCEPT !.picker.targets = {}, !.picker.mixed = FALSE] = [app EXCEPT !.picker = picker]
    BY <1>1 DEF AppType, PickerType
  <2> HIDE DEF picker
  <2>4. app.picker.phase \notin BusyPhases
    BY <2>2, FreeIsCalm DEF Calm
  <2> QED BY <1>1, <2>1, <2>2, <2>3, <2>4, PicksOnly DEF BusyPhases
<1>5. CASE ConfirmDelete
  <2> DEFINE picker == [app.picker EXCEPT !.targets = {}, !.mixed = FALSE]
             asked == [app EXCEPT !.picker.targets = {}, !.picker.mixed = FALSE]
             deleting == [picker EXCEPT !.phase = "Deleting"]
             e == [Effect("delete", None) EXCEPT !.left = app.picker.targets,
                                                 !.mixed = app.picker.mixed]
  <2>1. /\ picker \in PickerType /\ picker.phase = app.picker.phase
        /\ deleting \in PickerType /\ deleting.phase = "Deleting"
    BY <1>1 DEF PickerType
  <2>2. e \in EffectType /\ e.kind = "delete"
    <3>1. /\ Effect("delete", None) \in EffectType /\ Effect("delete", None).kind = "delete"
          /\ app.picker.targets \in SUBSET Threads /\ app.picker.mixed \in BOOLEAN
      BY <1>1, EffectsType DEF None, PickerType
    <3> QED BY <3>1 DEF EffectType
  <2>3. /\ CoordinatorFree /\ app.picker.phase = "Ready"
        /\ \/ Takes(asked, NoEffect)
           \/ Takes([asked EXCEPT !.picker.phase = "Deleting"], e)
    BY <1>5 DEF ConfirmDelete
  <2>4. /\ asked = [app EXCEPT !.picker = picker]
        /\ [asked EXCEPT !.picker.phase = "Deleting"] = [app EXCEPT !.picker = deleting]
    BY <1>1 DEF AppType, PickerType
  <2> HIDE DEF picker, asked, deleting, e
  <2> QED BY <1>1, <2>1, <2>2, <2>3, <2>4, PicksOnly
<1>6. ASSUME NEW t \in Threads, PickerSelect(t) PROVE Inv'
  <2>1. CoordinatorFree /\ app.picker.phase = "Ready"
    BY <1>6 DEF PickerSelect, Choosing
  <2>2. CASE Takes([app EXCEPT !.picker = Closed], NoEffect)
    BY <1>1, <2>1, <2>2, PicksOnly
  <2>3. CASE /\ app.auth.kind = "SignedIn" /\ app.auth.scope # NoScope
             /\ Takes([app EXCEPT !.picker.phase = "Resuming"], Effect("switch", t))
    <3> DEFINE picker == [app.picker EXCEPT !.phase = "Resuming"]
    <3>1. picker \in PickerType /\ picker.phase = "Resuming"
      BY <1>1 DEF PickerType
    <3>2. [app EXCEPT !.picker.phase = "Resuming"] = [app EXCEPT !.picker = picker]
      BY <1>1 DEF AppType
    <3>3. /\ Effect("switch", t) \in EffectType /\ Effect("switch", t).kind = "switch"
          /\ Effect("switch", t).id = t
      BY EffectsType, ThreadIds
    <3> HIDE DEF picker
    <3> QED BY <2>1, <2>3, <3>1, <3>2, <3>3, PicksOnly
  <2> QED BY <1>6, <2>2, <2>3 DEF PickerSelect
<1>7. ASSUME NEW targets \in SUBSET Threads, NEW mixed \in BOOLEAN, Choosing,
             \/ Takes([app EXCEPT !.picker.targets = targets], NoEffect)
             \/ Takes([app EXCEPT !.picker.targets = targets, !.picker.mixed = mixed], NoEffect)
      PROVE  Inv'
  <2> DEFINE one == [app.picker EXCEPT !.targets = targets]
             all == [app.picker EXCEPT !.targets = targets, !.mixed = mixed]
  <2>1. /\ one \in PickerType /\ one.phase = app.picker.phase
        /\ all \in PickerType /\ all.phase = app.picker.phase
    BY <1>1 DEF PickerType
  <2>2. /\ [app EXCEPT !.picker.targets = targets] = [app EXCEPT !.picker = one]
        /\ [app EXCEPT !.picker.targets = targets, !.picker.mixed = mixed]
             = [app EXCEPT !.picker = all]
    BY <1>1 DEF AppType, PickerType
  <2>3. CoordinatorFree /\ app.picker.phase = "Ready"
    BY <1>7 DEF Choosing
  <2> HIDE DEF one, all
  <2> QED BY <1>1, <1>7, <2>1, <2>2, <2>3, PicksOnly
<1>8. ASSUME NEW t \in Threads, RequestDelete(t) PROVE Inv'
  BY <1>7, <1>8 DEF RequestDelete
<1>9. ASSUME NEW mixed \in BOOLEAN, RequestClear(mixed) PROVE Inv'
  <2> DEFINE targets == {t \in app.picker.threads : ~IsActive(app, t)}
  <2>1. targets \in SUBSET Threads
    BY <1>1 DEF PickerType
  <2>2. /\ Choosing
        /\ Takes([app EXCEPT !.picker.targets = targets, !.picker.mixed = mixed], NoEffect)
    BY <1>9 DEF RequestClear
  <2> HIDE DEF targets
  <2> QED BY <1>7, <2>1, <2>2
<1> QED BY <1>2, <1>3, <1>4, <1>5, <1>6, <1>8, <1>9

\* An intent that leaves Codex, or comes to it, starts a blank conversation.
LEMMA BlankDoes ==
  ASSUME Inv, NEW provider \in Providers, NEW picker \in {app.picker, Closed}
  PROVE  LET a == [Blank(provider) EXCEPT !.picker = picker]
         IN /\ a \in AppType /\ Screen(a) /\ a.connection = app.connection
            /\ a.auth = app.auth /\ a.thread.kind = "None" /\ a.turn.kind = "Idle"
            /\ a.picker = picker /\ a.pointer = None
<1> DEFINE blank == Blank(provider)  a == [blank EXCEPT !.picker = picker]
<1>1. /\ blank \in AppType /\ blank.provider = provider /\ blank.pointer = None
      /\ blank.thread = NoThread /\ blank.turn = TurnIs("Idle")
      /\ blank.connection = app.connection /\ blank.auth = app.auth
      /\ blank.picker = app.picker
  BY ScreenOf, ThreadIds, ThreadsType, TurnsType DEF Blank, AppType
<1> HIDE DEF blank
<1>2. picker \in PickerType
  BY ScreenOf, PickersType
<1>3. /\ a \in AppType /\ a.provider = provider /\ a.pointer = None
      /\ a.thread = NoThread /\ a.turn = TurnIs("Idle")
      /\ a.connection = app.connection /\ a.auth = app.auth
      /\ a.picker = picker
  BY <1>1, <1>2 DEF AppType
<1> HIDE DEF a
<1>4. Screen(a)
  BY <1>3, ThreadsType, TurnsType DEF Screen, TurnActive
<1> QED BY <1>3, <1>4, ThreadsType, TurnsType DEF a, blank

\* Leaving Codex counts the switch.
LEMMA LeavingTakes ==
  ASSUME Inv, CoordinatorFree, NEW a \in AppType, Leaves(a),
         Screen(a), Calm(a), a.connection = app.connection, a.auth = app.auth,
         a.thread.kind = "None", a.turn.kind = "Idle", a.pointer = None
  PROVE  Inv'
<1>1. Effect("persist", None) \in EffectType /\ Effect("persist", None).kind = "persist"
  BY EffectsType DEF None
<1>2. /\ app' = a /\ effect' = Effect("persist", None) /\ Silently /\ CallKeeps
      /\ server' = server /\ next' = next
      /\ counts' = [counts EXCEPT !.switches = @ + 1]
  BY DEF Leaves
<1>3. counts' \in CountsType
  BY <1>2 DEF Inv, TypeOK, CountsType
<1>4. TypeOK'
  BY <1>1, <1>2, <1>3 DEF Inv, TypeOK, Silently, CallKeeps
<1>5. EffectInv'
  BY <1>1, <1>2, CalmIsSettled DEF EffectInv
<1>6. Shows(app') = Shows(app)
  BY <1>2 DEF Shows
<1> QED BY <1>1, <1>2, <1>4, <1>5, <1>6, ScreenStep DEF CoordinatorFree

\* The intents that change the provider.
LEMMA LeavingIntents ==
  ASSUME Inv, PickerSelectOther \/ \E provider \in Providers : SwitchProvider(provider)
  PROVE  Inv'
<1>1. CASE PickerSelectOther
  <2>1. CoordinatorFree /\ Leaves([Blank("Other") EXCEPT !.picker = Closed])
    BY <1>1 DEF PickerSelectOther, Choosing
  <2>2. "Other" \in Providers
    BY DEF Providers
  <2> QED BY <2>1, <2>2, BlankDoes, LeavingTakes, PickersType DEF Calm, BusyPhases
<1>2. ASSUME NEW provider \in Providers, SwitchProvider(provider) PROVE Inv'
  <2> DEFINE blank == Blank(provider)
  <2>1. CoordinatorFree /\ (Leaves(blank) \/ Takes(blank, Effect("persist", None)))
    BY <1>2 DEF SwitchProvider
  <2>2. blank = [blank EXCEPT !.picker = app.picker]
    BY ScreenOf DEF Blank, AppType
  <2>3. /\ blank \in AppType /\ Screen(blank) /\ blank.connection = app.connection
        /\ blank.auth = app.auth /\ blank.thread.kind = "None" /\ blank.turn.kind = "Idle"
        /\ blank.picker = app.picker /\ blank.pointer = None
    <3> DEFINE same == [blank EXCEPT !.picker = app.picker]
    <3>1. /\ same \in AppType /\ Screen(same) /\ same.connection = app.connection
          /\ same.auth = app.auth /\ same.thread.kind = "None" /\ same.turn.kind = "Idle"
          /\ same.picker = app.picker /\ same.pointer = None
      BY <1>2, BlankDoes
    <3> HIDE DEF blank
    <3> QED BY <2>2, <3>1
  <2>4. Effect("persist", None) \in EffectType /\ Effect("persist", None).kind = "persist"
    BY EffectsType DEF None
  <2> HIDE DEF blank
  <2>5. Calm(blank)
    BY <2>1, <2>3, FreeIsCalm DEF Calm
  <2>6. Waits(blank, Effect("persist", None)) /\ Finds(blank, Effect("persist", None))
    BY <2>4, <2>5, CalmIsSettled
  <2> QED BY <2>1, <2>3, <2>4, <2>5, <2>6, IntentTakes, LeavingTakes
<1> QED BY <1>1, <1>2

\* A message starts a turn, in the thread on the screen or a new one.
LEMMA SendMessageKeeps ==
  ASSUME Inv, SendMessage
  PROVE  Inv'
<1> DEFINE a == [app EXCEPT !.turn = TurnIs("Starting")]
           e == Effect(IF app.thread.kind = "None" THEN "startThread" ELSE "startTurn", None)
<1>1. /\ CoordinatorFree /\ Takes(a, e) /\ app.provider = "Codex"
      /\ app.auth.kind = "SignedIn" /\ app.thread.kind \in {"None", "Ready"}
      /\ app.thread.kind = "None" => next.thread \in Threads
  BY DEF SendMessage, MaySend, MayAct
<1>2. /\ e \in EffectType
      /\ e.kind = IF app.thread.kind = "None" THEN "startThread" ELSE "startTurn"
  BY EffectsType DEF None
<1>3. /\ a \in AppType /\ SamePreferences(app, a) /\ a.connection = app.connection
      /\ a.auth = app.auth /\ a.thread = app.thread /\ a.turn = TurnIs("Starting")
      /\ a.picker = app.picker
  BY ScreenOf, TurnChanges, TurnsType
<1> HIDE DEF a, e
<1>4. Screen(a)
  BY <1>1, <1>3, ScreenOf, TurnsType DEF Screen, SamePreferences, Providers
<1>5. Calm(app)
  BY <1>1, FreeIsCalm
<1>6. Waits(a, e)
  BY <1>2, <1>3, <1>5 DEF Waits, Calm, BusyPhases
<1>7. Finds(a, e)
  BY <1>1, <1>2, <1>3, TurnsType DEF Finds, SamePreferences
<1> QED BY <1>1, <1>2, <1>3, <1>4, <1>6, <1>7, IntentTakes, TurnsType DEF SamePreferences

\* Every intent.
LEMMA IntentsKeep ==
  ASSUME Inv, Intents
  PROVE  Inv'
BY AskingIntents, PickingIntents, LeavingIntents, SendMessageKeeps DEF Intents

-----------------------------------------------------------------------------
(* Effects: startup and the account.                                       *)

\* What a call leaves alone.
LEMMA QuietCall ==
  ASSUME Inv, Silently, CallKeeps, app' \in AppType, effect' \in EffectType,
         counts' \in CountsType, server' \in ServerType,
         next' \in [thread : Nat, turn : Nat, login : Nat]
  PROVE  TypeOK'
BY DEF Inv, TypeOK, Silently, CallKeeps

\* An account that was taken may ask for the saved thread.
LEMMA AccountTakenDoes ==
  ASSUME Inv, Calm(app), NEW a, AccountTaken(a), a \in AppType, Screen(a),
         a.thread.kind = "Resuming" => Awaits(a),
         a.turn.kind # "Starting", a.picker.phase \notin BusyPhases
  PROVE  /\ effect' \in EffectType /\ effect'.kind \in {"none", "resume"}
         /\ app' = a /\ EffectInv'
<1>1. app' = a
  BY DEF AccountTaken
<1>2. CASE a.thread.kind = "Resuming"
  <2>1. effect' = [Effect("resume", a.thread.id) EXCEPT !.event = effect.event]
    BY <1>2 DEF AccountTaken, Calm
  <2>2. /\ a.thread.id \in Nat /\ effect.event \in BOOLEAN
        /\ a.thread = Resuming(a.thread.id)
    BY <1>2, ScreenOf, ThreadIds, ThreadIsItsState DEF AppType, EffectType
  <2>3. /\ Effect("resume", a.thread.id) \in EffectType
        /\ Effect("resume", a.thread.id).kind = "resume"
        /\ Effect("resume", a.thread.id).id = a.thread.id
    BY <2>2, EffectsType
  <2>4. /\ effect' \in EffectType /\ effect'.kind = "resume" /\ effect'.id = a.thread.id
    BY <2>1, <2>2, <2>3 DEF EffectType
  <2>5. Awaits(a)
    BY <1>2
  <2>6. Waits(a, effect')
    BY <2>4 DEF Waits, BusyPhases
  <2>7. Finds(a, effect')
    BY <2>2, <2>4, <2>5 DEF Finds, Awaits
  <2> QED BY <1>1, <2>4, <2>6, <2>7 DEF EffectInv
<1>3. CASE a.thread.kind # "Resuming"
  <2>1. effect' = NoEffect
    BY <1>3 DEF AccountTaken
  <2>2. Calm(a)
    BY <1>3 DEF Calm
  <2> QED BY <1>1, <2>1, <2>2, CalmIsSettled, EffectsType DEF EffectInv
<1> QED BY <1>2, <1>3

\* What is read of the account is shown, and nothing that was not on the screen.
LEMMA AccountReadStep ==
  ASSUME Inv, Calm(app), NEW b, b \in AppType, Screen(b), Calm(b), ShowsNoMore(app, b),
         effect.kind \in {"startup", "cancelRead", "read"},
         AccountTaken(AccountRead(b, server.account)),
         Silently, CallKeeps, server' = server, next' = next, counts' \in CountsType
  PROVE  Inv'
<1> DEFINE a == AccountRead(b, server.account)
<1>1. server.account \in ServerAccounts
  BY ScreenOf DEF ServerType
<1>2. /\ a \in AppType /\ Screen(a) /\ ShowsNoMore(b, a) /\ Shows(a) = server.account
      /\ a.thread.kind = "Resuming" => Awaits(a)
      /\ a.turn.kind # "Starting" /\ a.picker.phase \notin BusyPhases
  BY <1>1, AccountReadDoes
<1>3. AccountTaken(a)
  OBVIOUS
<1> HIDE DEF a
<1>4. /\ effect' \in EffectType /\ effect'.kind \in {"none", "resume"}
      /\ app' = a /\ EffectInv'
  BY <1>2, <1>3, AccountTakenDoes
<1>5. TypeOK'
  BY <1>2, <1>4, QuietCall, ScreenOf DEF Inv, TypeOK
<1>6. ShowsNoMore(app, a)
  BY <1>2 DEF ShowsNoMore
<1> QED BY <1>2, <1>4, <1>5, <1>6, ScreenStep DEF ShowsNoMore

\* A call that ends without one to follow, and shows nothing more.
LEMMA SettlesStep ==
  ASSUME Inv, NEW a \in AppType, app' = a, Screen(a), Calm(a), ShowsNoMore(app, a),
         effect' \in EffectType, effect'.kind = "none",
         effect.kind \notin {"read", "persist", "persistThread"},
         a.connection \in {app.connection, "Failed"}, Shows(a) = Shows(app),
         Silently, CallKeeps, server' \in ServerType, server'.account = server.account,
         server.running \subseteq server'.running, server.threads \subseteq server'.threads,
         next' \in [thread : Nat, turn : Nat, login : Nat], counts' \in CountsType
  PROVE  Inv'
<1>1. TypeOK'
  BY QuietCall
<1>2. EffectInv'
  BY CalmIsSettled DEF EffectInv
<1> QED BY <1>1, <1>2, ScreenStep DEF ShowsNoMore

\* A connection that fails with its session.
LEMMA DroppedStep ==
  ASSUME Inv, Calm(app), app' = ConnectionFailed(app), Dropped,
         effect' \in EffectType, effect'.kind = "none", CallKeeps, next' = next, counts' \in CountsType,
         effect.kind \notin {"persist", "persistThread"}
  PROVE  Inv'
<1>1. /\ app' \in AppType /\ Screen(app') /\ ShowsNoMore(app, app')
      /\ app'.connection = "Failed" /\ app'.thread = app.thread /\ ~TurnActive(app')
      /\ app'.picker = app.picker \/ app'.picker.phase \in {"closed", "Failed"}
  BY ScreenOf, ConnectionFailedDoes
<1>2. Calm(app')
  BY <1>1 DEF Calm, BusyPhases, TurnActive
<1>3. /\ wire' = "gone" /\ events' = <<>> /\ server' \in ServerType
      /\ server'.threads = server.threads
  BY ScreenOf, StoppedType DEF Dropped
<1>4. events' \in Seq(NoteType) /\ Len(events') <= QueueCapacity
  BY <1>3, CodexAssumption
<1>5. TypeOK'
  BY <1>1, <1>3, <1>4 DEF Inv, TypeOK, CallKeeps
<1>6. EffectInv'
  BY <1>2, CalmIsSettled DEF EffectInv
<1>7. AuthInv'
  BY <1>3 DEF AuthInv
<1>8. SavedInv'
  BY <1>1 DEF Inv, SavedInv, CallKeeps, ShowsNoMore
<1>9. StreamEnds'
  BY <1>1 DEF StreamEnds, TurnActive
<1>10. ThreadIsKept'
  BY <1>1, <1>3 DEF Inv, ThreadIsKept, CallKeeps, ShowsNoMore
<1> QED BY <1>1, <1>5, <1>6, <1>7, <1>8, <1>9, <1>10 DEF Inv

\* The app-server does something and says so.
LEMMA TellStep ==
  ASSUME Inv, TypeOK', Screen(app'), EffectInv', CallKeeps, wire = "open",
         NEW srv \in ServerType, NEW notes \in Seq(NoteType), Tell(srv, notes),
         srv.threads = server.threads,
         app'.connection = app.connection, ShowsNoMore(app, app'),
         \/ \E i \in 1..Len(notes) : notes[i].kind = "AccountUpdated"
         \/ Shows(app') = srv.account
         \/ /\ Shows(app') = Shows(app) /\ srv.account = server.account
            /\ effect.kind = "read" => effect'.kind = "read",
         \A r \in server.running :
           r \in srv.running \/
             \E i \in 1..Len(notes) : notes[i] = Note("TurnFinished", r[1], r[2]),
         effect.kind \in {"persist", "persistThread"} => effect' = effect
  PROVE  Inv'
<1>1. /\ server'.account = srv.account /\ server'.threads = srv.threads
      /\ wire' = "open" => server' = srv /\ events' = events \o notes
      /\ wire' # "open" => wire' = "closed"
      /\ events \in Seq(NoteType)
  BY TellDoes DEF Inv, TypeOK
<1>2. ASSUME wire' = "open", NEW i \in 1..Len(notes)
      PROVE  \E j \in 1..Len(events') : events'[j] = notes[i]
  <2>1. Len(events) + i \in 1..Len(events') /\ events'[Len(events) + i] = notes[i]
    BY <1>1, <1>2
  <2> QED BY <2>1
<1>3. ASSUME wire' = "open", NEW i \in 1..Len(events)
      PROVE  i \in 1..Len(events') /\ events'[i] = events[i]
  BY <1>1, <1>3, QueueKeeps
<1>4. AuthInv'
  <2>1. SUFFICES ASSUME ~deaf', wire' = "open", app'.connection = "Ready"
                 PROVE  \/ Shows(app') = server'.account
                        \/ \E i \in 1..Len(events') : events'[i].kind = "AccountUpdated"
                        \/ effect'.kind = "read"
    BY DEF AuthInv, AccountShown, Shows
  <2>2. CASE \E i \in 1..Len(notes) : notes[i].kind = "AccountUpdated"
    BY <1>2, <2>1, <2>2
  <2>3. CASE Shows(app') = srv.account
    BY <1>1, <2>3
  <2>4. CASE /\ Shows(app') = Shows(app) /\ srv.account = server.account
             /\ effect.kind = "read" => effect'.kind = "read"
    <3>1. \/ Shows(app) = server.account
          \/ \E i \in 1..Len(events) : events[i].kind = "AccountUpdated"
          \/ effect.kind = "read"
      BY <2>1 DEF Inv, AuthInv, AccountShown, Shows, CallKeeps
    <3> QED BY <1>1, <1>3, <2>1, <2>4, <3>1
  <2> QED BY <2>2, <2>3, <2>4
<1>5. SavedInv'
  BY DEF Inv, SavedInv, CallKeeps, ShowsNoMore
<1>6. StreamEnds'
  <2>1. SUFFICES ASSUME app'.turn.kind = "Streaming", ~deaf', wire' = "open"
                 PROVE  \/ <<app'.turn.thread, app'.turn.turn>> \in server'.running
                        \/ \E i \in 1..Len(events') :
                             events'[i] = Note("TurnFinished", app'.turn.thread, app'.turn.turn)
    BY <1>1 DEF StreamEnds
  <2> DEFINE r == <<app.turn.thread, app.turn.turn>>
  <2>2. app'.turn = app.turn
    BY <2>1 DEF ShowsNoMore
  <2>3. \/ r \in server.running
        \/ \E i \in 1..Len(events) : events[i] = Note("TurnFinished", r[1], r[2])
    BY <2>1, <2>2 DEF Inv, StreamEnds, CallKeeps
  <2>4. \/ r \in srv.running
        \/ \E i \in 1..Len(notes) : notes[i] = Note("TurnFinished", r[1], r[2])
        \/ \E i \in 1..Len(events) : events[i] = Note("TurnFinished", r[1], r[2])
    BY <2>3
  <2>5. r[1] = app'.turn.thread /\ r[2] = app'.turn.turn
    BY <2>2
  <2> QED BY <1>1, <1>2, <1>3, <2>1, <2>2, <2>4, <2>5
<1>7. ThreadIsKept'
  BY <1>1 DEF Inv, ThreadIsKept, CallKeeps, ShowsNoMore
<1> QED BY <1>4, <1>5, <1>6, <1>7 DEF Inv

\* A screen is itself.
LEMMA ShowsItself ==
  ASSUME NEW a
  PROVE  ShowsNoMore(a, a) /\ SamePreferences(a, a)
BY DEF ShowsNoMore, SamePreferences

\* Whatever fails, a call that leaves the thread alone leaves a calm screen calm.
LEMMA StaysCalm ==
  ASSUME NEW a, NEW b, Calm(a), b.thread = a.thread, b.turn = a.turn \/ ~TurnActive(b),
         b.picker = a.picker \/ b.picker.phase \in {"closed", "Failed"}
  PROVE  Calm(b)
BY DEF Calm, BusyPhases, TurnActive

\* Startup shows the account it reads, or fails the connection.
LEMMA StartupKeeps ==
  ASSUME Inv, Startup
  PROVE  Inv'
<1>1. /\ effect.kind = "startup" /\ Silently /\ CallKeeps /\ next' = next
      /\ server' = server
  BY DEF Startup
<1>2. /\ Calm(app) /\ next \in [thread : Nat, turn : Nat, login : Nat]
      /\ counts \in CountsType
  BY <1>1, ScreenOf, SettledIsCalm DEF Inv, TypeOK
<1>3. CASE wire = "gone"
  BY <1>1, <1>2, <1>3, ScreenOf, ShowsItself, EffectsType, SettlesStep DEF Startup
<1>4. CASE wire # "gone"
  <2>1. PICK o \in Outcomes :
          /\ IF o.heard = "ok"
             THEN AccountTaken(AccountRead([app EXCEPT !.connection = "Ready",
                                                       !.models = TRUE], server.account))
             ELSE app' = ConnectionFailed(app) /\ effect' = NoEffect
          /\ Counted(o.fault)
    BY <1>4 DEF Startup
  <2>2. counts' \in CountsType
    BY <2>1, CountedType DEF Inv
  <2>3. CASE o.heard = "ok"
    <3> DEFINE b == [app EXCEPT !.connection = "Ready", !.models = TRUE]
    <3>1. /\ b \in AppType /\ SamePreferences(app, b) /\ b.auth = app.auth
          /\ b.thread = app.thread /\ b.turn = app.turn /\ b.picker = app.picker
      BY ScreenOf DEF AppType, SamePreferences
    <3>2. AccountTaken(AccountRead(b, server.account))
      BY <2>1, <2>3
    <3> HIDE DEF b
    <3>3. Screen(b) /\ Calm(b) /\ ShowsNoMore(app, b)
      BY <1>2, <3>1, ScreenOf, ScreenKept DEF Calm, ShowsNoMore, SamePreferences
    <3> QED BY <1>1, <1>2, <2>2, <3>1, <3>2, <3>3, AccountReadStep
  <2>4. CASE o.heard # "ok"
    <3> DEFINE b == ConnectionFailed(app)
    <3>1. /\ b \in AppType /\ Screen(b) /\ ShowsNoMore(app, b) /\ b.connection = "Failed"
          /\ b.auth = app.auth /\ b.thread = app.thread /\ ~TurnActive(b)
          /\ b.picker = app.picker \/ b.picker.phase \in {"closed", "Failed"}
      BY ScreenOf, ConnectionFailedDoes
    <3>2. app' = b /\ effect' = NoEffect
      BY <2>1, <2>4
    <3> HIDE DEF b
    <3>3. Calm(b) /\ Shows(b) = Shows(app)
      BY <1>2, <3>1, StaysCalm DEF Shows
    <3> QED BY <1>1, <1>2, <2>2, <3>1, <3>2, <3>3, ScreenOf, EffectsType, SettlesStep
  <2> QED BY <2>3, <2>4
<1> QED BY <1>3, <1>4

\* A sign-in that starts or does not leaves the account signed out.
LEMMA LoginStartsKeeps ==
  ASSUME Inv, LoginStarts
  PROVE  Inv'
<1>1. PICK o \in Outcomes :
        /\ Counted(o.fault)
        /\ app' = IF o.heard = "ok" THEN [app EXCEPT !.auth = SigningIn(next.login)]
                  ELSE LoginFailed(app)
        /\ server' = IF o.done THEN [server EXCEPT !.login = next.login] ELSE server
  BY DEF LoginStarts
<1>2. /\ effect.kind = "login" /\ effect' = NoEffect /\ Silently /\ CallKeeps
      /\ next' = [next EXCEPT !.login = @ + 1]
  BY DEF LoginStarts
<1>3. /\ Calm(app) /\ app.auth.kind = "SignedOut" /\ counts' \in CountsType
      /\ next.login \in Nat /\ next \in [thread : Nat, turn : Nat, login : Nat]
  BY <1>1, <1>2, ScreenOf, SettledIsCalm, CountedType DEF Inv, TypeOK, Finds
<1>4. next' \in [thread : Nat, turn : Nat, login : Nat]
  BY <1>2, <1>3
<1>5. /\ server' \in ServerType /\ server'.account = server.account
      /\ server'.running = server.running /\ server'.threads = server.threads
  BY <1>1, <1>3, ScreenOf DEF ServerType
<1>6. /\ app' \in AppType /\ Screen(app') /\ ShowsNoMore(app, app')
      /\ app'.connection = app.connection /\ app'.auth.kind \in {"SignedOut", "SigningIn"}
      /\ app'.thread = app.thread /\ app'.turn = app.turn /\ app'.picker = app.picker
  <2>1. CASE o.heard = "ok"
    <3> DEFINE b == [app EXCEPT !.auth = SigningIn(next.login)]
    <3>1. SigningIn(next.login) \in AuthType /\ SigningIn(next.login).kind = "SigningIn"
      BY <1>3, AuthsType
    <3>2. /\ b \in AppType /\ SamePreferences(app, b) /\ b.connection = app.connection
          /\ b.auth = SigningIn(next.login) /\ b.thread = app.thread /\ b.turn = app.turn
          /\ b.picker = app.picker
      BY <3>1, ScreenOf DEF AppType, SamePreferences
    <3>3. app' = b
      BY <1>1, <2>1
    <3> HIDE DEF b
    <3> QED BY <3>1, <3>2, <3>3, ScreenOf, ScreenKept DEF ShowsNoMore, SamePreferences
  <2>2. CASE o.heard # "ok"
    <3>1. app' = LoginFailed(app)
      BY <1>1, <2>2
    <3> QED BY <3>1, ScreenOf, LoginFailedDoes
  <2> QED BY <2>1, <2>2
<1>7. Calm(app') /\ Shows(app') = Shows(app)
  BY <1>3, <1>6 DEF Calm, Shows
<1> QED BY <1>2, <1>3, <1>4, <1>5, <1>6, <1>7, EffectsType, SettlesStep

\* Account notifications and the login's end are notes of the queue.
LEMMA NotesType ==
  /\ AccountUpdated \in NoteType /\ AccountUpdated.kind = "AccountUpdated"
  /\ \A l \in Nat, success \in BOOLEAN : LoginCompleted(l, success) \in NoteType
  /\ \A kind \in {"TurnFinished", "AgentCompleted", "SafetyViolation"},
        t \in SomeThread, u \in Nat :
       Note(kind, t, u) \in NoteType /\ Note(kind, t, u).kind = kind
BY ThreadIds DEF AccountUpdated, LoginCompleted, Note, NoteType, None

\* A sign-in that is cancelled is still shown until the account was read again.
LEMMA CancelLoginKeeps ==
  ASSUME Inv, CancelLogin
  PROVE  Inv'
<1>1. PICK o \in Outcomes :
        /\ Counted(o.fault)
        /\ Then(IF o.heard = "ok" THEN "cancelRead" ELSE "none")
        /\ IF o.done /\ server.login = effect.id
           THEN Tell([server EXCEPT !.login = None], <<LoginCompleted(effect.id, FALSE)>>)
           ELSE Silently /\ UNCHANGED server
  BY DEF CancelLogin
<1>2. effect.kind = "cancel" /\ CallKeeps /\ next' = next /\ app' = app
  BY DEF CancelLogin
<1>3. /\ Calm(app) /\ app.auth.kind = "SigningIn" /\ counts' \in CountsType
      /\ effect.id \in Nat /\ TypeOK
  BY <1>1, <1>2, ScreenOf, SettledIsCalm, CountedType DEF Inv, Finds, EffectType
<1>4. effect' \in EffectType /\ effect'.kind \in {"none", "cancelRead"}
  BY <1>1, <1>3, ThenDoes
<1>5. EffectInv'
  BY <1>2, <1>3, <1>4, CalmIsSettled DEF EffectInv
<1>6. CASE o.done /\ server.login = effect.id
  <2> DEFINE srv == [server EXCEPT !.login = None]
             ended == LoginCompleted(effect.id, FALSE)
             notes == <<ended>>
  <2>1. /\ srv \in ServerType /\ srv.account = server.account
        /\ srv.running = server.running /\ srv.threads = server.threads
    BY ScreenOf DEF ServerType, None
  <2>2. notes \in Seq(NoteType)
    <3>1. ended \in NoteType
      BY <1>3, NotesType
    <3> HIDE DEF ended
    <3> QED BY <3>1
  <2>3. Tell(srv, notes) /\ wire = "open"
    BY <1>1, <1>3, <1>6, OutcomesAre
  <2> HIDE DEF srv, notes
  <2>4. TypeOK'
    BY <1>2, <1>3, <1>4, <2>1, <2>2, <2>3, TellDoes DEF TypeOK, CallKeeps
  <2> QED BY <1>2, <1>4, <1>5, <2>1, <2>2, <2>3, <2>4, ScreenOf, ShowsItself, TellStep
<1>7. CASE ~(o.done /\ server.login = effect.id)
  <2>1. Silently /\ server' = server
    BY <1>1, <1>7
  <2>2. TypeOK'
    BY <1>2, <1>3, <1>4, <2>1 DEF TypeOK, CallKeeps, Silently
  <2> QED BY <1>2, <1>4, <1>5, <2>1, <2>2, ScreenOf, ScreenStep
<1> QED BY <1>6, <1>7

\* The account that is read after the cancellation is the one shown.
LEMMA CancelReadsKeeps ==
  ASSUME Inv, CancelReads
  PROVE  Inv'
<1>1. PICK o \in Outcomes :
        /\ Counted(o.fault)
        /\ AccountTaken(IF o.heard = "ok" THEN AccountRead(app, server.account)
                        ELSE LoginFailed(app))
  BY DEF CancelReads
<1>2. /\ effect.kind = "cancelRead" /\ Silently /\ CallKeeps /\ next' = next
      /\ server' = server
  BY DEF CancelReads
<1>3. /\ Calm(app) /\ app.auth.kind = "SigningIn" /\ counts' \in CountsType
      /\ next \in [thread : Nat, turn : Nat, login : Nat]
  BY <1>1, <1>2, ScreenOf, SettledIsCalm, CountedType DEF Inv, TypeOK, Finds
<1>4. CASE o.heard = "ok"
  <2>1. AccountTaken(AccountRead(app, server.account))
    BY <1>1, <1>4
  <2> QED BY <1>2, <1>3, <2>1, ScreenOf, ShowsItself, AccountReadStep
<1>5. CASE o.heard # "ok"
  <2> DEFINE b == LoginFailed(app)
  <2>1. /\ b \in AppType /\ Screen(b) /\ ShowsNoMore(app, b)
        /\ b.connection = app.connection /\ b.auth.kind = "SignedOut"
        /\ b.thread = app.thread /\ b.turn = app.turn /\ b.picker = app.picker
    BY ScreenOf, LoginFailedDoes
  <2>2. AccountTaken(b)
    BY <1>1, <1>5
  <2> HIDE DEF b
  <2>3. Calm(b) /\ Shows(b) = Shows(app)
    BY <1>3, <2>1 DEF Calm, Shows
  <2>4. app' = b /\ effect' = NoEffect
    BY <2>2, <2>3 DEF AccountTaken, Calm
  <2> QED BY <1>2, <1>3, <2>1, <2>3, <2>4, ScreenOf, EffectsType, SettlesStep
<1> QED BY <1>4, <1>5

\* account/read for an event: the account it reads is shown, or the session ends.
LEMMA ReadAccountKeeps ==
  ASSUME Inv, ReadAccount
  PROVE  Inv'
<1>1. PICK o \in Outcomes :
        /\ IF o.heard = "ok"
           THEN AccountTaken(AccountRead(app, server.account)) /\ Silently /\ UNCHANGED server
           ELSE app' = ConnectionFailed(app) /\ effect' = NoEffect /\ Dropped
        /\ Counted(o.fault)
  BY DEF ReadAccount
<1>2. effect.kind = "read" /\ CallKeeps /\ next' = next
  BY DEF ReadAccount
<1>3. Calm(app) /\ counts' \in CountsType
  BY <1>1, <1>2, ScreenOf, SettledIsCalm, CountedType DEF Inv
<1>4. CASE o.heard = "ok"
  <2>1. /\ AccountTaken(AccountRead(app, server.account)) /\ Silently /\ server' = server
    BY <1>1, <1>4
  <2> QED BY <1>2, <1>3, <2>1, ScreenOf, ShowsItself, AccountReadStep
<1>5. CASE o.heard # "ok"
  BY <1>1, <1>2, <1>3, <1>5, EffectsType, DroppedStep
<1> QED BY <1>4, <1>5

\* A logout that succeeds is shown and carried out; one that fails may have been, and the
\* app-server says so.
LEMMA LogsOutKeeps ==
  ASSUME Inv, LogsOut
  PROVE  Inv'
<1>1. PICK o \in Outcomes :
        /\ Counted(o.fault)
        /\ app' = IF o.heard = "ok" THEN LoggedOut(app) ELSE app
        /\ IF o.done THEN Tell([server EXCEPT !.account = "signedOut"], <<AccountUpdated>>)
           ELSE Silently /\ UNCHANGED server
  BY DEF LogsOut
<1>2. effect.kind = "logout" /\ effect' = NoEffect /\ CallKeeps /\ next' = next
  BY DEF LogsOut
<1>3. /\ Calm(app) /\ counts' \in CountsType /\ TypeOK
      /\ next \in [thread : Nat, turn : Nat, login : Nat]
  BY <1>1, <1>2, ScreenOf, SettledIsCalm, CountedType DEF Inv, TypeOK
<1>4. /\ app' \in AppType /\ Screen(app') /\ ShowsNoMore(app, app')
      /\ app'.connection = app.connection
      /\ app'.thread = app.thread \/ app'.thread.kind = "None"
      /\ app'.turn = app.turn \/ app'.turn.kind = "Idle"
      /\ app'.picker = app.picker \/ app'.picker.phase = "closed"
  <2>1. CASE o.heard = "ok"
    BY <1>1, <2>1, ScreenOf, LoggedOutDoes
  <2>2. CASE o.heard # "ok"
    BY <1>1, <2>2, ScreenOf, ShowsItself
  <2> QED BY <2>1, <2>2
<1>5. Calm(app') /\ effect' \in EffectType /\ effect'.kind = "none"
  BY <1>2, <1>3, <1>4, EffectsType DEF Calm, BusyPhases
<1>6. EffectInv'
  BY <1>5, CalmIsSettled DEF EffectInv
<1>7. CASE o.done
  <2> DEFINE srv == [server EXCEPT !.account = "signedOut"]  notes == <<AccountUpdated>>
  <2>1. /\ srv \in ServerType /\ srv.running = server.running /\ srv.threads = server.threads
    BY ScreenOf DEF ServerType, ServerAccounts
  <2>2. AccountUpdated \in NoteType /\ AccountUpdated.kind = "AccountUpdated"
    BY NotesType
  <2>3. notes \in Seq(NoteType) /\ 1 \in 1..Len(notes) /\ notes[1].kind = "AccountUpdated"
    BY <2>2
  <2>4. Tell(srv, notes) /\ wire = "open"
    BY <1>1, <1>3, <1>7, OutcomesAre
  <2> HIDE DEF srv, notes
  <2>5. TypeOK'
    BY <1>2, <1>3, <1>4, <1>5, <2>1, <2>3, <2>4, TellDoes DEF TypeOK, CallKeeps
  <2>6. \E i \in 1..Len(notes) : notes[i].kind = "AccountUpdated"
    BY <2>3
  <2> QED BY <1>2, <1>4, <1>6, <2>1, <2>3, <2>4, <2>5, <2>6, TellStep
<1>8. CASE ~o.done
  <2>1. Silently /\ server' = server /\ app' = app
    BY <1>1, <1>3, <1>8, OutcomesAre
  <2> QED BY <1>2, <1>3, <1>5, <2>1, ScreenOf, ShowsItself, SettlesStep
<1> QED BY <1>7, <1>8

-----------------------------------------------------------------------------
(* Effects: threads.                                                       *)

\* A thread that the app-server started is there.
LEMMA WithThreadDoes ==
  ASSUME Inv, NEW t \in Threads
  PROVE  /\ WithThread(t) \in ServerType /\ WithThread(t).account = server.account
         /\ WithThread(t).running = server.running
         /\ WithThread(t).threads = server.threads \cup {t}
BY ScreenOf DEF WithThread, ServerType

\* The ids of the app-server are used up.
LEMMA NextType ==
  ASSUME Inv
  PROVE  /\ next \in [thread : Nat, turn : Nat, login : Nat] /\ next.turn \in Nat
         /\ UsesThread => next' \in [thread : Nat, turn : Nat, login : Nat]
         /\ next' = [next EXCEPT !.turn = @ + 1] =>
              next' \in [thread : Nat, turn : Nat, login : Nat]
BY DEF Inv, TypeOK, UsesThread

\* A thread takes the screen, and is saved before anything else; or the turn goes on.
LEMMA ThreadTakesScreen ==
  ASSUME Inv, NEW t \in Threads, app' \in AppType, Screen(app'),
         app'.thread = Ready(t), app'.pointer = t,
         app'.turn.kind = "Streaming" => app'.turn = app.turn,
         app'.connection = app.connection, Shows(app') = Shows(app),
         effect' \in EffectType, effect'.kind \in {"persist", "persistThread"}, EffectInv',
         effect.kind \notin {"read", "persist", "persistThread"},
         Silently, CallKeeps, server' \in ServerType, server'.account = server.account,
         server'.running = server.running, server.threads \subseteq server'.threads,
         t \in server'.threads,
         next' \in [thread : Nat, turn : Nat, login : Nat], counts' \in CountsType
  PROVE  Inv'
<1>1. TypeOK'
  BY QuietCall
<1>2. app'.thread.id = t
  <2>1. Ready(t).id = t
    BY ThreadsType, ThreadIds
  <2> QED BY <2>1
<1> QED BY <1>1, <1>2, ScreenStep

\* A new thread takes the screen, unless the account it was asked for has gone.
LEMMA NewThreadStartsKeeps ==
  ASSUME Inv, NewThreadStarts
  PROVE  Inv'
<1>1. PICK o \in Outcomes :
        /\ Counted(o.fault)
        /\ app' = IF o.heard = "ok"
                  THEN NewThreadSucceeded(app, next.thread, app.auth.scope)
                  ELSE FailedIfFatal(o, app)
        /\ server' = IF o.done THEN WithThread(next.thread) ELSE server
        /\ Then(IF o.heard = "ok" THEN "persist" ELSE "none")
  BY DEF NewThreadStarts
<1>2. effect.kind = "new" /\ UsesThread /\ Silently /\ CallKeeps
  BY DEF NewThreadStarts
<1>3. /\ Calm(app) /\ counts' \in CountsType /\ TypeOK /\ next.thread \in Threads
      /\ app.provider = "Codex" /\ app.auth.kind = "SignedIn"
      /\ next' \in [thread : Nat, turn : Nat, login : Nat]
  BY <1>1, <1>2, ScreenOf, SettledIsCalm, CountedType, NextType
     DEF Inv, EffectInv, Finds
<1>4. /\ server' \in ServerType /\ server'.account = server.account
      /\ server'.running = server.running /\ server.threads \subseteq server'.threads
      /\ o.done => next.thread \in server'.threads
  BY <1>1, <1>3, ScreenOf, WithThreadDoes
<1>5. CASE o.heard = "ok"
  <2>1. effect' \in EffectType /\ effect'.kind = "persist"
    BY <1>1, <1>3, <1>5, ThenDoes
  <2>2. app' = NewThreadSucceeded(app, next.thread, app.auth.scope)
    BY <1>1, <1>5
  <2>3. CASE app' = app
    <3>1. EffectInv'
      BY <1>3, <2>1, <2>3, CalmIsSettled DEF EffectInv
    <3>2. TypeOK'
      BY <1>2, <1>3, <1>4, <2>1, <2>3, QuietCall, ScreenOf
    <3> QED BY <1>2, <1>4, <2>1, <2>3, <3>1, <3>2, ScreenOf, ScreenStep
  <2>4. CASE /\ app' \in AppType /\ Screen(app') /\ app'.pointer = next.thread
             /\ app'.connection = app.connection /\ app'.auth = app.auth
             /\ app'.thread = Ready(next.thread) /\ app'.turn.kind = "Idle"
             /\ app'.picker = Closed
    <3>1. Calm(app') /\ Shows(app') = Shows(app)
      BY <1>3, <2>4, ThreadsType, ThreadIds, PickersType DEF Calm, BusyPhases, Shows
    <3>2. EffectInv'
      BY <2>1, <3>1, CalmIsSettled DEF EffectInv
    <3>3. next.thread \in server'.threads
      BY <1>3, <1>4, <1>5, OutcomesAre
    <3> QED BY <1>2, <1>3, <1>4, <2>1, <2>4, <3>1, <3>2, <3>3, ThreadTakesScreen
  <2> QED BY <1>3, <2>2, <2>3, <2>4, ScreenOf, NewThreadSucceededDoes
<1>6. CASE o.heard # "ok"
  <2>1. effect' \in EffectType /\ effect'.kind = "none"
    BY <1>1, <1>3, <1>6, ThenDoes
  <2>2. app' = FailedIfFatal(o, app)
    BY <1>1, <1>6
  <2>3. /\ app' \in AppType /\ Screen(app') /\ ShowsNoMore(app, app')
        /\ app'.connection \in {app.connection, "Failed"} /\ app'.auth = app.auth
        /\ app'.thread = app.thread /\ (app'.turn = app.turn \/ ~TurnActive(app'))
        /\ app'.picker = app.picker \/ app'.picker.phase \in {"closed", "Failed"}
    BY <2>2, ScreenOf, FailedIfFatalDoes
  <2>4. Calm(app') /\ Shows(app') = Shows(app)
    BY <1>3, <2>3, StaysCalm DEF Shows
  <2> QED BY <1>2, <1>3, <1>4, <2>1, <2>3, <2>4, SettlesStep
<1> QED BY <1>5, <1>6

\* The saved thread is on the screen again, or it could not be resumed.
LEMMA ResumeThreadKeeps ==
  ASSUME Inv, ResumeThread
  PROVE  Inv'
<1>1. PICK o \in OutcomesOn(effect.id) :
        /\ Counted(o.fault)
        /\ app' = IF o.heard = "ok" THEN ResumeSucceeded(app, effect.id)
                  ELSE [app EXCEPT !.thread = ResumeFailed(effect.id)]
        /\ Then(IF o.heard = "ok" THEN "persist" ELSE "none")
  BY DEF ResumeThread
<1>2. /\ effect.kind = "resume" /\ Silently /\ CallKeeps /\ next' = next
      /\ server' = server
  BY DEF ResumeThread
<1>3. /\ app.thread = Resuming(effect.id) /\ app.scope # NoScope
      /\ app.auth = SignedIn(app.scope)
      /\ app.turn.kind # "Starting" /\ app.picker.phase \notin BusyPhases
      /\ counts' \in CountsType /\ TypeOK
      /\ next \in [thread : Nat, turn : Nat, login : Nat]
  BY <1>1, <1>2, ScreenOf, CountedType, NextType DEF Inv, Waits, Finds, BusyPhases
<1>4. effect.id = app.pointer /\ effect.id \in Threads
  <2>1. app.thread.kind # "None" /\ app.thread.id = effect.id
    BY <1>3 DEF Resuming
  <2>2. app.pointer = effect.id /\ app.pointer # None /\ app.pointer \in SomeThread
    BY <2>1, ScreenOf DEF Screen, AppType
  <2> QED BY <2>2 DEF SomeThread
<1>5. CASE o.heard = "ok"
  <2>1. effect' \in EffectType /\ effect'.kind = "persist"
    BY <1>1, <1>3, <1>5, ThenDoes
  <2>2. /\ app' \in AppType /\ Screen(app') /\ app'.pointer = effect.id
        /\ app'.connection = app.connection /\ app'.auth = app.auth
        /\ app'.thread = Ready(effect.id) /\ app'.turn.kind = "Idle"
        /\ app'.picker = app.picker
    BY <1>1, <1>3, <1>4, <1>5, ScreenOf, ResumeSucceededDoes
  <2>3. Calm(app') /\ Shows(app') = Shows(app)
    BY <1>3, <1>4, <2>2, ThreadsType, ThreadIds DEF Calm, Shows
  <2>4. EffectInv'
    BY <2>1, <2>3, CalmIsSettled DEF EffectInv
  <2>5. effect.id \in server'.threads
    BY <1>2, <1>3, <1>5, OutcomesOnAre
  <2> QED BY <1>2, <1>3, <1>4, <2>1, <2>2, <2>3, <2>4, <2>5, ScreenOf, ThreadTakesScreen
<1>6. CASE o.heard # "ok"
  <2> DEFINE b == [app EXCEPT !.thread = ResumeFailed(effect.id)]
  <2>1. effect' \in EffectType /\ effect'.kind = "none"
    BY <1>1, <1>3, <1>6, ThenDoes
  <2>2. /\ ResumeFailed(effect.id) \in ThreadType
        /\ ResumeFailed(effect.id).kind = "ResumeFailed"
        /\ ResumeFailed(effect.id).id = effect.id
    BY <1>4, ThreadsType, ThreadIds
  <2>3. /\ b \in AppType /\ SamePreferences(app, b) /\ b.connection = app.connection
        /\ b.auth = app.auth /\ b.thread = ResumeFailed(effect.id) /\ b.turn = app.turn
        /\ b.picker = app.picker
    BY <2>2, ScreenOf DEF AppType, SamePreferences
  <2>4. app' = b
    BY <1>1, <1>6
  <2> HIDE DEF b
  <2>5. Screen(b)
    BY <1>4, <2>2, <2>3, ThreadIds, ScreenOf, ScreenKept
  <2>6. Calm(b) /\ Shows(b) = Shows(app) /\ ShowsNoMore(app, b)
    BY <1>3, <2>2, <2>3 DEF Calm, Shows, ShowsNoMore, SamePreferences
  <2> QED BY <1>2, <1>3, <2>1, <2>3, <2>4, <2>5, <2>6, ScreenOf, SettlesStep
<1> QED BY <1>5, <1>6

\* The picker lists what it was opened for, or shows that it could not.
LEMMA ListThreadsKeeps ==
  ASSUME Inv, ListThreads
  PROVE  Inv'
<1>1. PICK o \in Outcomes :
        /\ app' \in IF o.heard = "ok" THEN {ThreadListLoaded(app, server.threads)}
                    ELSE {ThreadListLoaded(app, {}),
                          [app EXCEPT !.picker = Picker("Failed", {})]}
        /\ Counted(o.fault)
  BY DEF ListThreads
<1>2. /\ effect.kind = "list" /\ effect' = NoEffect /\ Silently /\ CallKeeps
      /\ next' = next /\ server' = server
  BY DEF ListThreads
<1>3. /\ app.turn.kind # "Starting" /\ app.thread.kind # "Resuming"
      /\ counts' \in CountsType /\ next \in [thread : Nat, turn : Nat, login : Nat]
      /\ server.threads \in SUBSET Threads
  BY <1>1, <1>2, ScreenOf, CountedType, NextType DEF Inv, Waits, ServerType
<1>4. /\ Picker("Failed", {}) \in PickerType /\ Picker("Failed", {}).phase = "Failed"
  BY PickersType
<1>5. /\ app' \in AppType /\ SamePreferences(app, app') /\ app'.connection = app.connection
      /\ app'.auth = app.auth /\ app'.thread = app.thread /\ app'.turn = app.turn
      /\ app'.picker.phase \in {"Ready", "Failed"} /\ Screen(app') /\ ShowsNoMore(app, app')
  <2>1. CASE app' = ThreadListLoaded(app, server.threads) \/ app' = ThreadListLoaded(app, {})
    BY <1>3, <2>1, ScreenOf, ThreadListLoadedDoes
  <2>2. CASE app' = [app EXCEPT !.picker = Picker("Failed", {})]
    BY <1>4, <2>2, ScreenOf, PickerChanges
  <2> QED BY <1>1, <2>1, <2>2
<1>6. Calm(app') /\ Shows(app') = Shows(app)
  BY <1>3, <1>5 DEF Calm, BusyPhases, Shows
<1> QED BY <1>2, <1>3, <1>5, <1>6, ScreenOf, EffectsType, SettlesStep

\* A thread that was chosen takes the screen, or the picker stays.
LEMMA SwitchThreadKeeps ==
  ASSUME Inv, SwitchThread
  PROVE  Inv'
<1>1. PICK o \in OutcomesOn(effect.id) :
        /\ Counted(o.fault)
        /\ app' = IF o.heard = "ok" THEN ThreadSwitchSucceeded(app, effect.id)
                  ELSE FailedIfFatal(o, [app EXCEPT !.picker.phase = "Ready"])
        /\ Then(IF o.heard = "ok" THEN "persist" ELSE "none")
  BY DEF SwitchThread
<1>2. /\ effect.kind = "switch" /\ Silently /\ CallKeeps /\ next' = next
      /\ server' = server
  BY DEF SwitchThread
<1>3. /\ app.turn.kind # "Starting" /\ app.thread.kind # "Resuming"
      /\ app.auth.kind = "SignedIn" /\ effect.id \in Threads
      /\ counts' \in CountsType /\ TypeOK
      /\ next \in [thread : Nat, turn : Nat, login : Nat]
  BY <1>1, <1>2, ScreenOf, CountedType, NextType DEF Inv, Waits, Finds
<1>4. CASE o.heard = "ok"
  <2>1. effect' \in EffectType /\ effect'.kind = "persist"
    BY <1>1, <1>3, <1>4, ThenDoes
  <2>2. /\ app' \in AppType /\ Screen(app') /\ app'.pointer = effect.id
        /\ app'.connection = app.connection /\ app'.auth = app.auth
        /\ app'.thread = Ready(effect.id) /\ app'.turn.kind = "Idle"
        /\ app'.picker = Closed
    BY <1>1, <1>3, <1>4, ScreenOf, ThreadSwitchSucceededDoes
  <2>3. Calm(app') /\ Shows(app') = Shows(app)
    BY <1>3, <2>2, ThreadsType, ThreadIds, PickersType DEF Calm, BusyPhases, Shows
  <2>4. EffectInv'
    BY <2>1, <2>3, CalmIsSettled DEF EffectInv
  <2>5. effect.id \in server'.threads
    BY <1>2, <1>3, <1>4, OutcomesOnAre
  <2> QED BY <1>2, <1>3, <2>1, <2>2, <2>3, <2>4, <2>5, ScreenOf, ThreadTakesScreen
<1>5. CASE o.heard # "ok"
  <2> DEFINE picker == [app.picker EXCEPT !.phase = "Ready"]
             b == [app EXCEPT !.picker.phase = "Ready"]
  <2>1. effect' \in EffectType /\ effect'.kind = "none"
    BY <1>1, <1>3, <1>5, ThenDoes
  <2>2. picker \in PickerType /\ picker.phase = "Ready"
    BY ScreenOf DEF PickerType
  <2>3. b = [app EXCEPT !.picker = picker]
    BY ScreenOf DEF AppType
  <2>4. app' = FailedIfFatal(o, b)
    BY <1>1, <1>5
  <2> HIDE DEF picker, b
  <2>5. /\ b \in AppType /\ b.connection = app.connection
        /\ b.auth = app.auth /\ b.thread = app.thread /\ b.turn = app.turn
        /\ b.picker.phase = "Ready" /\ Screen(b) /\ ShowsNoMore(app, b)
    BY <2>2, <2>3, ScreenOf, PickerChanges
  <2>6. /\ app' \in AppType /\ Screen(app') /\ ShowsNoMore(b, app')
        /\ app'.connection \in {b.connection, "Failed"} /\ app'.auth = b.auth
        /\ app'.thread = b.thread /\ (app'.turn = b.turn \/ ~TurnActive(app'))
        /\ app'.picker = b.picker \/ app'.picker.phase \in {"closed", "Failed"}
    BY <2>4, <2>5, FailedIfFatalDoes
  <2>7. Calm(b)
    BY <1>3, <2>5 DEF Calm, BusyPhases
  <2>8. Calm(app') /\ Shows(app') = Shows(app)
    BY <2>5, <2>6, <2>7, StaysCalm DEF Shows
  <2>9. ShowsNoMore(app, app')
    BY <2>5, <2>6 DEF ShowsNoMore
  <2> QED BY <1>2, <1>3, <2>1, <2>5, <2>6, <2>8, <2>9, ScreenOf, SettlesStep
<1> QED BY <1>4, <1>5

\* What is not protected is not the thread of the screen nor that of the pointer.
LEMMA UnprotectedIsSpare ==
  ASSUME Inv, NEW t \in Threads, ~Protected(t)
  PROVE  app.pointer # t /\ (app.thread.kind # "None" => app.thread.id # t)
<1>1. /\ app.provider = "Other" => app.pointer = None
      /\ app.thread.kind # "None" => app.pointer = app.thread.id /\ app.pointer # None
      /\ app.provider \in Providers
  BY ScreenOf DEF Screen, AppType
<1>2. app.pointer # t
  <2>1. CASE effect.mixed
    <3>1. ~IsActive(app, t)
      BY <2>1 DEF Protected
    <3> QED BY <1>1, <3>1, ThreadIds DEF IsActive, ActiveSaved, Providers
  <2>2. CASE ~effect.mixed
    BY <2>2 DEF Protected
  <2> QED BY <2>1, <2>2
<1> QED BY <1>1, <1>2

\* A deletion that ends leaves everything on the screen but the picker.
LEMMA DeletionEndsDoes ==
  ASSUME Inv, effect.kind = "delete", NEW done \in SUBSET Threads, NEW o,
         DeletionEnds(done, o)
  PROVE  /\ app' \in AppType /\ Screen(app') /\ ShowsNoMore(app, app') /\ Calm(app')
         /\ app'.connection \in {app.connection, "Failed"} /\ app'.auth = app.auth
         /\ effect' \in EffectType /\ effect'.kind \in {"none", "persist"}
<1> DEFINE b == ThreadDeletionFinished(app, done)
<1>1. /\ b \in AppType /\ b.connection = app.connection
      /\ b.auth = app.auth /\ b.thread = app.thread /\ b.turn = app.turn
      /\ b.picker.phase = "Ready" /\ Screen(b) /\ ShowsNoMore(app, b)
  BY ScreenOf, ThreadDeletionFinishedDoes
<1>2. /\ app' = b \/ app' = FailedIfFatal(o, b)
      /\ Then("persist") \/ Then("none")
  BY DEF DeletionEnds
<1> HIDE DEF b
<1>3. effect' \in EffectType /\ effect'.kind \in {"none", "persist"}
  BY <1>2, ThenDoes DEF Inv
<1>4. Calm(b)
  BY <1>1, ScreenOf DEF Calm, BusyPhases, Waits
<1>5. CASE app' = b
  BY <1>1, <1>3, <1>4, <1>5
<1>6. CASE app' = FailedIfFatal(o, b)
  <2>1. /\ app' \in AppType /\ Screen(app') /\ ShowsNoMore(b, app')
        /\ app'.connection \in {b.connection, "Failed"} /\ app'.auth = b.auth
        /\ app'.thread = b.thread /\ (app'.turn = b.turn \/ ~TurnActive(app'))
        /\ app'.picker = b.picker \/ app'.picker.phase \in {"closed", "Failed"}
    BY <1>1, <1>6, FailedIfFatalDoes
  <2>2. Calm(app')
    BY <1>4, <2>1, StaysCalm
  <2>3. ShowsNoMore(app, app')
    BY <1>1, <2>1 DEF ShowsNoMore
  <2> QED BY <1>1, <1>3, <2>1, <2>2, <2>3
<1> QED BY <1>2, <1>5, <1>6

\* A deletion takes one thread after the other, and none that the screen or a start needs.
LEMMA DeleteThreadKeeps ==
  ASSUME Inv, NEW t \in Threads, DeleteThread(t)
  PROVE  Inv'
<1>1. PICK o \in IF Protected(t) THEN {Outcome("failed", FALSE)} ELSE OutcomesOn(t) :
        LET done == IF o.heard = "ok" THEN effect.done \cup {t} ELSE effect.done
            left == effect.left \ {t}
        IN /\ Counted(o.fault)
           /\ server' = IF o.done
                        THEN [server EXCEPT !.threads = @ \ {t},
                                            !.running = {r \in @ : r[1] # t}]
                        ELSE server
           /\ IF left = {} \/ (Fatal(o) /\ ~effect.mixed)
              THEN DeletionEnds(done, o)
              ELSE /\ effect' = [effect EXCEPT !.left = left, !.done = done]
                   /\ UNCHANGED app
  BY DEF DeleteThread
<1> DEFINE done == IF o.heard = "ok" THEN effect.done \cup {t} ELSE effect.done
           left == effect.left \ {t}
<1>2. effect.kind = "delete" /\ Silently /\ CallKeeps /\ next' = next
  BY DEF DeleteThread
<1>3. /\ done \in SUBSET Threads /\ left \in SUBSET Threads /\ TypeOK
      /\ counts' \in CountsType /\ next \in [thread : Nat, turn : Nat, login : Nat]
  BY <1>1, ScreenOf, CountedType, NextType DEF Inv, EffectType
<1>4. \/ DeletionEnds(done, o)
      \/ effect' = [effect EXCEPT !.left = left, !.done = done] /\ app' = app
  BY <1>1
<1> HIDE DEF done, left
<1>5. /\ app' \in AppType /\ Screen(app') /\ ShowsNoMore(app, app')
      /\ app'.connection \in {app.connection, "Failed"} /\ app'.auth = app.auth
      /\ effect' \in EffectType /\ Waits(app', effect') /\ Finds(app', effect')
      /\ effect'.kind \in {"none", "persist", "delete"}
  <2>1. CASE DeletionEnds(done, o)
    <3>1. /\ app' \in AppType /\ Screen(app') /\ ShowsNoMore(app, app') /\ Calm(app')
          /\ app'.connection \in {app.connection, "Failed"} /\ app'.auth = app.auth
          /\ effect' \in EffectType /\ effect'.kind \in {"none", "persist"}
      BY <1>2, <1>3, <2>1, DeletionEndsDoes
    <3> QED BY <3>1, CalmIsSettled
  <2>2. CASE effect' = [effect EXCEPT !.left = left, !.done = done] /\ app' = app
    <3>1. effect' \in EffectType /\ effect'.kind = "delete"
      BY <1>2, <1>3, <2>2, ScreenOf DEF EffectType
    <3>2. Waits(app', effect') /\ Finds(app', effect')
      BY <1>2, <2>2, <3>1, ScreenOf DEF Waits, Finds
    <3> QED BY <2>2, <3>1, <3>2, ScreenOf, ShowsItself
  <2> QED BY <1>4, <2>1, <2>2
<1>6. EffectInv'
  BY <1>5 DEF EffectInv
<1>7. /\ server' \in ServerType /\ server'.account = server.account
      /\ server' = server \/
           /\ ~Protected(t) /\ server'.threads = server.threads \ {t}
           /\ server'.running = {r \in server.running : r[1] # t}
  <2>1. CASE o.done
    <3>1. ~Protected(t)
      BY <2>1 DEF Outcome
    <3>2. server' = [server EXCEPT !.threads = @ \ {t}, !.running = {r \in @ : r[1] # t}]
      BY <1>1, <2>1
    <3> QED BY <3>1, <3>2, ScreenOf DEF ServerType
  <2>2. CASE ~o.done
    BY <1>1, <2>2, ScreenOf
  <2> QED BY <2>1, <2>2
<1>8. TypeOK'
  BY <1>2, <1>3, <1>5, <1>7, QuietCall
<1>9. AuthInv'
  <2>1. Shows(app') = Shows(app)
    BY <1>5 DEF Shows
  <2> QED
    BY <1>2, <1>5, <1>7, <2>1 DEF Inv, AuthInv, AccountShown, Shows, Silently, CallKeeps
<1>10. SavedInv'
  BY <1>2, <1>5 DEF Inv, SavedInv, CallKeeps, ShowsNoMore
<1>11. StreamEnds'
  <2>1. SUFFICES ASSUME app'.turn.kind = "Streaming",
                        <<app.turn.thread, app.turn.turn>> \in server.running
                 PROVE  <<app.turn.thread, app.turn.turn>> \in server'.running
    BY <1>2, <1>5 DEF Inv, StreamEnds, ShowsNoMore, Silently, CallKeeps
  <2>2. app.turn.kind = "Streaming" /\ app.pointer = app.turn.thread
    BY <1>5, <2>1, ScreenOf DEF Screen, ShowsNoMore
  <2> QED BY <1>7, <2>1, <2>2, UnprotectedIsSpare
<1>12. ThreadIsKept'
  <2>1. ~unsaved => saved.pointer = app.pointer
    BY <1>2 DEF Inv, SavedInv
  <2>2. /\ app.thread.kind = "Ready" => app.thread.id \in server'.threads
        /\ ~unsaved => app.pointer \in server'.threads \cup {None}
    BY <1>7, UnprotectedIsSpare DEF Inv, ThreadIsKept
  <2> QED BY <1>2, <1>5, <2>1, <2>2 DEF ThreadIsKept, ShowsNoMore, CallKeeps
<1> QED BY <1>5, <1>6, <1>8, <1>9, <1>10, <1>11, <1>12 DEF Inv

-----------------------------------------------------------------------------
(* Effects: turns and saves.                                               *)

\* A save leaves the preferences it saves, or what was there before, and is valid.
LEMMA SavesAre ==
  ASSUME Inv, NEW save \in Saves
  PROVE  /\ save[1] \in PreferencesType /\ Valid(save[1]) /\ save[2] \in BOOLEAN
         /\ save[2] => save[1].pointer = app.pointer
         /\ save[1].pointer \in {saved.pointer, app.pointer}
<1> DEFINE new == Preferences(app)
<1>1. /\ new \in PreferencesType /\ new.pointer = app.pointer
      /\ saved \in PreferencesType /\ Valid(saved)
  BY ScreenOf DEF Inv, TypeOK, SavedInv, Preferences, AppType, PreferencesType
<1>2. \/ save = <<saved, FALSE>>
      \/ Valid(new) /\ save = <<new, TRUE>>
      \/ Valid(new) /\ save \in {saved, new} \X {FALSE}
  BY DEF Saves
<1> HIDE DEF new
<1>3. CASE save = <<saved, FALSE>>
  BY <1>1, <1>3
<1>4. CASE Valid(new) /\ save = <<new, TRUE>>
  BY <1>1, <1>4
<1>5. CASE Valid(new) /\ save \in {saved, new} \X {FALSE}
  BY <1>1, <1>5
<1> QED BY <1>2, <1>3, <1>4, <1>5

\* A call that changes something and fails ends what was starting.
LEMMA MutatingErrorSettles ==
  ASSUME Inv, NEW o,
         app.thread.kind # "Resuming", app.picker.phase \notin BusyPhases
  PROVE  LET b == MutatingError(o, app)
         IN /\ b \in AppType /\ Screen(b) /\ ShowsNoMore(app, b) /\ Calm(b)
            /\ b.connection \in {app.connection, "Failed"} /\ Shows(b) = Shows(app)
<1> DEFINE b == MutatingError(o, app)
<1>1. /\ b \in AppType /\ Screen(b) /\ ShowsNoMore(app, b)
      /\ b.connection \in {app.connection, "Failed"} /\ b.auth = app.auth
      /\ b.thread = app.thread /\ ~TurnActive(b)
      /\ b.picker = app.picker \/ b.picker.phase \in {"closed", "Failed"}
  BY ScreenOf, MutatingErrorDoes
<1> HIDE DEF b
<1>2. Calm(b) /\ Shows(b) = Shows(app)
  BY <1>1 DEF Calm, BusyPhases, TurnActive, Shows
<1> QED BY <1>1, <1>2 DEF b

\* The thread of a turn is on disk before the turn is sent.
LEMMA SendStartsThreadKeeps ==
  ASSUME Inv, SendStartsThread
  PROVE  Inv'
<1>1. PICK o \in Outcomes :
        /\ Counted(o.fault)
        /\ app' = IF o.heard = "ok" THEN ThreadStarted(app, next.thread)
                  ELSE MutatingError(o, app)
        /\ server' = IF o.done THEN WithThread(next.thread) ELSE server
        /\ Then(IF o.heard = "ok" THEN "persistThread" ELSE "none")
  BY DEF SendStartsThread
<1>2. effect.kind = "startThread" /\ UsesThread /\ Silently /\ CallKeeps
  BY DEF SendStartsThread
<1>3. /\ app.turn.kind = "Starting" /\ app.thread.kind = "None" /\ app.provider = "Codex"
      /\ app.auth.kind = "SignedIn" /\ app.picker.phase \notin BusyPhases
      /\ counts' \in CountsType /\ TypeOK /\ next.thread \in Threads
      /\ next' \in [thread : Nat, turn : Nat, login : Nat]
  BY <1>1, <1>2, ScreenOf, CountedType, NextType
     DEF Inv, EffectInv, Waits, Finds, BusyPhases
<1>4. /\ server' \in ServerType /\ server'.account = server.account
      /\ server'.running = server.running /\ server.threads \subseteq server'.threads
      /\ o.done => next.thread \in server'.threads
  BY <1>1, <1>3, ScreenOf, WithThreadDoes
<1>5. CASE o.heard = "ok"
  <2>1. effect' \in EffectType /\ effect'.kind = "persistThread"
    BY <1>1, <1>3, <1>5, ThenDoes
  <2>2. /\ app' \in AppType /\ Screen(app') /\ app'.pointer = next.thread
        /\ app'.connection = app.connection /\ app'.auth = app.auth
        /\ app'.thread = Ready(next.thread) /\ app'.turn = app.turn
        /\ app'.picker = app.picker
    BY <1>1, <1>3, <1>5, ScreenOf, ThreadStartedDoes
  <2>3. app'.thread.kind = "Ready"
    <3>1. Ready(next.thread).kind = "Ready"
      BY <1>3, ThreadsType, ThreadIds
    <3> QED BY <2>2, <3>1
  <2>4. EffectInv'
    BY <1>3, <2>1, <2>2, <2>3 DEF EffectInv, Waits, Finds, BusyPhases
  <2>5. next.thread \in server'.threads
    BY <1>3, <1>4, <1>5, OutcomesAre
  <2>6. Shows(app') = Shows(app)
    BY <2>2 DEF Shows
  <2> QED BY <1>2, <1>3, <1>4, <2>1, <2>2, <2>4, <2>5, <2>6, ThreadTakesScreen
<1>6. CASE o.heard # "ok"
  <2>1. effect' \in EffectType /\ effect'.kind = "none"
    BY <1>1, <1>3, <1>6, ThenDoes
  <2>2. app' = MutatingError(o, app)
    BY <1>1, <1>6
  <2>3. /\ app' \in AppType /\ Screen(app') /\ ShowsNoMore(app, app') /\ Calm(app')
        /\ app'.connection \in {app.connection, "Failed"} /\ Shows(app') = Shows(app)
    BY <1>3, <2>2, MutatingErrorSettles
  <2> QED BY <1>2, <1>3, <1>4, <2>1, <2>3, SettlesStep
<1> QED BY <1>5, <1>6

\* A turn that was sent streams, and runs.
LEMMA SendStartsTurnKeeps ==
  ASSUME Inv, SendStartsTurn
  PROVE  Inv'
<1> DEFINE t == app.thread.id  u == next.turn
<1>1. PICK o \in OutcomesOn(t) :
        /\ Counted(o.fault)
        /\ app' = IF o.heard = "ok" THEN TurnStarted(app, t, u) ELSE MutatingError(o, app)
        /\ server' = IF o.done THEN [server EXCEPT !.running = @ \cup {<<t, u>>}] ELSE server
  BY DEF SendStartsTurn
<1>2. /\ effect.kind = "startTurn" /\ effect' = NoEffect /\ Silently /\ CallKeeps
      /\ next' = [next EXCEPT !.turn = @ + 1]
  BY DEF SendStartsTurn
<1>3. /\ app.turn.kind = "Starting" /\ app.thread.kind = "Ready"
      /\ app.picker.phase \notin BusyPhases
      /\ counts' \in CountsType /\ TypeOK
      /\ next' \in [thread : Nat, turn : Nat, login : Nat] /\ u \in Nat
  BY <1>1, <1>2, ScreenOf, CountedType, NextType DEF Inv, Waits, Finds, BusyPhases
<1>4. t \in Threads /\ app.thread = Ready(t)
  <2>1. app.thread = Ready(t) /\ t \in SomeThread /\ t # None
    BY <1>3, ScreenOf, ThreadIsItsState DEF Screen
  <2> QED BY <2>1 DEF SomeThread
<1> HIDE DEF t, u
<1>5. /\ server' \in ServerType /\ server'.account = server.account
      /\ server.running \subseteq server'.running /\ server'.threads = server.threads
      /\ o.done => <<t, u>> \in server'.running
  <2>1. CASE o.done
    <3>1. server' = [server EXCEPT !.running = @ \cup {<<t, u>>}]
      BY <1>1, <2>1
    <3> QED BY <1>3, <1>4, <3>1, ScreenOf DEF ServerType
  <2>2. CASE ~o.done
    BY <1>1, <2>2, ScreenOf
  <2> QED BY <2>1, <2>2
<1>6. effect' \in EffectType /\ effect'.kind = "none"
  BY <1>2, EffectsType
<1>7. CASE o.heard = "ok"
  <2>1. /\ app' \in AppType /\ Screen(app') /\ SamePreferences(app, app')
        /\ app'.connection = app.connection /\ app'.auth = app.auth
        /\ app'.thread = app.thread /\ app'.turn = Streaming(t, u)
        /\ app'.picker = app.picker
    BY <1>1, <1>3, <1>4, <1>7, ScreenOf, TurnStartedDoes
  <2>2. /\ app'.turn.kind = "Streaming" /\ app'.turn.thread = t /\ app'.turn.turn = u
    BY <1>3, <1>4, <2>1, TurnsType, ThreadIds
  <2>3. <<app'.turn.thread, app'.turn.turn>> \in server'.running
    BY <1>3, <1>5, <1>7, <2>2, OutcomesOnAre
  <2>4. Calm(app') /\ Shows(app') = Shows(app)
    BY <1>3, <2>1, <2>2 DEF Calm, Shows
  <2>5. EffectInv'
    BY <1>6, <2>4, CalmIsSettled DEF EffectInv
  <2>6. TypeOK'
    BY <1>2, <1>3, <1>5, <1>6, <2>1, QuietCall
  <2> QED BY <1>2, <1>5, <2>1, <2>3, <2>4, <2>5, <2>6, ScreenStep DEF SamePreferences
<1>8. CASE o.heard # "ok"
  <2>1. app' = MutatingError(o, app)
    BY <1>1, <1>8
  <2>2. /\ app' \in AppType /\ Screen(app') /\ ShowsNoMore(app, app') /\ Calm(app')
        /\ app'.connection \in {app.connection, "Failed"} /\ Shows(app') = Shows(app)
    BY <1>3, <2>1, MutatingErrorSettles
  <2> QED BY <1>2, <1>3, <1>5, <1>6, <2>2, SettlesStep
<1> QED BY <1>7, <1>8

\* An interrupt that fails may end the turn on the screen; one that succeeds leaves the
\* end to the app-server.
LEMMA InterruptCallsKeeps ==
  ASSUME Inv, InterruptCalls
  PROVE  Inv'
<1>1. PICK o \in Outcomes :
        /\ Counted(o.fault)
        /\ app' = IF o.heard = "ok" THEN app ELSE MutatingError(o, app)
  BY DEF InterruptCalls
<1>2. /\ effect.kind = "interrupt" /\ effect' = NoEffect /\ Silently /\ CallKeeps
      /\ next' = next /\ server' = server
  BY DEF InterruptCalls
<1>3. /\ Calm(app) /\ counts' \in CountsType /\ next \in [thread : Nat, turn : Nat, login : Nat]
  BY <1>1, <1>2, ScreenOf, SettledIsCalm, CountedType, NextType DEF Inv
<1>4. app' = app \/ app' = MutatingError(o, app)
  BY <1>1
<1>5. /\ app' \in AppType /\ Screen(app') /\ ShowsNoMore(app, app') /\ Calm(app')
      /\ app'.connection \in {app.connection, "Failed"} /\ Shows(app') = Shows(app)
  BY <1>3, <1>4, ScreenOf, ShowsItself, MutatingErrorSettles DEF Calm
<1> QED BY <1>2, <1>3, <1>5, ScreenOf, EffectsType, SettlesStep

\* A save changes the file, and neither the screen nor the app-server.
LEMMA SavingStep ==
  ASSUME Inv, effect.kind \in {"persist", "persistThread"}, NEW save \in Saves,
         saved' = save[1], unsaved' = (unsaved \/ ~save[2]),
         deaf' \in BOOLEAN, deaf => deaf',
         app' \in AppType, Screen(app'), ShowsNoMore(app, app'), app'.auth = app.auth,
         app'.connection = app.connection,
         effect' \in EffectType, EffectInv', Counted(~save[2]),
         UNCHANGED <<wire, events, server, next>>
  PROVE  Inv'
<1>1. /\ saved' \in PreferencesType /\ Valid(saved') /\ unsaved' \in BOOLEAN
      /\ ~unsaved' => ~unsaved /\ saved'.pointer = app.pointer
  BY SavesAre DEF Inv, TypeOK
<1>2. TypeOK'
  BY <1>1, CountedType DEF Inv, TypeOK
<1>3. AuthInv'
  BY DEF Inv, AuthInv, AccountShown
<1>4. SavedInv'
  BY <1>1 DEF SavedInv, ShowsNoMore
<1>5. StreamEnds'
  BY DEF Inv, StreamEnds, ShowsNoMore
<1>6. ThreadIsKept'
  BY <1>1 DEF Inv, ThreadIsKept, ShowsNoMore
<1> QED BY <1>2, <1>3, <1>4, <1>5, <1>6 DEF Inv

\* A save that fails ends the turn that waited for it.
LEMMA SendPersistsKeeps ==
  ASSUME Inv, SendPersists
  PROVE  Inv'
<1>1. PICK save \in Saves :
        /\ saved' = save[1] /\ unsaved' = (unsaved \/ ~save[2])
        /\ app' = IF save[2] THEN app ELSE TurnFailed(app)
        /\ Then(IF save[2] THEN "startTurn" ELSE "none")
        /\ Counted(~save[2])
  BY DEF SendPersists
<1>2. effect.kind = "persistThread" /\ UNCHANGED <<deaf, wire, events, server, next>>
  BY DEF SendPersists
<1>3. /\ TypeOK /\ deaf \in BOOLEAN /\ app.thread.kind = "Ready"
      /\ app.turn.kind = "Starting" /\ app.picker.phase \notin BusyPhases
  BY <1>2, ScreenOf DEF Inv, TypeOK, Waits, Finds, BusyPhases
<1>4. CASE save[2]
  <2>1. app' = app /\ Then("startTurn")
    BY <1>1, <1>4
  <2>2. effect' \in EffectType /\ effect'.kind = "startTurn"
    BY <1>3, <2>1, ThenDoes
  <2>3. EffectInv'
    BY <1>3, <2>1, <2>2 DEF EffectInv, Waits, Finds, BusyPhases
  <2> QED BY <1>1, <1>2, <1>3, <2>1, <2>2, <2>3, ScreenOf, ShowsItself, SavingStep
<1>5. CASE ~save[2]
  <2>1. app' = TurnFailed(app) /\ Then("none")
    BY <1>1, <1>5
  <2>2. effect' \in EffectType /\ effect'.kind = "none"
    BY <1>3, <2>1, ThenDoes
  <2>3. /\ app' \in AppType /\ Screen(app') /\ ShowsNoMore(app, app')
        /\ app'.connection = app.connection /\ app'.auth = app.auth
        /\ app'.thread = app.thread /\ ~TurnActive(app') /\ app'.picker = app.picker
    BY <2>1, ScreenOf, TurnFailedDoes
  <2>4. Calm(app')
    BY <1>3, <2>3 DEF Calm, TurnActive
  <2>5. EffectInv'
    BY <2>2, <2>4, CalmIsSettled DEF EffectInv
  <2> QED BY <1>1, <1>2, <1>3, <2>2, <2>3, <2>5, SavingStep
<1> QED BY <1>4, <1>5

\* A save of an event that fails ends the receiving of events.
LEMMA PersistKeeps ==
  ASSUME Inv, Persist
  PROVE  Inv'
<1>1. PICK save \in Saves :
        /\ saved' = save[1] /\ unsaved' = (unsaved \/ ~save[2])
        /\ deaf' = (deaf \/ (effect.event /\ ~save[2]))
        /\ Counted(~save[2])
  BY DEF Persist
<1>2. /\ effect.kind = "persist" /\ effect' = NoEffect
      /\ UNCHANGED <<app, wire, events, server, next>>
  BY DEF Persist
<1>3. Calm(app)
  BY <1>2, ScreenOf, SettledIsCalm
<1>4. deaf' \in BOOLEAN /\ (deaf => deaf')
  BY <1>1 DEF Inv, TypeOK
<1>5. /\ app' \in AppType /\ Screen(app') /\ ShowsNoMore(app, app') /\ app'.auth = app.auth
      /\ app'.connection = app.connection
  BY <1>2, ScreenOf, ShowsItself
<1>6. effect' \in EffectType /\ EffectInv'
  BY <1>2, <1>3, CalmIsSettled, EffectsType DEF EffectInv
<1> QED BY <1>1, <1>2, <1>4, <1>5, <1>6, SavingStep

\* Every effect.
LEMMA EffectsKeep ==
  ASSUME Inv, Effects
  PROVE  Inv'
BY StartupKeeps, LoginStartsKeeps, CancelLoginKeeps, CancelReadsKeeps, LogsOutKeeps,
   ReadAccountKeeps, NewThreadStartsKeeps, ResumeThreadKeeps, ListThreadsKeeps,
   SwitchThreadKeeps, DeleteThreadKeeps, SendStartsThreadKeeps, SendPersistsKeeps,
   SendStartsTurnKeeps, InterruptCallsKeeps, PersistKeeps DEF Effects

-----------------------------------------------------------------------------
(* The app-server, and what the coordinator receives of it.                *)

\* What the app-server does and says leaves the screen and the files alone.
LEMMA ServerTells ==
  ASSUME Inv, wire = "open", ServerKeeps, counts' \in CountsType,
         NEW srv \in ServerType, NEW notes \in Seq(NoteType), Tell(srv, notes),
         srv.threads = server.threads,
         \/ \E i \in 1..Len(notes) : notes[i].kind = "AccountUpdated"
         \/ srv.account = server.account,
         \A r \in server.running :
           r \in srv.running \/
             \E i \in 1..Len(notes) : notes[i] = Note("TurnFinished", r[1], r[2])
  PROVE  Inv'
<1>1. /\ app' = app /\ saved' = saved /\ effect' = effect /\ deaf' = deaf
      /\ next' = next /\ unsaved' = unsaved
  BY DEF ServerKeeps
<1>2. TypeOK'
  BY <1>1, TellDoes DEF Inv, TypeOK
<1>3. /\ Screen(app') /\ ShowsNoMore(app, app') /\ EffectInv' /\ CallKeeps
      /\ Shows(app') = Shows(app)
  BY <1>1, ScreenOf, ShowsItself DEF Inv, EffectInv, CallKeeps
<1> QED BY <1>1, <1>2, <1>3, TellStep

\* The account of the app-server changes of its own accord.
LEMMA AccountChangesKeeps ==
  ASSUME Inv, NEW account \in ServerAccounts, AccountChanges(account)
  PROVE  Inv'
<1> DEFINE srv == [server EXCEPT !.account = account]  notes == <<AccountUpdated>>
<1>1. /\ wire = "open" /\ ServerKeeps /\ Tell(srv, notes)
      /\ counts' = [counts EXCEPT !.changes = @ + 1]
  BY DEF AccountChanges, Serves
<1>2. counts' \in CountsType
  <2>1. counts \in CountsType
    BY DEF Inv, TypeOK
  <2> QED BY <1>1, <2>1 DEF CountsType
<1>3. srv \in ServerType /\ srv.threads = server.threads /\ srv.running = server.running
  BY ScreenOf DEF ServerType
<1>4. AccountUpdated \in NoteType /\ AccountUpdated.kind = "AccountUpdated"
  BY NotesType
<1>5. notes \in Seq(NoteType) /\ 1 \in 1..Len(notes) /\ notes[1].kind = "AccountUpdated"
  BY <1>4
<1> HIDE DEF srv, notes
<1> QED BY <1>1, <1>2, <1>3, <1>5, ServerTells

\* A sign-in ends, in another account or none.
LEMMA LoginEndsKeeps ==
  ASSUME Inv, NEW l \in Logins \cup {None}, LoginEnds(l)
  PROVE  Inv'
<1>0. /\ wire = "open" /\ ServerKeeps /\ UNCHANGED counts /\ l \in {server.login, None}
      /\ \/ Tell([server EXCEPT !.login = None], <<LoginCompleted(l, FALSE)>>)
         \/ \E s \in Scopes :
              Tell([server EXCEPT !.login = None, !.account = s],
                   <<LoginCompleted(l, TRUE), AccountUpdated>>)
  BY Zenon DEF LoginEnds, Serves
<1>1. /\ wire = "open" /\ ServerKeeps /\ counts' \in CountsType /\ l \in Nat
  <2>1. counts' \in CountsType
    BY <1>0 DEF Inv, TypeOK
  <2>2. l \in Nat
    <3>1. l \in {server.login, None} /\ server \in ServerType
      BY <1>0, ScreenOf
    <3> QED BY <3>1 DEF ServerType, None
  <2> QED BY <1>0, <2>1, <2>2
<1>2. CASE Tell([server EXCEPT !.login = None], <<LoginCompleted(l, FALSE)>>)
  <2> DEFINE srv == [server EXCEPT !.login = None]
             ended == LoginCompleted(l, FALSE)  notes == <<ended>>
  <2>1. /\ srv \in ServerType /\ srv.threads = server.threads
        /\ srv.running = server.running /\ srv.account = server.account
    BY ScreenOf DEF ServerType, None
  <2>2. ended \in NoteType
    BY <1>1, NotesType
  <2>3. Tell(srv, notes)
    BY <1>2
  <2> HIDE DEF srv, ended
  <2>4. notes \in Seq(NoteType)
    BY <2>2
  <2> HIDE DEF notes
  <2> QED BY <1>1, <2>1, <2>3, <2>4, ServerTells
<1>3. ASSUME NEW s \in Scopes,
             Tell([server EXCEPT !.login = None, !.account = s],
                  <<LoginCompleted(l, TRUE), AccountUpdated>>)
      PROVE  Inv'
  <2> DEFINE srv == [server EXCEPT !.login = None, !.account = s]
             ended == LoginCompleted(l, TRUE)  notes == <<ended, AccountUpdated>>
  <2>1. /\ srv \in ServerType /\ srv.threads = server.threads
        /\ srv.running = server.running
    BY ScreenOf DEF ServerType, ServerAccounts, None
  <2>2. /\ ended \in NoteType /\ AccountUpdated \in NoteType
        /\ AccountUpdated.kind = "AccountUpdated"
    BY <1>1, NotesType
  <2>3. Tell(srv, notes)
    BY <1>3
  <2> HIDE DEF srv, ended
  <2>4. notes \in Seq(NoteType) /\ 2 \in 1..Len(notes) /\ notes[2].kind = "AccountUpdated"
    BY <2>2
  <2> HIDE DEF notes
  <2> QED BY <1>1, <2>1, <2>3, <2>4, ServerTells
<1> QED BY <1>0, <1>2, <1>3, Zenon

\* A turn that runs says something of its answer, or ends and says so.
LEMMA TurnsKeep ==
  ASSUME Inv, NEW r \in Threads \X Turns, TurnSays(r) \/ TurnEnds(r)
  PROVE  Inv'
<1>1. /\ wire = "open" /\ ServerKeeps /\ counts' \in CountsType
      /\ r \in server.running /\ r[1] \in SomeThread /\ r[2] \in Nat
  BY ThreadIds DEF TurnSays, TurnEnds, Serves, Inv, TypeOK, Turns
<1>2. ASSUME NEW kind \in {"AgentCompleted", "TurnFinished"},
             Tell(server, <<Note(kind, r[1], r[2])>>)
      PROVE  Inv'
  <2> DEFINE note == Note(kind, r[1], r[2])  notes == <<note>>
  <2>1. note \in NoteType
    BY <1>1, NotesType
  <2>2. Tell(server, notes)
    BY <1>2
  <2> HIDE DEF note
  <2>3. notes \in Seq(NoteType)
    BY <2>1
  <2> HIDE DEF notes
  <2> QED BY <1>1, <2>2, <2>3, ScreenOf, ServerTells
<1>3. ASSUME Tell([server EXCEPT !.running = @ \ {r}], <<Note("TurnFinished", r[1], r[2])>>)
      PROVE  Inv'
  <2> DEFINE srv == [server EXCEPT !.running = @ \ {r}]
             note == Note("TurnFinished", r[1], r[2])  notes == <<note>>
  <2>1. /\ srv \in ServerType /\ srv.threads = server.threads
        /\ srv.account = server.account /\ srv.running = server.running \ {r}
    BY ScreenOf DEF ServerType
  <2>2. note \in NoteType
    BY <1>1, NotesType
  <2>3. Tell(srv, notes)
    BY <1>3
  <2>4. ASSUME NEW q \in server.running
        PROVE  q \in srv.running \/
                 \E i \in 1..Len(notes) : notes[i] = Note("TurnFinished", q[1], q[2])
    <3>1. CASE q = r
      <4>1. 1 \in 1..Len(notes) /\ notes[1] = Note("TurnFinished", q[1], q[2])
        BY <3>1
      <4> QED BY <4>1
    <3>2. CASE q # r
      BY <2>1, <3>2
    <3> QED BY <3>1, <3>2
  <2> HIDE DEF srv, note
  <2>5. notes \in Seq(NoteType)
    BY <2>2
  <2> HIDE DEF notes
  <2> QED BY <1>1, <2>1, <2>3, <2>4, <2>5, ServerTells
<1> QED BY <1>2, <1>3 DEF TurnSays, TurnEnds

\* A child that ends leaves what it said, and its end, to be received.
LEMMA ChildEndsKeeps ==
  ASSUME Inv, ChildExits \/ RequestDenied
  PROVE  Inv'
<1>1. /\ app' = app /\ saved' = saved /\ effect' = effect /\ deaf' = deaf
      /\ next' = next /\ unsaved' = unsaved /\ wire' \in {"closed", "denied"}
      /\ server' = Stopped(server) /\ Counted(TRUE)
      /\ events' = events \/
           /\ Len(events) < QueueCapacity
           /\ events' = Append(events, Note("SafetyViolation", None, None))
  BY DEF ChildExits, RequestDenied, ServerKeeps
<1>2. /\ server' \in ServerType /\ server'.threads = server.threads
  BY <1>1, ScreenOf, StoppedType
<1>3. events' \in Seq(NoteType) /\ Len(events') <= QueueCapacity
  <2>1. Note("SafetyViolation", None, None) \in NoteType
    BY NotesType, ThreadIds DEF None
  <2>2. events \in Seq(NoteType) /\ Len(events) <= QueueCapacity /\ QueueCapacity \in Nat
    BY CodexAssumption DEF Inv, TypeOK
  <2> QED BY <1>1, <2>1, <2>2
<1>4. counts' \in CountsType
  BY <1>1, CountedType DEF Inv
<1>5. TypeOK'
  BY <1>1, <1>2, <1>3, <1>4 DEF Inv, TypeOK
<1>6. EffectInv' /\ AuthInv' /\ SavedInv' /\ StreamEnds' /\ ThreadIsKept'
  BY <1>1, <1>2 DEF Inv, EffectInv, AuthInv, SavedInv, StreamEnds, ThreadIsKept
<1> QED BY <1>1, <1>5, <1>6 DEF Inv

\* The app-server, whatever it does.
LEMMA AppServerKeeps ==
  ASSUME Inv, AppServer
  PROVE  Inv'
BY AccountChangesKeeps, LoginEndsKeeps, TurnsKeep, ChildEndsKeeps DEF AppServer

\* An event is received: what it says is on the screen, or is read.
LEMMA ReducesStep ==
  ASSUME Inv, Receives, events # <<>>, NEW a \in AppType, NEW asks \in BOOLEAN,
         Reduces(a, asks), Screen(a), Calm(a), ShowsNoMore(app, a),
         a.connection \in {app.connection, "Failed"}, Shows(a) = Shows(app),
         asks \/ Head(events).kind # "AccountUpdated",
         a.turn.kind = "Streaming" =>
           Head(events) # Note("TurnFinished", a.turn.thread, a.turn.turn)
  PROVE  Inv'
<1>1. /\ app' = a /\ saved' = saved /\ deaf' = deaf /\ unsaved' = unsaved
      /\ next' = next /\ counts' = counts /\ wire' = wire /\ server' = server
      /\ events' = Tail(events) /\ CallKeeps
      /\ effect' = IF asks THEN [Effect("read", None) EXCEPT !.event = TRUE] ELSE NoEffect
  BY DEF Reduces, StepKeeps, CallKeeps
<1>2. /\ effect' \in EffectType /\ effect'.kind = IF asks THEN "read" ELSE "none"
  <2>1. Effect("read", None) \in EffectType /\ Effect("read", None).kind = "read"
    BY EffectsType DEF None
  <2>2. /\ [Effect("read", None) EXCEPT !.event = TRUE] \in EffectType
        /\ [Effect("read", None) EXCEPT !.event = TRUE].kind = "read"
    BY <2>1 DEF EffectType
  <2>3. CASE asks
    <3>1. effect' = [Effect("read", None) EXCEPT !.event = TRUE]
      BY <1>1, <2>3
    <3> QED BY <2>2, <2>3, <3>1
  <2>4. CASE ~asks
    <3>1. effect' = NoEffect
      BY <1>1, <2>4
    <3> QED BY <2>4, <3>1, EffectsType
  <2> QED BY <2>3, <2>4
<1>3. EffectInv'
  <2>1. effect'.kind \in {"none", "read"}
    BY <1>2
  <2> QED BY <1>1, <2>1, CalmIsSettled DEF EffectInv
<1>4. events \in Seq(NoteType) /\ Len(events) <= QueueCapacity /\ QueueCapacity \in Nat
  BY CodexAssumption DEF Inv, TypeOK
<1>5. events' \in Seq(NoteType) /\ Len(events') <= QueueCapacity
  BY <1>1, <1>4
<1>6. TypeOK'
  BY <1>1, <1>2, <1>5 DEF Inv, TypeOK
<1>7. ASSUME NEW i \in 1..Len(events), events[i] # Head(events)
      PROVE  \E j \in 1..Len(events') : events'[j] = events[i]
  <2>1. i # 1
    BY <1>4, <1>7
  <2>2. i - 1 \in 1..Len(events') /\ events'[i - 1] = events[i]
    BY <1>1, <1>4, <2>1, TailKeeps
  <2> QED BY <2>2
<1>8. AuthInv'
  <2>1. SUFFICES ASSUME ~asks, ~deaf, wire = "open", app.connection = "Ready",
                        Shows(app) # server.account
                 PROVE  \E j \in 1..Len(events') : events'[j].kind = "AccountUpdated"
    BY <1>1, <1>2 DEF AuthInv, AccountShown, Shows
  <2>2. PICK i \in 1..Len(events) : events[i].kind = "AccountUpdated"
    BY <2>1 DEF Receives, CoordinatorFree, Inv, AuthInv, AccountShown, Shows
  <2>3. events[i] # Head(events)
    BY <2>1, <2>2
  <2> QED BY <1>7, <2>2, <2>3
<1>9. SavedInv'
  BY <1>1 DEF Receives, CoordinatorFree, Inv, SavedInv, ShowsNoMore
<1>10. StreamEnds'
  <2> DEFINE end == Note("TurnFinished", a.turn.thread, a.turn.turn)
  <2>1. SUFFICES ASSUME a.turn.kind = "Streaming", ~deaf
                 PROVE  \/ <<a.turn.thread, a.turn.turn>> \in server.running
                        \/ \E j \in 1..Len(events') : events'[j] = end
                        \/ wire \in {"closed", "denied"}
    BY <1>1 DEF StreamEnds
  <2>2. end # Head(events)
    BY <2>1
  <2>3. \/ <<a.turn.thread, a.turn.turn>> \in server.running
        \/ \E i \in 1..Len(events) : events[i] = end
        \/ wire \in {"closed", "denied"}
    BY <2>1 DEF Inv, StreamEnds, ShowsNoMore
  <2> QED BY <1>7, <2>2, <2>3
<1>11. ThreadIsKept'
  BY <1>1 DEF Inv, ThreadIsKept, ShowsNoMore
<1> QED BY <1>1, <1>3, <1>6, <1>8, <1>9, <1>10, <1>11 DEF Inv

\* Every event, and one that means nothing here.
LEMMA ReceiveEventKeeps ==
  ASSUME Inv, ReceiveEvent
  PROVE  Inv'
<1> DEFINE e == Head(events)
           streaming == app.turn = Streaming(e.thread, e.turn)
           ended == [app EXCEPT !.turn = TurnIs("Idle")]
<1>1. Receives /\ events # <<>>
  BY DEF ReceiveEvent
<1>2. Calm(app) /\ app \in AppType /\ Screen(app) /\ app.turn \in TurnType
  BY <1>1, FreeIsCalm, ScreenOf DEF Receives
<1>3. \/ (e.kind = "AccountUpdated" \/ e.kind = "LoginCompleted") /\ Reduces(app, TRUE)
      \/ e.kind = "LoginCompleted" /\ Correlated(e) /\ Reduces(LoginFailed(app), FALSE)
      \/ e.kind = "SafetyViolation" /\ Reduces(SafetyViolation(app), FALSE)
      \/ e.kind = "TurnFinished" /\ streaming /\ Reduces(ended, FALSE)
      \/ e.kind = "AgentCompleted" /\ Reduces(TurnFailed(app), FALSE)
      \/ /\ e.kind # "AccountUpdated" /\ ~(e.kind = "TurnFinished" /\ streaming)
         /\ Reduces(app, FALSE)
  BY Zenon DEF ReceiveEvent
<1>4. ASSUME app.turn.kind = "Streaming", e = Note("TurnFinished", app.turn.thread, app.turn.turn)
      PROVE  e.kind = "TurnFinished" /\ streaming
  <2> DEFINE t == app.turn.thread  u == app.turn.turn
  <2>1. app.turn = Streaming(t, u)
    BY <1>2, <1>4 DEF Streaming, TurnType
  <2>2. /\ Note("TurnFinished", t, u).kind = "TurnFinished"
        /\ Note("TurnFinished", t, u).thread = t /\ Note("TurnFinished", t, u).turn = u
    BY DEF Note
  <2> HIDE DEF t, u
  <2>3. e.kind = "TurnFinished" /\ e.thread = t /\ e.turn = u
    BY <1>4, <2>2 DEF t, u
  <2> QED BY <2>1, <2>3
<1> HIDE DEF e, streaming, ended
<1>5. CASE (e.kind = "AccountUpdated" \/ e.kind = "LoginCompleted") /\ Reduces(app, TRUE)
  <2>1. ASSUME app.turn.kind = "Streaming"
        PROVE  e # Note("TurnFinished", app.turn.thread, app.turn.turn)
    BY <1>4, <1>5, <2>1
  <2> QED BY <1>1, <1>2, <1>5, <2>1, ShowsItself, ReducesStep DEF e
<1>6. CASE e.kind = "LoginCompleted" /\ Correlated(e) /\ Reduces(LoginFailed(app), FALSE)
  <2> DEFINE b == LoginFailed(app)
  <2>1. /\ b \in AppType /\ Screen(b) /\ ShowsNoMore(app, b)
        /\ b.connection = app.connection /\ b.auth.kind = "SignedOut"
        /\ b.thread = app.thread /\ b.turn = app.turn /\ b.picker = app.picker
    BY <1>2, LoginFailedDoes
  <2>2. Reduces(b, FALSE)
    BY <1>6
  <2> HIDE DEF b
  <2>3. Calm(b) /\ Shows(b) = Shows(app)
    BY <1>2, <1>6, <2>1 DEF Calm, Shows, Correlated
  <2>4. ASSUME b.turn.kind = "Streaming"
        PROVE  e # Note("TurnFinished", b.turn.thread, b.turn.turn)
    BY <1>4, <1>6, <2>1, <2>4
  <2> QED BY <1>1, <1>6, <2>1, <2>2, <2>3, <2>4, ReducesStep DEF e
<1>7. CASE e.kind = "SafetyViolation" /\ Reduces(SafetyViolation(app), FALSE)
  <2> DEFINE b == SafetyViolation(app)
  <2>1. /\ b \in AppType /\ Screen(b) /\ ShowsNoMore(app, b)
        /\ b.connection = "Failed" /\ b.auth = app.auth
        /\ b.thread = app.thread /\ ~TurnActive(b)
        /\ b.picker.phase \in {"closed", "Failed"}
    BY <1>2, SafetyViolationDoes
  <2>2. Reduces(b, FALSE)
    BY <1>7
  <2> HIDE DEF b
  <2>3. Calm(b) /\ Shows(b) = Shows(app) /\ b.turn.kind # "Streaming"
    BY <1>2, <2>1, StaysCalm DEF Shows, TurnActive
  <2> QED BY <1>1, <1>7, <2>1, <2>2, <2>3, ReducesStep DEF e
<1>8. CASE e.kind = "TurnFinished" /\ streaming /\ Reduces(ended, FALSE)
  <2>1. /\ ended \in AppType /\ SamePreferences(app, ended)
        /\ ended.connection = app.connection /\ ended.auth = app.auth
        /\ ended.thread = app.thread /\ ended.turn = TurnIs("Idle")
        /\ ended.picker = app.picker
    BY <1>2, TurnChanges, TurnsType DEF ended
  <2>2. Screen(ended)
    BY <1>2, <2>1, ScreenKept, TurnsType
  <2>3. /\ Calm(ended) /\ Shows(ended) = Shows(app) /\ ended.turn.kind = "Idle"
        /\ ShowsNoMore(app, ended)
    BY <1>2, <2>1, TurnsType DEF Calm, Shows, ShowsNoMore, SamePreferences
  <2> QED BY <1>1, <1>8, <2>1, <2>2, <2>3, ReducesStep DEF e
<1>9. CASE e.kind = "AgentCompleted" /\ Reduces(TurnFailed(app), FALSE)
  <2> DEFINE b == TurnFailed(app)
  <2>1. /\ b \in AppType /\ Screen(b) /\ ShowsNoMore(app, b)
        /\ b.connection = app.connection /\ b.auth = app.auth
        /\ b.thread = app.thread /\ ~TurnActive(b) /\ b.picker = app.picker
    BY <1>2, TurnFailedDoes
  <2>2. Reduces(b, FALSE)
    BY <1>9
  <2> HIDE DEF b
  <2>3. Calm(b) /\ Shows(b) = Shows(app) /\ b.turn.kind # "Streaming"
    BY <1>2, <2>1, StaysCalm DEF Shows, TurnActive
  <2> QED BY <1>1, <1>9, <2>1, <2>2, <2>3, ReducesStep DEF e
<1>10. CASE /\ e.kind # "AccountUpdated" /\ ~(e.kind = "TurnFinished" /\ streaming)
            /\ Reduces(app, FALSE)
  <2>1. ASSUME app.turn.kind = "Streaming"
        PROVE  e # Note("TurnFinished", app.turn.thread, app.turn.turn)
    BY <1>4, <1>10, <2>1
  <2> QED BY <1>1, <1>2, <1>10, <2>1, ShowsItself, ReducesStep DEF e
<1> QED BY <1>3, <1>5, <1>6, <1>7, <1>8, <1>9, <1>10

\* The end of the events, or what cannot be read, ends the session.
LEMMA ReceiveEndKeeps ==
  ASSUME Inv, ReceiveEnd
  PROVE  Inv'
<1>1. /\ CoordinatorFree /\ app' = ConnectionFailed(app) /\ Dropped /\ CallKeeps
      /\ effect' = effect /\ next' = next /\ (Counted(TRUE) \/ Counted(FALSE))
  BY DEF ReceiveEnd, Receives
<1>2. Calm(app') /\ counts' \in CountsType
  <2>1. /\ app'.thread = app.thread /\ ~TurnActive(app')
        /\ app'.picker = app.picker \/ app'.picker.phase \in {"closed", "Failed"}
    BY <1>1, ScreenOf, ConnectionFailedDoes
  <2> QED BY <1>1, <2>1, FreeIsCalm, StaysCalm, CountedType DEF Inv
<1>3. /\ Calm(app) /\ effect.kind = "none" /\ effect' \in EffectType /\ effect'.kind = "none"
  BY <1>1, FreeIsCalm, ScreenOf DEF CoordinatorFree
<1> QED BY <1>1, <1>2, <1>3, DroppedStep

-----------------------------------------------------------------------------
(* The end of a process and the next one, and the invariant.               *)

\* The next process starts with the file, and shows nothing.
LEMMA RestartKeeps ==
  ASSUME Inv, NEW p \in PreferencesType, Valid(p), NEW fault \in {0, 1}, Restart(p, fault),
         unsaved' \in BOOLEAN, unsaved => unsaved',
         p.pointer \in {saved.pointer, app.pointer}
  PROVE  Inv'
<1>1. /\ saved' = p /\ app' = Initial(p) /\ effect' = Effect("startup", None)
      /\ deaf' = FALSE /\ wire' \in {"open", "gone"} /\ events' = <<>>
      /\ server' = Stopped(server) /\ next' = next
      /\ counts' = [counts EXCEPT !.restarts = @ + 1, !.faults = @ + fault]
  BY DEF Restart
<1>2. /\ app' \in AppType /\ Screen(app') /\ Calm(app') /\ app'.pointer = p.pointer
      /\ app'.connection = "Disconnected" /\ app'.thread.kind = "None"
      /\ app'.turn.kind = "Idle"
  BY <1>1, InitialDoes
<1>3. effect' \in EffectType /\ effect'.kind = "startup"
  BY <1>1, EffectsType DEF None
<1>4. server' \in ServerType /\ server'.threads = server.threads
  BY <1>1, ScreenOf, StoppedType
<1>5. counts' \in CountsType
  <2>1. /\ counts \in CountsType /\ counts.restarts + 1 \in Nat
        /\ counts.faults + fault \in Nat
    BY DEF Inv, TypeOK, CountsType
  <2> DEFINE restarts == counts.restarts + 1  faults == counts.faults + fault
  <2>2. counts' = [counts EXCEPT !.restarts = restarts, !.faults = faults]
    BY <1>1, <2>1 DEF CountsType
  <2>3. counts \in CountsType /\ restarts \in Nat /\ faults \in Nat
    BY <2>1
  <2> HIDE DEF restarts, faults
  <2> QED BY <2>2, <2>3 DEF CountsType
<1>6. events' \in Seq(NoteType) /\ Len(events') <= QueueCapacity
  BY <1>1, CodexAssumption
<1>7. TypeOK'
  BY <1>1, <1>2, <1>3, <1>4, <1>5, <1>6 DEF Inv, TypeOK
<1>8. EffectInv'
  BY <1>2, <1>3 DEF EffectInv, Calm, BusyPhases, Waits, Finds
<1>9. AuthInv' /\ SavedInv' /\ StreamEnds'
  BY <1>1, <1>2 DEF AuthInv, SavedInv, StreamEnds
<1>10. ThreadIsKept'
  BY <1>1, <1>2, <1>4 DEF Inv, ThreadIsKept
<1> QED BY <1>2, <1>7, <1>8, <1>9, <1>10 DEF Inv

\* A process ends at a save of its own, or anywhere.
LEMMA RestartsKeep ==
  ASSUME Inv, Quit \/ Crash
  PROVE  Inv'
<1>1. CASE Quit
  <2>1. PICK save \in Saves : /\ Restart(save[1], IF save[2] THEN 0 ELSE 1)
                              /\ unsaved' = (unsaved \/ ~save[2])
    BY <1>1 DEF Quit
  <2>2. /\ save[1] \in PreferencesType /\ Valid(save[1])
        /\ save[1].pointer \in {saved.pointer, app.pointer}
    BY SavesAre
  <2> DEFINE fault == IF save[2] THEN 0 ELSE 1
  <2>3. fault \in {0, 1} /\ Restart(save[1], fault)
    BY <2>1
  <2>4. unsaved' \in BOOLEAN /\ (unsaved => unsaved')
    BY <2>1
  <2> HIDE DEF fault
  <2> QED BY <2>2, <2>3, <2>4, RestartKeeps
<1>2. CASE Crash
  <2>1. Restart(saved, 0) /\ unsaved' = unsaved
    BY <1>2 DEF Crash
  <2>2. saved \in PreferencesType /\ Valid(saved) /\ unsaved \in BOOLEAN
    BY DEF Inv, TypeOK, SavedInv
  <2> QED BY <2>1, <2>2, RestartKeeps
<1> QED BY <1>1, <1>2

\* The invariant holds of a first start, and of one after a version without a registry.
LEMMA InitInv == Init => Inv
<1> SUFFICES ASSUME Init PROVE Inv
  OBVIOUS
<1>1. /\ saved \in SavedBefore /\ app = Initial(saved) /\ effect = Effect("startup", None)
      /\ deaf = FALSE /\ wire \in {"open", "gone"} /\ events = <<>> /\ unsaved = FALSE
      /\ next = [thread |-> IF saved.pointer = None THEN 1 ELSE 2, turn |-> 1, login |-> 1]
      /\ counts = [changes |-> 0, switches |-> 0, restarts |-> 0, faults |-> 0]
  BY DEF Init
<1>2. PICK account \in ServerAccounts :
        server = [account |-> account, login |-> None, running |-> {},
                  threads |-> {saved.pointer} \ {None}]
  BY DEF Init
<1>3. saved \in PreferencesType /\ Valid(saved)
  <2> DEFINE first == [provider |-> "Codex", pointer |-> None, scope |-> NoScope,
                       registry |-> Unregistered]
  <2>1. /\ Unregistered \in [Threads -> Scopes]
        /\ \A t \in Threads : Unregistered[t] = NoScope
    BY ThreadIds DEF Unregistered
  <2>2. saved = first \/ \E s \in Accounts : saved = [first EXCEPT !.pointer = 1, !.scope = s]
    BY <1>1 DEF SavedBefore
  <2>3. CASE saved = first
    BY <2>1, <2>3, ThreadIds DEF PreferencesType, Valid, Providers
  <2>4. ASSUME NEW s \in Accounts, saved = [first EXCEPT !.pointer = 1, !.scope = s]
        PROVE  saved \in PreferencesType /\ Valid(saved)
    <3>1. saved = [provider |-> "Codex", pointer |-> 1, scope |-> s, registry |-> Unregistered]
      BY <2>4
    <3>2. 1 \in Threads /\ 1 \in SomeThread /\ s \in Scopes
      BY <2>4, ThreadIds DEF Scopes
    <3> QED BY <2>1, <3>1, <3>2 DEF PreferencesType, Valid, Providers
  <2> QED BY <2>2, <2>3, <2>4
<1>4. /\ app \in AppType /\ Screen(app) /\ Calm(app) /\ app.pointer = saved.pointer
      /\ app.connection = "Disconnected" /\ app.thread.kind = "None"
      /\ app.turn.kind = "Idle"
  BY <1>1, <1>3, InitialDoes
<1>5. effect \in EffectType /\ effect.kind = "startup"
  BY <1>1, EffectsType DEF None
<1>6. server \in ServerType /\ server.threads = {saved.pointer} \ {None}
  <2>1. saved.pointer \in SomeThread
    BY <1>3 DEF PreferencesType
  <2> QED BY <1>2, <2>1 DEF ServerType, SomeThread, None
<1>7. /\ counts \in CountsType /\ next \in [thread : Nat, turn : Nat, login : Nat]
  BY <1>1 DEF CountsType
<1>8. events \in Seq(NoteType) /\ Len(events) <= QueueCapacity
  BY <1>1, CodexAssumption
<1>9. TypeOK
  BY <1>1, <1>3, <1>4, <1>5, <1>6, <1>7, <1>8 DEF TypeOK
<1>10. EffectInv
  BY <1>4, <1>5 DEF EffectInv, Calm, BusyPhases, Waits, Finds
<1>11. AuthInv /\ SavedInv /\ StreamEnds
  BY <1>3, <1>4 DEF AuthInv, SavedInv, StreamEnds
<1>12. ThreadIsKept
  BY <1>4, <1>6 DEF ThreadIsKept
<1> QED BY <1>4, <1>9, <1>10, <1>11, <1>12 DEF Inv

\* A step that changes nothing.
LEMMA StutterKeeps ==
  ASSUME Inv, UNCHANGED vars
  PROVE  Inv'
<1>1. /\ app' = app /\ saved' = saved /\ effect' = effect /\ deaf' = deaf /\ wire' = wire
      /\ events' = events /\ server' = server /\ next' = next /\ counts' = counts
      /\ unsaved' = unsaved
  BY DEF vars
<1>2. TypeOK' /\ Screen(app') /\ EffectInv'
  BY <1>1 DEF Inv, TypeOK, EffectInv
<1>3. AuthInv' /\ SavedInv' /\ StreamEnds' /\ ThreadIsKept'
  BY <1>1 DEF Inv, AuthInv, AccountShown, SavedInv, StreamEnds, ThreadIsKept
<1> QED BY <1>2, <1>3 DEF Inv

\* Every step keeps it.
LEMMA StepInv == Inv /\ [Next]_vars => Inv'
BY IntentsKeep, EffectsKeep, AppServerKeeps, ReceiveEventKeeps, ReceiveEndKeeps,
   RestartsKeep, StutterKeeps DEF Next

\* The inductive invariant holds throughout.
THEOREM Invariance == Spec => []Inv
BY InitInv, StepInv, PTL DEF Spec

-----------------------------------------------------------------------------
(* What it means.                                                          *)

\* Nothing on the screen waits for an effect that has ended (effects of
\* src/src/backend/effects.rs; each ends in an event of the reducer, on every path).
THEOREM IdleScreenIsSettled == Spec => []IdleIsSettled
<1>1. Inv => IdleIsSettled
  BY DEF Inv, EffectInv, Waits, IdleIsSettled, CoordinatorFree
<1> QED BY <1>1, Invariance, PTL

\* The account on the screen is the app-server's, or a notification of it is queued.
THEOREM AccountShownIsRight == Spec => []AuthAgrees
<1>1. Inv => AuthAgrees
  BY DEF Inv, AuthInv, AuthAgrees, CoordinatorFree
<1> QED BY <1>1, Invariance, PTL

\* The thread on the screen is registered to the account that is signed in.
THEOREM ShownThreadIsOwn == Spec => []OwnThread
<1>1. Inv => OwnThread
  BY DEF Inv, Screen, OwnThread
<1> QED BY <1>1, Invariance, PTL

\* A turn that streams on the screen runs, or its end is still to be received.
THEOREM StreamsEnd == Spec => []StreamEnds
<1>1. Inv => StreamEnds
  BY DEF Inv
<1> QED BY <1>1, Invariance, PTL

\* No deletion takes the thread on the screen, or the one that a start resumes.
THEOREM ShownThreadIsKept == Spec => []ThreadIsKept
<1>1. Inv => ThreadIsKept
  BY DEF Inv
<1> QED BY <1>1, Invariance, PTL

\* What the coordinator saves, the next start accepts.
THEOREM SavedPreferencesAreValid == Spec => []PreferencesAreValid
<1>1. Inv => PreferencesAreValid
  <2>1. SUFFICES ASSUME Inv PROVE Valid(Preferences(app))
    BY DEF PreferencesAreValid
  <2>2. /\ app.provider \in Providers /\ app.pointer \in SomeThread
        /\ app.provider = "Other" => app.pointer = None
        /\ app.pointer # None /\ app.scope # NoScope => app.registry[app.pointer] = app.scope
    <3>1. app.provider \in Providers /\ app.pointer \in SomeThread
      BY <2>1, ScreenOf DEF AppType
    <3> QED BY <2>1, <3>1, ScreenOf DEF Screen
  <2> QED BY <2>2 DEF Valid, Preferences, Providers
<1> QED BY <1>1, Invariance, PTL
=============================================================================
