----------------------------- MODULE TurnStream -----------------------------
(***************************************************************************)
(* What the Claude service promises the coordinator about the events it    *)
(* queues (ClaudeServiceEvent, src/src/claude/types.rs): at most one turn  *)
(* is open at a time, each turn is opened once, everything said of it is   *)
(* said between its TurnStarted and its TurnFinished, its text only after  *)
(* its Initialized, and nothing is reordered or dropped from the middle.   *)
(* The reducer relies on it: it matches a turn's events by id alone.       *)
(***************************************************************************)
EXTENDS Naturals, Sequences

CONSTANTS Turns, NoTurn, Sessions, NoSession, Outcomes

VARIABLES queue,        \* events sent and not received
          current,      \* the open turn
          session,      \* and its session
          initialized,  \* whether its Initialized was sent
          last          \* the last turn opened

streamVars == <<queue, current, session, initialized, last>>

TypeOK == /\ current \in Turns \cup {NoTurn}
          /\ last \in Turns \cup {NoTurn}
          /\ session \in Sessions \cup {NoSession}
          /\ initialized \in BOOLEAN

Init == /\ queue = <<>>
        /\ current = NoTurn
        /\ session = NoSession
        /\ initialized = FALSE
        /\ last = NoTurn

Say(kind, s, t, outcome, uncertain) ==
  queue' = Append(queue, [kind |-> kind, session |-> s, turn |-> t,
                          outcome |-> outcome, uncertain |-> uncertain])

Begin(t, s) ==
  /\ current = NoTurn /\ t > last
  /\ current' = t /\ last' = t /\ session' = s /\ initialized' = FALSE
  /\ Say("TurnStarted", s, t, "InProgress", FALSE)

Initialize ==
  /\ current # NoTurn /\ ~initialized
  /\ initialized' = TRUE
  /\ Say("Initialized", session, current, "InProgress", FALSE)
  /\ UNCHANGED <<current, session, last>>

Speak ==
  /\ initialized
  /\ Say("TextDelta", session, current, "InProgress", FALSE)
  /\ UNCHANGED <<current, session, initialized, last>>

\* Only an initialized turn completes.
Finish(outcome, uncertain) ==
  /\ current # NoTurn
  /\ outcome = "Completed" => initialized /\ ~uncertain
  /\ Say("TurnFinished", session, current, outcome, uncertain)
  /\ current' = NoTurn /\ session' = NoSession /\ initialized' = FALSE
  /\ UNCHANGED last

Receive ==
  /\ queue # <<>>
  /\ queue' = Tail(queue)
  /\ UNCHANGED <<current, session, initialized, last>>

\* A drain takes all that is left, with no turn open.
ReceiveAll ==
  /\ current = NoTurn
  /\ queue' = <<>>
  /\ UNCHANGED <<current, session, initialized, last>>

\* The process ended.
Lose ==
  /\ queue' = <<>>
  /\ current' = NoTurn /\ session' = NoSession /\ initialized' = FALSE
  /\ UNCHANGED last

Next == \/ \E t \in Turns, s \in Sessions : Begin(t, s)
        \/ Initialize
        \/ Speak
        \/ \E outcome \in Outcomes \ {"InProgress"}, uncertain \in BOOLEAN :
             Finish(outcome, uncertain)
        \/ Receive
        \/ ReceiveAll
        \/ Lose

Spec == Init /\ [][Next]_streamVars
=============================================================================
