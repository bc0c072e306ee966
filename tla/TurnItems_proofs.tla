--------------------------- MODULE TurnItems_proofs ---------------------------
(* That no late event changes a message whose final text was accepted: the   *)
(* tracker knows it, or is full and lets nothing through any more.           *)
EXTENDS TurnItems, TLAPS

TurnTypeOK ==
  /\ turn \in [number : Nat, at : {"idle", "starting", "streaming"}]
  /\ tracker \in [turn : Nat, ids : SUBSET Items, saturated : BOOLEAN]
  /\ taken = [k \in Keys |-> taken[k]] /\ final = [k \in Keys |-> final[k]]

\* Only of the turns so far, and of none that is about to start.
FinalsAreOfTheTurns ==
  \A k \in Keys : final[k] # {} =>
    k[1] <= turn.number /\ (turn.at = "starting" => k[1] # turn.number)

\* While a turn streams, the tracker is about it and keeps its final messages out.
FinalsAreTracked ==
  turn.at = "streaming" =>
    /\ tracker.turn = turn.number
    /\ \A k \in Keys :
         final[k] # {} /\ k[1] = turn.number => tracker.saturated \/ k[2] \in tracker.ids

FinalInv == TurnTypeOK /\ FinalsAreOfTheTurns /\ FinalsAreTracked /\ CompletedIsFinal

\* A key is the number of a turn and an item of it.
LEMMA KeysAreOfTurns == \A k \in Keys : k[1] \in Nat /\ k[2] \in Items
BY DEF Keys

\* Before the first turn there is no final text.
LEMMA FinalInit == Init => FinalInv
<1> SUFFICES ASSUME Init PROVE FinalInv
  OBVIOUS
<1>1. PICK history \in Histories :
        /\ IsHistory(history)
        /\ taken = [k \in Keys |-> LET of == {n \in DOMAIN history : history[n].of = k} IN
                     IF of = {} THEN <<>> ELSE history[CHOOSE n \in of : TRUE].text]
        /\ final = [k \in Keys |->
                     {history[n].text : n \in {n \in DOMAIN history : history[n].of = k}}]
  BY DEF Init
<1>2. ASSUME NEW k \in Keys, NEW text \in final[k]
      PROVE  k[1] = 1 /\ text = taken[k]
  <2>1. PICK n \in DOMAIN history : history[n].of = k /\ text = history[n].text
    BY <1>1, <1>2
  <2>2. DEFINE of == {m \in DOMAIN history : history[m].of = k}
  <2>3. of = {n}
    BY <1>1, <2>1 DEF IsHistory
  <2>4. (CHOOSE m \in of : TRUE) = n
    BY <2>3
  <2>5. taken[k] = IF of = {} THEN <<>> ELSE history[CHOOSE m \in of : TRUE].text
    BY <1>1
  <2>6. taken[k] = text
    BY <2>1, <2>3, <2>4, <2>5
  <2>7. k[1] = 1
    BY <1>1, <2>1 DEF IsHistory
  <2> QED BY <2>6, <2>7
<1>3. turn = [number |-> 1, at |-> "idle"] /\ tracker = NoTracker
  BY DEF Init
<1>4. taken = [k \in Keys |-> taken[k]] /\ final = [k \in Keys |-> final[k]]
  BY <1>1
<1>5. TurnTypeOK
  BY <1>3, <1>4 DEF TurnTypeOK, NoTracker
<1>6. FinalsAreOfTheTurns /\ FinalsAreTracked
  BY <1>2, <1>3 DEF FinalsAreOfTheTurns, FinalsAreTracked
<1>7. CompletedIsFinal
  BY <1>2 DEF CompletedIsFinal
<1> QED BY <1>5, <1>6, <1>7 DEF FinalInv

\* A turn that starts is a new one.
LEMMA SendKeeps ==
  ASSUME FinalInv, Send
  PROVE  FinalInv'
<1>1. /\ turn' = [number |-> turn.number + 1, at |-> "starting"]
      /\ UNCHANGED <<tracker, taken, final>>
  BY DEF Send
<1>2. \A k \in Keys : k[1] \in Nat /\ (final[k] # {} => k[1] <= turn.number)
  BY KeysAreOfTurns DEF FinalInv, TurnTypeOK, FinalsAreOfTheTurns
<1>3. TurnTypeOK'
  BY <1>1 DEF FinalInv, TurnTypeOK
<1>4. FinalsAreOfTheTurns'
  BY <1>1, <1>2 DEF FinalInv, TurnTypeOK, FinalsAreOfTheTurns
<1>5. FinalsAreTracked'
  BY <1>1 DEF FinalsAreTracked
<1> QED BY <1>1, <1>3, <1>4, <1>5 DEF FinalInv, CompletedIsFinal

\* A turn that begins, with an empty tracker, keeps the invariant.
LEMMA BeginsKeeps ==
  ASSUME FinalInv, Begins
  PROVE  FinalInv'
<1>1. /\ turn.at = "starting" /\ turn' = [turn EXCEPT !.at = "streaming"]
      /\ tracker' = [NoTracker EXCEPT !.turn = turn.number]
      /\ UNCHANGED <<taken, final>>
  BY DEF Begins
<1>2. turn'.number = turn.number /\ turn'.at = "streaming" /\ tracker'.turn = turn.number
  BY <1>1 DEF FinalInv, TurnTypeOK, NoTracker
<1>3. TurnTypeOK'
  BY <1>1 DEF FinalInv, TurnTypeOK, NoTracker
<1> QED
  BY <1>1, <1>2, <1>3 DEF FinalInv, FinalsAreOfTheTurns, FinalsAreTracked, CompletedIsFinal

\* The end of a turn keeps the invariant.
LEMMA EndsKeeps ==
  ASSUME FinalInv, turn' = [turn EXCEPT !.at = "idle"], UNCHANGED <<taken, final>>,
         tracker' \in [turn : Nat, ids : SUBSET Items, saturated : BOOLEAN]
  PROVE  FinalInv'
<1>1. turn'.number = turn.number /\ turn'.at = "idle"
  BY DEF FinalInv, TurnTypeOK
<1>2. TurnTypeOK'
  BY DEF FinalInv, TurnTypeOK
<1> QED BY <1>1, <1>2 DEF FinalInv, FinalsAreOfTheTurns, FinalsAreTracked, CompletedIsFinal

\* A final message of the turn is kept out, and of another turn not looked at.
LEMMA FinalsAreKeptOut ==
  ASSUME FinalInv, NEW k \in Keys, final[k] # {}, Active(k)
  PROVE  ShouldIgnore(k)
<1>1. turn.number = k[1] /\ turn.at = "streaming"
  BY DEF Active
<1> QED BY <1>1 DEF FinalInv, FinalsAreTracked, ShouldIgnore

\* A delta, which only adds to what was taken of its item, keeps the invariant.
LEMMA DeltaKeeps ==
  ASSUME FinalInv, NEW k \in Keys, NEW delta, Delta(k, delta)
  PROVE  FinalInv'
<1>1. /\ taken' = [taken EXCEPT ![k] = @ \o delta]
      /\ UNCHANGED <<turn, tracker, final>>
  BY DEF Delta
<1>2. final[k] = {}
  BY FinalsAreKeptOut DEF Delta
<1>3. TurnTypeOK'
  BY <1>1 DEF FinalInv, TurnTypeOK
<1>4. FinalsAreOfTheTurns' /\ FinalsAreTracked'
  BY <1>1 DEF FinalInv, FinalsAreOfTheTurns, FinalsAreTracked
<1>5. CompletedIsFinal'
  BY <1>1, <1>2 DEF FinalInv, TurnTypeOK, CompletedIsFinal
<1> QED BY <1>3, <1>4, <1>5 DEF FinalInv

\* The tracker forgets nothing, and afterwards keeps this item out.
LEMMA RecordingKeepsOut ==
  ASSUME FinalInv, NEW k \in Keys, tracker' = Recorded(k)
  PROVE  /\ tracker' \in [turn : Nat, ids : SUBSET Items, saturated : BOOLEAN]
         /\ tracker'.turn = tracker.turn
         /\ tracker.saturated => tracker'.saturated
         /\ tracker.ids \subseteq tracker'.ids
         /\ tracker.turn = k[1] => tracker'.saturated \/ k[2] \in tracker'.ids
<1>1. tracker \in [turn : Nat, ids : SUBSET Items, saturated : BOOLEAN] /\ k[2] \in Items
  BY KeysAreOfTurns DEF FinalInv, TurnTypeOK
<1>2. CASE tracker.turn # k[1]
  BY <1>1, <1>2 DEF Recorded
<1>3. CASE tracker.turn = k[1] /\ Cardinality(tracker.ids) >= MaxTracked
  <2>1. tracker' = [tracker EXCEPT !.saturated = TRUE]
    BY <1>3 DEF Recorded
  <2> QED BY <1>1, <2>1
<1>4. CASE tracker.turn = k[1] /\ ~(Cardinality(tracker.ids) >= MaxTracked)
  <2>1. tracker' = [tracker EXCEPT !.ids = @ \cup {k[2]}]
    BY <1>4 DEF Recorded
  <2> QED BY <1>1, <2>1
<1> QED BY <1>2, <1>3, <1>4

\* A completed item, taken or ignored, keeps the invariant.
LEMMA CompletedKeeps ==
  ASSUME FinalInv, NEW k \in Keys, NEW text, Completed(k, text)
  PROVE  FinalInv'
<1>1. tracker' = Recorded(k)
  BY DEF Completed
<1>2. /\ tracker' \in [turn : Nat, ids : SUBSET Items, saturated : BOOLEAN]
      /\ tracker'.turn = tracker.turn
      /\ tracker.saturated => tracker'.saturated
      /\ tracker.ids \subseteq tracker'.ids
      /\ tracker.turn = k[1] => tracker'.saturated \/ k[2] \in tracker'.ids
  BY <1>1, RecordingKeepsOut
<1>3. CASE UNCHANGED <<turn, taken, final>>
  BY <1>2, <1>3 DEF FinalInv, TurnTypeOK, FinalsAreOfTheTurns, FinalsAreTracked, CompletedIsFinal
<1>4. CASE turn' = [turn EXCEPT !.at = "idle"] /\ UNCHANGED <<taken, final>>
  BY <1>2, <1>4, EndsKeeps
<1>5. CASE /\ Active(k)
           /\ taken' = [taken EXCEPT ![k] = text]
           /\ final' = [final EXCEPT ![k] = @ \cup {text}]
           /\ UNCHANGED turn
  <2>1. turn.number = k[1] /\ turn.at = "streaming" /\ tracker.turn = k[1]
    BY <1>5 DEF Active, FinalInv, FinalsAreTracked
  <2>2. final[k] = {}
    BY <1>5, FinalsAreKeptOut DEF Completed
  <2>3. taken' = [j \in Keys |-> taken'[j]] /\ final' = [j \in Keys |-> final'[j]]
    BY <1>5 DEF FinalInv, TurnTypeOK
  <2>4. \A j \in Keys : IF j = k THEN taken'[j] = text /\ final'[j] = {text}
                                 ELSE taken'[j] = taken[j] /\ final'[j] = final[j]
    BY <1>5, <2>2 DEF FinalInv, TurnTypeOK
  <2>5. TurnTypeOK'
    BY <1>2, <1>5, <2>3 DEF FinalInv, TurnTypeOK
  <2>6. FinalsAreOfTheTurns'
    <3>1. turn'.number = turn.number /\ turn'.at = "streaming" /\ k[1] <= turn.number
      BY <1>5, <2>1, KeysAreOfTurns
    <3> QED BY <2>4, <3>1 DEF FinalInv, FinalsAreOfTheTurns
  <2>7. FinalsAreTracked'
    BY <1>2, <1>5, <2>1, <2>4 DEF FinalInv, FinalsAreTracked
  <2>8. CompletedIsFinal'
    BY <2>4 DEF FinalInv, CompletedIsFinal
  <2> QED BY <2>5, <2>6, <2>7, <2>8 DEF FinalInv
<1> QED BY <1>3, <1>4, <1>5 DEF Completed

\* Every step of a turn and of its items keeps the invariant.
LEMMA FinalStep ==
  ASSUME FinalInv, [Next]_vars
  PROVE  FinalInv'
<1>1. CASE UNCHANGED vars
  BY <1>1 DEF vars, FinalInv, TurnTypeOK, FinalsAreOfTheTurns, FinalsAreTracked,
         CompletedIsFinal
<1>2. CASE Ends
  BY <1>2, EndsKeeps DEF Ends, FinalInv, TurnTypeOK
<1> QED BY <1>1, <1>2, SendKeeps, BeginsKeeps, DeltaKeeps, CompletedKeeps DEF Next

\* The invariant the theorems about final texts rest on.
LEMMA FinalInvariant == Spec => []FinalInv
<1>1. FinalInv /\ [Next]_vars => FinalInv'
  BY FinalStep
<1> QED BY <1>1, FinalInit, PTL DEF Spec

\* For any items, bounds and events, a message whose final text was accepted
\* (AgentCompleted, reconcile_final) is never changed by what comes later: not by a
\* late delta, not by a second completion, also when CompletedItemTracker is full.
THEOREM CompletedStaysFinal == Spec => []CompletedIsFinal
<1>1. FinalInv => CompletedIsFinal
  BY DEF FinalInv
<1> QED BY <1>1, FinalInvariant, PTL
=============================================================================
