------------------------------ MODULE TurnItems ------------------------------
(* The messages of Codex turns on their way into the transcript: which item  *)
(* events are taken (CompletedItemTracker, reduce_protocol_event), how the   *)
(* streamed and the final text of a message are put together, and how the    *)
(* transcript is kept within its bounds by dropping its beginning            *)
(* (app/transcript.rs).  The app-server may send events of its messages in   *)
(* any order, late and again.  Texts are sanitized ones, whose sanitizing    *)
(* does not depend on how they are cut; a prefix stands for its hash.        *)
EXTENDS Integers, Sequences, SequencesExt, FiniteSets

CONSTANTS Items,        \* the ids of a turn's messages
          Pieces,       \* texts: of "a", "w" (wide, of three bytes), "n" (a line feed)
          MaxBytes, MaxEntries, MaxNewlines, MaxColumns,  \* MAX_TRANSCRIPT_*
          MaxTracked,   \* MAX_TRACKED_COMPLETED_ITEMS_PER_TURN
          Histories,    \* what may be there of the thread when it is resumed
          MaxTurns,     \* bounds the turns, with the one of the history
          MaxLength     \* bounds the text of a message

VARIABLES turn,        \* its number, and whether it streams
          tracker,     \* CompletedItemTracker: its turn, and what it knows
          transcript,  \* entries: whose, and their text
          dropped,     \* transcript_dropped_prefix_bytes
          taken,       \* history: of each message the text that was accepted
          final,       \* history: the final texts that were accepted of each message
          lost,        \* history: messages whose entry was dropped while they streamed
          verdict      \* history: what was decided of a final text, and rightly

vars == <<turn, tracker, transcript, dropped, taken, final, lost, verdict>>

\* A message is known by its turn and its item.
Keys == (1 .. MaxTurns) \X Items
User == <<0, "user">>
NoTracker == [turn |-> 0, ids |-> {}, saturated |-> FALSE]
NoVerdict == [agrees |-> TRUE, accepted |-> TRUE]

\* The final text of a message: what was streamed of it and perhaps more, or something
\* else.
Finals(streamed) ==
  {streamed} \cup {text \in {streamed \o more : more \in Pieces} : Len(text) <= MaxLength}
  \cup (IF streamed = <<>> THEN {} ELSE {[streamed EXCEPT ![1] = c] : c \in {"a", "w"}})

Count(text, c) == Len(SelectSeq(text, LAMBDA x : x = c))
Newlines(text) == Count(text, "n")
Bytes(text) == Len(text) + 2 * Count(text, "w")
Columns(text) == Len(text) + Count(text, "w")

\* The text of the first n entries.
Upto(entries, n) ==
  LET whole[m \in 0 .. n] == IF m = 0 THEN <<>> ELSE whole[m - 1] \o entries[m].text
  IN whole[n]
Whole(entries) == Upto(entries, Len(entries))
-----------------------------------------------------------------------------
(* enforce_transcript_bound.                                                 *)

\* The shortest prefix of a text that has enough of something.
PrefixWith(text, Measure(_), enough) ==
  LET long == {k \in 0 .. Len(text) : Measure(SubSeq(text, 1, k)) >= enough}
  IN SubSeq(text, 1, CHOOSE k \in long : \A m \in long : k <= m)

\* Mutant: a character that the cut falls into is kept.
TrimmedRoundingDown(text, bytes) ==
  LET short == {k \in 0 .. Len(text) : Bytes(SubSeq(text, 1, k)) <= bytes}
  IN SubSeq(text, 1, CHOOSE k \in short : \A m \in short : k >= m)
Trimmed(text, bytes) == PrefixWith(text, Bytes, bytes)

\* How many bytes there are too many, counting bytes, line feeds or columns.
Excess(entries) ==
  LET text == Whole(entries)
      Over(n, max) == IF n > max THEN n - max ELSE 0
      candidates ==
        {Over(Bytes(text), MaxBytes),
         Bytes(PrefixWith(text, Newlines, Over(Newlines(text), MaxNewlines))),
         Bytes(PrefixWith(text, Columns, Over(Columns(text), MaxColumns)))}
  IN CHOOSE n \in candidates : \A m \in candidates : n >= m

\* Mutant: only the last cut of a message is remembered.
CutAnew(records, k, cut) == IF cut = <<>> THEN records ELSE [records EXCEPT ![k] = cut]
Cut(records, k, cut) == [records EXCEPT ![k] = @ \o cut]

\* Entries that are dropped take their records with them; the first that stays is cut.
Bounded(entries, records) ==
  LET many == IF Len(entries) > MaxEntries THEN Len(entries) - MaxEntries ELSE 0
      kept == SubSeq(entries, many + 1, Len(entries))
      excess == Excess(kept)
      gone == {n \in 0 .. Len(kept) : Bytes(Upto(kept, n)) <= excess}
      whole == IF excess = 0 THEN 0 ELSE CHOOSE n \in gone : \A m \in gone : n >= m
      rest == SubSeq(kept, whole + 1, Len(kept))
      cut == IF rest = <<>> THEN <<>>
             ELSE Trimmed(rest[1].text, excess - Bytes(Upto(kept, whole)))
      out == {entries[n].of : n \in 1 .. many + whole}
      left == [k \in Keys |-> IF k \in out THEN <<>> ELSE records[k]]
  IN [out |-> out,
      entries |-> IF rest = <<>> THEN rest
                  ELSE [rest EXCEPT ![1].text = SubSeq(@, Len(cut) + 1, Len(@))],
      records |-> IF rest = <<>> \/ rest[1].of = User THEN left
                  ELSE Cut(left, rest[1].of, cut)]

\* The transcript, with one of these messages lost before.
Becomes(entries, records, before) ==
  LET b == Bounded(entries, records) IN
  /\ transcript' = b.entries /\ dropped' = b.records
  /\ lost' = before \cup (b.out \cap Keys)

\* All messages of a resumed thread are of one turn here.
IsHistory(history) ==
  /\ \A n \in DOMAIN history : history[n].of \in {1} \X Items
  /\ \A n, m \in DOMAIN history : history[n].of = history[m].of => n = m

\* replace_transcript, of a resumed thread.
Init ==
  /\ turn = [number |-> 1, at |-> "idle"] /\ tracker = NoTracker
  /\ \E history \in Histories :
       /\ IsHistory(history)
       /\ transcript = Bounded(history, [k \in Keys |-> <<>>]).entries
       /\ dropped = Bounded(history, [k \in Keys |-> <<>>]).records
       /\ taken = [k \in Keys |-> LET of == {n \in DOMAIN history : history[n].of = k} IN
                    IF of = {} THEN <<>> ELSE history[CHOOSE n \in of : TRUE].text]
       /\ final = [k \in Keys |-> {history[n].text : n \in {n \in DOMAIN history : history[n].of = k}}]
  /\ lost = {} /\ verdict = NoVerdict

\* Mutant: a message is looked for by its item alone.
EntryOfItem(k) == {n \in DOMAIN transcript : transcript[n].of[2] = k[2]}
Entry(k) == {n \in DOMAIN transcript : transcript[n].of = k}

TextOf(k) == IF Entry(k) = {} THEN <<>> ELSE transcript[CHOOSE n \in Entry(k) : TRUE].text
WithText(k, text) ==
  IF Entry(k) = {} THEN Append(transcript, [of |-> k, text |-> text])
  ELSE [transcript EXCEPT ![CHOOSE n \in Entry(k) : TRUE].text = text]
-----------------------------------------------------------------------------
(* CompletedItemTracker.                                                     *)

ShouldIgnore(k) == tracker.turn = k[1] /\ (tracker.saturated \/ k[2] \in tracker.ids)

\* Mutant: an item that does not fit is forgotten.
RecordedIfFits(k) ==
  IF tracker.turn = k[1] /\ Cardinality(tracker.ids) < MaxTracked
  THEN [tracker EXCEPT !.ids = @ \cup {k[2]}] ELSE tracker
Recorded(k) ==
  CASE tracker.turn # k[1]                    -> tracker
    [] Cardinality(tracker.ids) >= MaxTracked -> [tracker EXCEPT !.saturated = TRUE]
    [] OTHER                                  -> [tracker EXCEPT !.ids = @ \cup {k[2]}]
-----------------------------------------------------------------------------
(* The turns.                                                                *)

Active(k) == turn = [number |-> k[1], at |-> "streaming"]

\* SendMessage, and its effect: the user's text has one line here.
Send ==
  /\ turn.at = "idle" /\ turn.number < MaxTurns
  /\ turn' = [number |-> turn.number + 1, at |-> "starting"]
  /\ Becomes(Append(transcript, [of |-> User, text |-> <<"a", "a">>]), [k \in Keys |-> <<>>], {})
  /\ UNCHANGED <<tracker, taken, final, verdict>>

Begins ==
  /\ turn.at = "starting" /\ turn' = [turn EXCEPT !.at = "streaming"]
  /\ tracker' = [NoTracker EXCEPT !.turn = turn.number]
  /\ UNCHANGED <<transcript, dropped, taken, final, lost, verdict>>

Ends ==
  /\ turn.at # "idle" /\ turn' = [turn EXCEPT !.at = "idle"]
  /\ UNCHANGED <<tracker, transcript, dropped, taken, final, lost, verdict>>

\* append_delta.
Delta(k, delta) ==
  /\ ~ShouldIgnore(k) /\ Active(k)
  /\ Len(taken[k] \o delta) <= MaxLength
  /\ Becomes(WithText(k, TextOf(k) \o delta), dropped, lost)
  /\ taken' = [taken EXCEPT ![k] = @ \o delta]
  /\ UNCHANGED <<turn, tracker, final, verdict>>

\* reconcile_final: whether the final text goes on from what was streamed.
Consistent(k, text) == Entry(k) = {} \/ IsPrefix(dropped[k] \o TextOf(k), text)

\* ItemCompleted.
Completed(k, text) ==
  /\ ~ShouldIgnore(k) /\ tracker' = Recorded(k)
  /\ \/ /\ ~Active(k)
        /\ UNCHANGED <<turn, transcript, dropped, taken, final, lost, verdict>>
     \/ /\ Active(k)
        /\ verdict' = [agrees |-> IsPrefix(taken[k], text) \/ k \in lost,
                       accepted |-> Consistent(k, text) \/ k \in lost]
        /\ IF Consistent(k, text)
           THEN /\ Becomes(WithText(k, text), [dropped EXCEPT ![k] = <<>>], lost \ {k})
                /\ taken' = [taken EXCEPT ![k] = text]
                /\ final' = [final EXCEPT ![k] = @ \cup {text}]
                /\ UNCHANGED turn
           ELSE /\ turn' = [turn EXCEPT !.at = "idle"]
                /\ dropped' = [dropped EXCEPT ![k] = <<>>]
                /\ UNCHANGED <<transcript, taken, final, lost>>

Next ==
  \/ Send \/ Begins \/ Ends
  \/ \E k \in Keys : \/ \E delta \in Pieces : Delta(k, delta)
                     \/ \E text \in Finals(taken[k]) : Completed(k, text)

Spec == Init /\ [][Next]_vars
-----------------------------------------------------------------------------
(* Properties.                                                               *)

\* However texts of several lines and widths come, the transcript is within each of
\* its bounds, and at most one cut is remembered, that of its first entry.
RetentionIsBounded ==
  LET text == Whole(transcript) IN
  /\ Len(transcript) <= MaxEntries /\ Bytes(text) <= MaxBytes
  /\ Newlines(text) <= MaxNewlines /\ Columns(text) <= MaxColumns
  /\ \A k \in Keys : dropped[k] # <<>> => transcript # <<>> /\ transcript[1].of = k

\* What is shown of a message is the end of what was accepted of it, whatever was
\* dropped in between.
EndIsShown ==
  \A n \in DOMAIN transcript :
    transcript[n].of \in Keys => IsSuffix(transcript[n].text, taken[transcript[n].of])

\* A final text is refused, and its turn fails, if and only if it does not go on from
\* what was streamed, also if that is not in the transcript any more: unless the whole
\* message was dropped, after which only what came later is compared.
FinalsAreJudged == verdict.agrees = verdict.accepted

\* An accepted final text stays what it is, whatever comes late or again, also once
\* the tracker is full.
CompletedIsFinal == \A k \in Keys : final[k] \subseteq {taken[k]}
=============================================================================
