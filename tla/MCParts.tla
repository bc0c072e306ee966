------------------------------ MODULE MCParts ------------------------------
(* The small parts of the program that do not interact, checked in one run:  *)
(* a behaviour is one of the part that its first state picks, and leaves the *)
(* variables of the others alone.                                            *)
EXTENDS Integers, FiniteSets

CONSTANTS Pids, Leader, Limit, MaxStarts, MaxMembers,
          Starts, MaxRoots, Instances, MaxWrites, MaxFaults, MaxLosses,
          Threads, Cursors, MaxPageItems, MaxPages, MaxListed, MaxRetained,
          MaxFrame, MaxText, MaxEvents,
          MaxBytes, MaxEntries, MaxNewlines, MaxColumns, MaxTracked, MaxTurns, MaxLength

ASSUME PartsAssumption ==
  /\ MaxPageItems \in Nat
  /\ Leader \in Pids /\ {"vaire", "launchd"} \cap Pids = {}
  /\ IsFiniteSet(Pids) /\ Limit \in Nat

VARIABLES part,
          proc, starts, cleaner, continued, victims,
          leader, members, reused, stderr, cancelled, child, stranger,
          root, disk, start, made,
          kind, target, perhaps, data, temps, instance, since,
          cwd, cursors, seen, threads, pages, items, bytes, page, at, given,
          stage, result, cancellation, server, reading, decoder, chat, delivered, heard,
          turn, tracker, transcript, dropped, taken, final, lost, verdict,
          faults, losses

authTree   == <<proc, starts, cleaner, continued, victims>>
group      == <<leader, members, reused, stderr, cancelled, child, stranger>>
migration  == <<root, disk, start, made>>
safeFile   == <<kind, target, perhaps, data, temps, instance, since>>
listing    == <<cwd, cursors, seen, threads, pages, items, bytes, page, at, given>>
chatStream == <<stage, result, cancellation, server, reading, decoder, chat, delivered, heard>>
turnItems  == <<turn, tracker, transcript, dropped, taken, final, lost, verdict>>
vars == <<part, authTree, group, migration, safeFile, listing, chatStream, turnItems,
          faults, losses>>

MCItems == {"i1", "i2"}
MCPieces == {<<"a">>, <<"w">>, <<"n", "a">>, <<"n", "n">>, <<"a", "w">>}

Message(item, text) == [of |-> <<1, item>>, text |-> text]
MCHistories ==
  {<<>>, <<Message("i1", <<"a", "w", "n">>)>>,
   <<Message("i1", <<"w", "w">>), Message("i2", <<"a">>)>>}

Auth    == INSTANCE AuthTree
Group   == INSTANCE ProcessGroup
Root    == INSTANCE Migration
File    == INSTANCE SafeFile
Pages   == INSTANCE Listing WITH MaxItems <- MaxListed, MaxBytes <- MaxRetained
Chat    == INSTANCE ChatStream
Turns   == INSTANCE TurnItems WITH Items <- MCItems, Pieces <- MCPieces, Histories <- MCHistories

NoTree ==
  /\ proc = 0 /\ starts = 0 /\ cleaner = 0 /\ continued = 0 /\ victims = 0
NoGroup ==
  /\ leader = 0 /\ members = 0 /\ reused = 0 /\ stderr = 0 /\ cancelled = 0
  /\ child = 0 /\ stranger = 0
NoMigration ==
  /\ root = 0 /\ disk = 0 /\ start = 0 /\ made = 0
NoFile ==
  /\ kind = 0 /\ target = 0 /\ perhaps = 0 /\ data = 0 /\ temps = 0
  /\ instance = 0 /\ since = 0
NoListing ==
  /\ cwd = 0 /\ cursors = 0 /\ seen = 0 /\ threads = 0 /\ pages = 0
  /\ items = 0 /\ bytes = 0 /\ page = 0 /\ at = 0 /\ given = 0
NoChat ==
  /\ stage = 0 /\ result = 0 /\ cancellation = 0 /\ server = 0 /\ reading = 0
  /\ decoder = 0 /\ chat = 0 /\ delivered = 0 /\ heard = 0
NoTurns ==
  /\ turn = 0 /\ tracker = 0 /\ transcript = 0 /\ dropped = 0 /\ taken = 0
  /\ final = 0 /\ lost = 0 /\ verdict = 0

Init ==
  /\ part \in {"AuthTree", "ProcessGroup", "Migration", "SafeFile", "Listing", "ChatStream",
               "TurnItems"}
  /\ IF part = "AuthTree"     THEN Auth!Init    ELSE NoTree
  /\ IF part = "ProcessGroup" THEN Group!Init   ELSE NoGroup
  /\ IF part = "Migration"    THEN Root!Init    ELSE NoMigration
  /\ IF part = "SafeFile"     THEN File!Init    ELSE NoFile
  /\ IF part = "Listing"      THEN Pages!Init ELSE NoListing
  /\ IF part = "ChatStream"   THEN Chat!Init    ELSE NoChat
  /\ IF part = "TurnItems"    THEN Turns!Init   ELSE NoTurns
  /\ faults = 0 /\ losses = 0

Next ==
  \/ /\ part = "AuthTree" /\ Auth!Next
     /\ UNCHANGED <<part, group, migration, safeFile, listing, chatStream, turnItems, losses>>
  \/ /\ part = "ProcessGroup" /\ Group!Next
     /\ UNCHANGED <<part, authTree, migration, safeFile, listing, chatStream, turnItems, losses>>
  \/ /\ part = "Migration" /\ Root!Next
     /\ UNCHANGED <<part, authTree, group, safeFile, listing, chatStream, turnItems>>
  \/ /\ part = "SafeFile" /\ File!Next
     /\ UNCHANGED <<part, authTree, group, migration, listing, chatStream, turnItems>>
  \/ /\ part = "Listing" /\ Pages!Next
     /\ UNCHANGED <<part, authTree, group, migration, safeFile, chatStream, turnItems,
                    faults, losses>>
  \/ /\ part = "ChatStream" /\ Chat!Next
     /\ UNCHANGED <<part, authTree, group, migration, safeFile, listing, turnItems,
                    faults, losses>>
  \/ /\ part = "TurnItems" /\ Turns!Next
     /\ UNCHANGED <<part, authTree, group, migration, safeFile, listing, chatStream,
                    faults, losses>>

Spec == Init /\ [][Next]_vars
-----------------------------------------------------------------------------
(* Properties.                                                               *)

\* Cancelling `claude auth` (claude/process.rs): SIGKILL reaches descendants of the
\* command only (unless job control has continued the tree, and then in place of the
\* deeper ones only), a cleanup that reports success has left nothing behind that it
\* orphaned or stopped, and the command is always reaped.  The CLI of a turn
\* (ClaudeChild): no signal reaches a group that has come to have the id of the ended
\* one, and nothing of the group outlives the turn unless an error says so.
ProcessesAreEnded ==
  /\ part = "AuthTree" => Auth!KillsOnlyTheTree /\ Auth!CancelledMeansGone /\ Auth!LeaderIsReaped
  /\ part = "ProcessGroup" => Group!GroupIsEnded

\* Moving the data directory (platform/migration.rs): no root is ever lost, all running
\* instances use the same, and it stays where it is.  Replacing the key or the
\* preferences: the file is one complete value at any time, what was verified outlives
\* a power loss, and what failed is not there, unless neither its sync nor the look
\* at what it left worked.
FilesAreSafe ==
  /\ part = "Migration" => Root!RootIsMoved
  /\ part = "SafeFile" => File!FileIsSafe

\* Listing threads over pages and two directories: each once, and none left out.
ListingIsExact == part = "Listing" => Pages!ListingIsExact

\* Reading an answer of OpenRouter (openrouter/sse.rs): however it is cut into chunks,
\* what is delivered is its beginning, it is finished only when it is whole and right,
\* and none is refused as too long whose events are not.
AnswerIsExact ==
  part = "ChatStream" => Chat!AnswerIsExact /\ Chat!FittingIsAccepted

\* The messages of Codex turns (app/transcript.rs): the transcript is within its
\* bounds, the end of each message is what is shown, a final text is refused just when
\* it contradicts what was streamed, and what is completed stays as it is.
TranscriptIsKept ==
  part = "TurnItems" =>
    /\ Turns!RetentionIsBounded /\ Turns!EndIsShown
    /\ Turns!FinalsAreJudged /\ Turns!CompletedIsFinal
=============================================================================
