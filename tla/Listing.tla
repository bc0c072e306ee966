------------------------------- MODULE Listing -------------------------------
(* Listing Codex threads (codex/session/threads.rs, pagination.rs): the      *)
(* pages of the current working directory, then those of the historical one, *)
(* under one limit of pages, of items and of retained bytes.  The server may *)
(* answer anything: repeat threads and cursors, mark a thread ephemeral on   *)
(* one page and not on another, or give it under both directories.           *)
EXTENDS Integers, Sequences, FiniteSets, SequencesExt

CONSTANTS Threads,      \* thread ids
          Cursors,      \* the valid cursors a page may end with
          MaxPageItems, \* MAX_THREAD_PAGE_ITEMS
          MaxPages,     \* MAX_PAGINATION_PAGES
          MaxItems,     \* MAX_PAGINATION_ITEMS
          MaxBytes      \* MAX_PAGINATION_RETAINED_BYTES

VARIABLES cwd,      \* the directory being listed, as its place in Cwds
          cursors,  \* the cursors seen for it
          seen,     \* the directory each id was first seen under
          threads,  \* the threads to be shown
          pages, items, bytes,
          page,     \* the rest of the page being read, and how it ends
          at,       \* "request", "page", "done" or "failed"
          given     \* what the server has given

vars == <<cwd, cursors, seen, threads, pages, items, bytes, page, at, given>>

Cwds == <<"current", "historical">>
Unseen == "unseen"

\* An entry of a page.  odd: an invalid id, or a source that was not asked for.
Entries == [id : Threads, cwd : Range(Cwds), ephemeral : BOOLEAN, odd : BOOLEAN]
End == "end"
BadCursor == "bad"

\* The bytes charged for the first sight of an id, and for showing it.
OriginBytes == 1
ShownBytes == 1

Init ==
  /\ cwd = 1 /\ cursors = {} /\ threads = <<>>
  /\ seen = [t \in Threads |-> Unseen]
  /\ pages = 0 /\ items = 0 /\ bytes = 0
  /\ page = [rest |-> <<>>, next |-> End] /\ at = "request" /\ given = {}

Fail == at' = "failed"
Keeps == UNCHANGED <<cwd, cursors, page, pages>>
Nothing == UNCHANGED <<seen, threads, items, bytes, given>>

\* thread/list, unless no page is left; a page may be too long.
Request ==
  /\ at = "request"
  /\ \/ pages >= MaxPages /\ Fail /\ UNCHANGED <<page, pages>>
     \/ /\ pages < MaxPages /\ pages' = pages + 1
        /\ \/ Fail /\ UNCHANGED page
           \/ \E next \in Cursors \cup {End, BadCursor} :
              \E rest \in UNION {[1 .. n -> Entries] : n \in 0 .. MaxPageItems} :
                page' = [rest |-> rest, next |-> next] /\ at' = "page"
  /\ UNCHANGED <<cwd, cursors>> /\ Nothing

\* ThreadListing::retain.
Acceptable(entry) ==
  ~entry.odd /\ entry.cwd = Cwds[cwd] /\ seen[entry.id] \in {Unseen, Cwds[cwd]}

\* Mutant: a thread seen as ephemeral is not shown when it no longer is.
ShownOnce(id) == seen[id] # Unseen
Shown(id) == \E i \in DOMAIN threads : threads[i] = id

Retain ==
  LET entry == Head(page.rest)
      new   == seen[entry.id] = Unseen
      show  == ~entry.ephemeral /\ ~Shown(entry.id)
  IN
  /\ at = "page" /\ page.rest # <<>>
  /\ given' = given \cup {entry}
  /\ IF ~Acceptable(entry) THEN Fail /\ UNCHANGED <<seen, threads, items, bytes, page>>
     ELSE /\ seen' = [seen EXCEPT ![entry.id] = Cwds[cwd]]
          /\ items' = items + (IF new THEN 1 ELSE 0)
          /\ bytes' = bytes + (IF new THEN OriginBytes ELSE 0) + (IF show THEN ShownBytes ELSE 0)
          /\ threads' = IF show THEN Append(threads, entry.id) ELSE threads
          /\ page' = [page EXCEPT !.rest = Tail(@)]
          /\ at' = IF items' > MaxItems \/ bytes' > MaxBytes THEN "failed" ELSE at
  /\ UNCHANGED <<cwd, cursors, pages>>

\* next_cursor, and the historical directory after the last page of the current.
PageEnds ==
  /\ at = "page" /\ page.rest = <<>>
  /\ \/ /\ page.next = End
        /\ IF cwd = 1 THEN cwd' = 2 /\ cursors' = {} /\ at' = "request"
                      ELSE at' = "done" /\ UNCHANGED <<cwd, cursors>>
     \/ /\ page.next # End
        /\ page.next = BadCursor \/ page.next \in cursors \/ pages >= MaxPages
        /\ Fail /\ UNCHANGED <<cwd, cursors>>
     \/ /\ page.next \in Cursors \ cursors /\ pages < MaxPages
        /\ cursors' = cursors \cup {page.next} /\ at' = "request" /\ UNCHANGED cwd
  /\ UNCHANGED <<page, pages>> /\ Nothing

Next == Request \/ Retain \/ PageEnds

Spec == Init /\ [][Next]_vars
-----------------------------------------------------------------------------
(* Properties.                                                               *)

\* A listing that succeeds has every thread that was given as one to keep, once,
\* and no other; no id came under two directories.
ListingIsExact ==
  at = "done" =>
    /\ IsInjective(threads)
    /\ Range(threads) = {entry.id : entry \in {e \in given : ~e.ephemeral}}
    /\ \A d, e \in given : d.id = e.id => d.cwd = e.cwd
=============================================================================
