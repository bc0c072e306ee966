----------------------------- MODULE ChatStream -----------------------------
(* One request of OpenRouterClient::chat with the decoder of its answer      *)
(* (openrouter/sse.rs).  The server's events are bytes that come in chunks   *)
(* of any size; the server may break off, go wrong or fall silent anywhere.  *)
(* A byte of the model stands for a run of bytes that are read alike.        *)
EXTENDS Integers, Sequences, SequencesExt

CONSTANTS MaxFrame,   \* MAX_SSE_EVENT_BYTES
          MaxText,    \* MAX_ASSISTANT_BYTES, in texts
          MaxEvents   \* bounds the events the server sends

VARIABLES stage,      \* where chat is: "start", "headers", "errorBody", "stream", "end"
          result,     \* "none", "Finished", the failure's category or its limit
          cancellation,
          server,     \* wire: bytes on their way; saying: their payload; how many of each
          reading,    \* whether a chunk is being pushed
          decoder,    \* SseDecoder, and the events of the chunk
          chat,       \* ChatAccumulator
          delivered,  \* the texts that on_event was given
          heard       \* history: what of the wire was pushed, up to [DONE]

vars == <<stage, result, cancellation, server, reading, decoder, chat, delivered, heard>>

\* A chunk of a completion: whether there is text in it, its finish_reason, its id
\* (the model of the answer is treated alike), its usage.
Chunk(text, finish, id, usage) ==
  [kind |-> "chunk", text |-> text, finish |-> finish, id |-> id, usage |-> usage]
Plain(kind) == [Chunk(FALSE, "no", 0, "none") EXCEPT !.kind = kind]
KeepAlive == Plain("comment")

\* What the server may say.
Payloads ==
  {Plain(kind) : kind \in {"comment", "done", "malformed", "error"}}
  \cup {Chunk(TRUE, "no", id, "none") : id \in 1 .. 2}
  \cup {Chunk(TRUE, "stop", 0, "none"), Chunk(FALSE, "stop", 0, "valid"),
        Chunk(FALSE, "error", 0, "none")}
  \cup {Chunk(FALSE, "no", 0, usage) : usage \in {"valid", "invalid"}}

NoDecoder == [buffered |-> <<>>, lines |-> <<>>, bytes |-> 0, events |-> <<>>, failed |-> "no"]
NoChat == [id |-> 0, terminal |-> FALSE, done |-> FALSE, texts |-> <<>>, usage |-> 0,
           failed |-> "no"]

Init ==
  /\ stage = "start" /\ result = "none" /\ cancellation = FALSE
  /\ server = [wire |-> <<>>, saying |-> KeepAlive, events |-> 0, texts |-> 0, long |-> FALSE]
  /\ reading = FALSE /\ decoder = NoDecoder /\ chat = NoChat /\ delivered = <<>>
  /\ heard = [texts |-> 0, usage |-> 0, id |-> 0, terminal |-> FALSE, done |-> FALSE,
              partial |-> FALSE, wrong |-> FALSE]

Ends(outcome) == stage' = "end" /\ result' = outcome
-----------------------------------------------------------------------------
(* The server.                                                               *)

\* "x" and "y" are the halves of a payload, which may be on two data lines.
Encodings(p) ==
  IF p.kind = "comment"
  THEN {<<"comment", "lf", "lf">>, [b \in 1 .. MaxFrame + 1 |-> "comment"]}
  ELSE {<<"data", "x", "y", "lf", "lf">>, <<"data", "x", "y", "cr", "lf", "cr", "lf">>,
        <<"data", "x", "lf", "data", "y", "lf", "lf">>, <<"data", "utf8", "lf", "lf">>,
        <<"comment", "lf", "comment", "lf", "data", "x", "y", "lf", "lf">>}

ServerSends ==
  /\ stage = "stream" /\ server.wire = <<>> /\ server.events < MaxEvents
  /\ \E p \in Payloads : \E bytes \in Encodings(p) :
       server' = [wire |-> bytes, saying |-> p, events |-> server.events + 1,
                  texts |-> server.texts + (IF p.text THEN 1 ELSE 0),
                  long |-> server.long \/ Len(bytes) > MaxFrame]
  /\ UNCHANGED <<stage, result, cancellation, reading, decoder, chat, delivered, heard>>

Cancel ==
  /\ ~cancellation /\ stage # "end" /\ cancellation' = TRUE
  /\ UNCHANGED <<stage, result, server, reading, decoder, chat, delivered, heard>>
-----------------------------------------------------------------------------
(* SseDecoder.                                                               *)

Event(d) == [lines |-> d.lines, payload |-> server.saying, text |-> server.texts,
             number |-> server.events]
TakeEvent(d) == [d EXCEPT !.events = Append(@, Event(d)), !.lines = <<>>, !.bytes = 0]

\* Mutant: keep-alives count towards the event that follows them.
BlankLineCounting(d) == IF d.lines # <<>> THEN TakeEvent(d) ELSE d
BlankLine(d) == IF d.lines # <<>> THEN TakeEvent(d) ELSE [d EXCEPT !.bytes = 0]

ProcessLine(d, line) ==
  LET counted == [d EXCEPT !.bytes = @ + Len(line) + 1] IN
  IF counted.bytes > MaxFrame THEN [d EXCEPT !.failed = "FrameLimit"]
  ELSE IF line = <<>> THEN BlankLine(counted)
  ELSE IF line[1] # "data" THEN counted
  ELSE IF Contains(line, "utf8") THEN [d EXCEPT !.failed = "InvalidResponse"]
  ELSE [counted EXCEPT !.lines = Append(@, Tail(line))]

PushByte(d, byte) ==
  LET read == Append(d.buffered, byte)
      line == SelectSeq(Front(read), LAMBDA b : b # "cr")
  IN IF Len(d.buffered) >= MaxFrame THEN [d EXCEPT !.failed = "FrameLimit"]
     ELSE IF byte # "lf" THEN [d EXCEPT !.buffered = read]
     ELSE ProcessLine([d EXCEPT !.buffered = <<>>], line)

\* Mutant: the last line of an answer that breaks off is not looked at.
FinishedEarly(d) == IF d.lines # <<>> THEN TakeEvent(d) ELSE d
Finished(d) ==
  LET last == IF d.buffered = <<>> THEN d
              ELSE ProcessLine([d EXCEPT !.buffered = <<>>], d.buffered)
  IN IF last.failed = "no" /\ last.lines # <<>> THEN TakeEvent(last) ELSE last
-----------------------------------------------------------------------------
(* ChatAccumulator.                                                          *)

\* What an event says: [DONE] must be on one line, JSON need not.
Said(event) ==
  LET onOne == event.lines \in {<<<<"x", "y">>>>, <<<<"x", "y", "cr">>>>}
      onTwo == event.lines \in {<<<<"x">>, <<"y">>>>}
  IN IF onOne \/ (onTwo /\ event.payload.kind # "done") THEN event.payload
     ELSE Plain("malformed")

Refuse(c, why) == [c EXCEPT !.failed = why]

\* Mutant: a usage that cannot be read clears the one before.
UsageCleared(c, event, p) ==
  CASE p.usage = "valid" -> event.number [] p.usage = "invalid" -> 0 [] OTHER -> c.usage
ConsumeUsage(c, event, p) == IF p.usage = "valid" THEN event.number ELSE c.usage

ConsumeChunk(c, event, p) ==
  IF p.id # 0 /\ c.id \notin {0, p.id} THEN Refuse(c, "InvalidResponse")
  ELSE IF p.finish = "error" THEN Refuse(c, "Remote")
  ELSE IF c.terminal /\ p.text THEN Refuse(c, "InvalidResponse")
  ELSE IF p.text /\ Len(c.texts) >= MaxText THEN Refuse(c, "TextLimit")
  ELSE [c EXCEPT !.id = IF p.id # 0 THEN p.id ELSE @,
                 !.texts = IF p.text THEN Append(@, event.text) ELSE @,
                 !.terminal = @ \/ p.finish # "no",
                 !.usage = ConsumeUsage(c, event, p)]

\* consume, for the events of a chunk until one fails.
Consume(c, event) ==
  LET p == Said(event) IN
  IF c.failed # "no" THEN c
  ELSE IF c.done THEN Refuse(c, "InvalidResponse")
  ELSE CASE p.kind = "done"      -> [c EXCEPT !.done = TRUE]
         [] p.kind = "malformed" -> Refuse(c, "InvalidResponse")
         [] p.kind = "error"     -> Refuse(c, "Remote")
         [] p.kind = "chunk"     -> ConsumeChunk(c, event, p)

\* The events, and the end of the answer if it has come.
Consumes(d, over) ==
  LET after[k \in 0 .. Len(d.events)] ==
        IF k = 0 THEN chat ELSE Consume(after[k - 1], d.events[k])
      c == after[Len(d.events)]
  IN
  /\ chat' = c /\ delivered' = c.texts
  /\ decoder' = [d EXCEPT !.events = <<>>]
  /\ IF c.failed # "no" THEN Ends(c.failed)
     ELSE IF c.done \/ over
          THEN Ends(IF c.done \/ c.terminal THEN "Finished" ELSE "InvalidResponse")
          ELSE UNCHANGED <<stage, result>>
-----------------------------------------------------------------------------
(* chat.                                                                     *)

\* The request is encoded, within its bound, and the key loaded and put into a header.
Prepare ==
  /\ stage = "start"
  /\ \/ stage' = "headers" /\ UNCHANGED result
     \/ \E why \in {"ResourceLimit", "CredentialStore", "MissingCredential"} : Ends(why)
  /\ UNCHANGED <<cancellation, server, reading, decoder, chat, delivered, heard>>

\* send_chat, the status, the content type; Timeout by its own clock.
Headers ==
  /\ stage = "headers"
  /\ \/ stage' \in {"stream", "errorBody"} /\ UNCHANGED result
     \/ \E why \in {"Network", "InvalidResponse"} : Ends(why)
     \/ cancellation /\ Ends("Cancelled")
  /\ UNCHANGED <<cancellation, server, reading, decoder, chat, delivered, heard>>

HeadersTimeout ==
  /\ stage = "headers" /\ Ends("Timeout")
  /\ UNCHANGED <<cancellation, server, reading, decoder, chat, delivered, heard>>

\* However reading the body ends, the status is what is reported.
ErrorBody ==
  /\ stage = "errorBody" /\ \E why \in {"Unauthorized", "RateLimited", "Remote"} : Ends(why)
  /\ UNCHANGED <<cancellation, server, reading, decoder, chat, delivered, heard>>

\* History: what of the payload has been pushed with this byte.
Hears(byte) ==
  LET p == server.saying
      wrong == \/ p.kind \in {"malformed", "error"} \/ p.finish = "error"
               \/ p.id # 0 /\ heard.id \notin {0, p.id}
               \/ p.text /\ heard.terminal
  IN CASE heard.done -> heard
       [] byte = "data" -> [heard EXCEPT !.partial = TRUE]
       [] byte = "utf8" -> [heard EXCEPT !.wrong = TRUE]
       [] byte = "y" ->
            [texts |-> heard.texts + (IF p.text THEN 1 ELSE 0),
             usage |-> IF p.usage = "valid" THEN server.events ELSE heard.usage,
             id |-> IF p.id # 0 THEN p.id ELSE heard.id,
             terminal |-> heard.terminal \/ p.finish # "no" \/ p.kind = "done",
             done |-> p.kind = "done", partial |-> FALSE, wrong |-> heard.wrong \/ wrong]
       [] OTHER -> heard

\* A byte of a chunk.  If the decoder fails, the chunk's events are lost with it.
Push ==
  /\ stage = "stream" /\ server.wire # <<>>
  /\ LET byte == Head(server.wire)
         d == PushByte(decoder, byte)
     IN /\ server' = [server EXCEPT !.wire = Tail(@)]
        /\ heard' = Hears(byte)
        /\ decoder' = d /\ reading' = TRUE
        /\ IF d.failed # "no" THEN Ends(d.failed) ELSE UNCHANGED <<stage, result>>
  /\ UNCHANGED <<cancellation, chat, delivered>>

ChunkEnds ==
  /\ stage = "stream" /\ reading
  /\ Consumes(decoder, FALSE)
  /\ reading' = FALSE
  /\ UNCHANGED <<cancellation, server, heard>>

Eof ==
  /\ stage = "stream" /\ ~reading
  /\ LET d == Finished(decoder) IN
       IF d.failed # "no" THEN Ends(d.failed) /\ UNCHANGED <<decoder, chat, delivered>>
       ELSE Consumes(d, TRUE)
  /\ UNCHANGED <<cancellation, server, reading, heard>>

\* While nothing comes: the connection breaks, the call is cancelled.
Waits ==
  /\ stage = "stream" /\ ~reading
  /\ Ends("Network") \/ (cancellation /\ Ends("Cancelled"))
  /\ UNCHANGED <<cancellation, server, reading, decoder, chat, delivered, heard>>

\* Silence for sse_idle, or chat_total before the next chunk.
Timeout ==
  /\ stage = "stream" /\ ~reading /\ Ends("Timeout")
  /\ UNCHANGED <<cancellation, server, reading, decoder, chat, delivered, heard>>

Next ==
  \/ ServerSends \/ Cancel
  \/ Prepare \/ Headers \/ HeadersTimeout \/ ErrorBody
  \/ Push \/ ChunkEnds \/ Eof \/ Waits \/ Timeout

Spec == Init /\ [][Next]_vars
-----------------------------------------------------------------------------
(* Properties.                                                               *)

\* However the answer is cut into chunks, what is delivered is its beginning; and it
\* is reported as finished only when all of it was delivered, with its last valid
\* usage, nothing in it was wrong or broke off, and the server said that it ends.
AnswerIsExact ==
  /\ delivered = [k \in 1 .. Len(delivered) |-> k] /\ Len(delivered) <= heard.texts
  /\ result = "Finished" =>
       /\ Len(delivered) = heard.texts /\ chat.usage = heard.usage
       /\ heard.terminal /\ ~heard.wrong /\ ~heard.partial

\* No answer is refused as too long because of keep-alives, line ends or chunks: one
\* of its events is.
FittingIsAccepted == result = "FrameLimit" => server.long
=============================================================================
