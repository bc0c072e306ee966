-------------------------- MODULE Transport_proofs --------------------------
(***************************************************************************)
(* What holds of the Codex transport for any calls, ids and capacities.    *)
(***************************************************************************)
EXTENDS Transport, FiniteSetTheorems, TLAPS

\* The type invariant, inductive: the bound on pending needs it to be finite.
TypeInv == TypeOK /\ IsFiniteSet(pending)

\* A finite set without one of its members is finite and no larger.
LEMMA RemovedIsSmaller ==
  ASSUME NEW S, IsFiniteSet(S), NEW x \in S
  PROVE  /\ IsFiniteSet(S \ {x})
         /\ Cardinality(S \ {x}) \in Nat
         /\ Cardinality(S \ {x}) <= Cardinality(S)
<1>1. IsFiniteSet(S \ {x}) /\ Cardinality(S \ {x}) = Cardinality(S) - 1
  BY FS_RemoveElement
<1>2. Cardinality(S) \in Nat /\ Cardinality(S \ {x}) \in Nat
  BY <1>1, FS_CardinalityType
<1> QED BY <1>1, <1>2

\* A finite set below a bound does not pass it with one more member.
LEMMA AddedIsOneMore ==
  ASSUME NEW S, IsFiniteSet(S), NEW x, NEW n \in Nat, Cardinality(S) < n
  PROVE  IsFiniteSet(S \cup {x}) /\ Cardinality(S \cup {x}) <= n
<1>1. IsFiniteSet(S \cup {x})
  BY FS_AddElement
<1>2. Cardinality(S \cup {x}) = Cardinality(S)
        \/ Cardinality(S \cup {x}) = Cardinality(S) + 1
  BY FS_AddElement
<1>3. Cardinality(S) \in Nat
  BY FS_CardinalityType
<1> QED BY <1>1, <1>2, <1>3

\* The empty table is finite and has no entries.
LEMMA NothingPending ==
  IsFiniteSet({}) /\ Cardinality({}) = 0
BY FS_EmptySet

\* Answering calls keeps their type.
LEMMA AnsweredType ==
  ASSUME call \in [Calls -> CallType], NEW cs, NEW answer \in Answers,
         NEW id \in Ids \cup {NoId}
  PROVE  Answered(cs, answer, id) \in [Calls -> CallType]
BY DEF Answered, Ended, CallType

\* An id is remembered, and no more of them than the capacity.
LEMMA RetireType ==
  ASSUME RetiredTypeOK, NEW i \in Ids
  PROVE  /\ Retire(retired, i) \in [ids : SUBSET Ids, order : Seq(Ids)]
         /\ Len(Retire(retired, i).order) <= RetiredCapacity
<1> DEFINE order == Append(retired.order, i)
<1>1. retired.order \in Seq(Ids) /\ retired.ids \in SUBSET Ids
      /\ Len(retired.order) <= RetiredCapacity
  BY DEF RetiredTypeOK
<1>2. order \in Seq(Ids) /\ Len(order) = Len(retired.order) + 1 /\ order # <<>>
  BY <1>1
<1>3. Tail(order) \in Seq(Ids) /\ Len(Tail(order)) = Len(order) - 1
  BY <1>2
<1>4. RetiredCapacity \in Nat /\ Len(retired.order) \in Nat
  BY <1>1, TransportAssumption
<1> HIDE DEF order
<1>5. CASE Len(order) > RetiredCapacity
  <2>1. Retire(retired, i) = [ids |-> (retired.ids \cup {i}) \ {Head(order)},
                              order |-> Tail(order)]
    BY <1>5 DEF Retire, order
  <2> QED BY <2>1, <1>1, <1>2, <1>3, <1>4
<1>6. CASE ~(Len(order) > RetiredCapacity)
  <2>1. Retire(retired, i) = [ids |-> (retired.ids \cup {i}) \ {}, order |-> order]
    BY <1>6 DEF Retire, order
  <2> QED BY <2>1, <1>1, <1>2, <1>4, <1>6
<1> QED BY <1>5, <1>6

\* send_event keeps the queue's type and its bound.
LEMMA SendEventType ==
  ASSUME events \in Seq(EventType), Len(events) <= EventCapacity,
         NEW e \in EventType, SendEvent(e)
  PROVE  events' \in Seq(EventType) /\ Len(events') <= EventCapacity
<1>1. EventCapacity \in Nat
  BY TransportAssumption
<1>2. CASE HasRoom
  <2>1. events' = Append(events, e) /\ Len(events) < EventCapacity
    BY <1>2 DEF SendEvent, HasRoom
  <2> QED BY <2>1, <1>1
<1>3. CASE ~HasRoom
  BY <1>1, <1>3 DEF SendEvent
<1> QED BY <1>2, <1>3

\* What is left of a channel when its head is taken is still one, within its bound.
LEMMA TailType ==
  ASSUME NEW S, NEW s \in Seq(S), s # <<>>
  PROVE  /\ Head(s) \in S
         /\ Tail(s) \in Seq(S)
         /\ Len(Tail(s)) = Len(s) - 1
         /\ Len(s) \in Nat /\ Len(s) # 0
OBVIOUS

\* A command or a frame is taken from a channel that keeps its type and its bound.
LEMMA TakesCommandType ==
  ASSUME ClientTypeOK, NEW c \in Calls, TakesCommand(c)
  PROVE  commands' \in Seq(Calls) /\ Len(commands') <= CommandCapacity
BY TailType, TransportAssumption DEF ClientTypeOK, TakesCommand

\* A frame taken by the actor leaves the reader's channel typed.
LEMMA TakesFrameType ==
  ASSUME ChannelTypeOK, NEW kind, TakesFrame(kind)
  PROVE  /\ Head(incoming) \in FrameType
         /\ incoming' \in Seq(FrameType) /\ Len(incoming') <= ReaderCapacity
BY TailType, TransportAssumption DEF ChannelTypeOK, TakesFrame

\* Answering, retiring and failing requests only make room in the table.
LEMMA PendingShrinks ==
  ASSUME TableTypeOK, IsFiniteSet(pending),
         \/ pending' = pending
         \/ pending' = {}
         \/ \E r \in pending : pending' = pending \ {r}
  PROVE  /\ IsFiniteSet(pending')
         /\ Cardinality(pending') <= MaxPending
         /\ pending' \subseteq [id : Ids, call : Calls]
<1>1. MaxPending \in Nat /\ Cardinality(pending) \in Nat
      /\ Cardinality(pending) <= MaxPending /\ pending \subseteq [id : Ids, call : Calls]
  BY TransportAssumption, FS_CardinalityType DEF TableTypeOK
<1>2. CASE pending' = pending
  BY <1>1, <1>2
<1>3. CASE pending' = {}
  <2>1. IsFiniteSet(pending') /\ Cardinality(pending') = 0
    BY <1>3, NothingPending
  <2> QED BY <1>1, <1>3, <2>1
<1>4. ASSUME NEW r \in pending, pending' = pending \ {r}
      PROVE  /\ IsFiniteSet(pending')
             /\ Cardinality(pending') <= MaxPending
             /\ pending' \subseteq [id : Ids, call : Calls]
  <2>1. /\ IsFiniteSet(pending \ {r})
        /\ Cardinality(pending \ {r}) \in Nat
        /\ Cardinality(pending \ {r}) <= Cardinality(pending)
    BY RemovedIsSmaller
  <2> QED BY <1>1, <1>4, <2>1
<1> QED BY <1>2, <1>3, <1>4

\* The connection starts typed.
LEMMA InitType == Init => TypeInv
<1> SUFFICES ASSUME Init PROVE TypeInv
  OBVIOUS
<1>1. ClientTypeOK
  BY TransportAssumption DEF Init, ClientTypeOK, Idle, CallType
<1>2. TableTypeOK /\ IsFiniteSet(pending)
  <2>1. IsFiniteSet(pending) /\ Cardinality(pending) = 0
    BY NothingPending DEF Init
  <2>2. owner \in [Ids -> Calls \cup {NoCall}]
    BY DEF Init
  <2> QED BY <2>1, <2>2, TransportAssumption DEF Init, TableTypeOK
<1>3. RetiredTypeOK
  BY TransportAssumption DEF Init, RetiredTypeOK
<1>4. ActorTypeOK
  BY DEF Init, ActorTypeOK
<1>5. ChannelTypeOK
  BY TransportAssumption DEF Init, ChannelTypeOK
<1> QED BY <1>1, <1>2, <1>3, <1>4, <1>5 DEF TypeOK, TypeInv

\* The actor's own flags.
LEMMA ActorTypeStep ==
  ASSUME ActorTypeOK, Next
  PROVE  ActorTypeOK'
<1> USE DEF ActorTypeOK
<1>1. ASSUME NEW c \in Calls, Ask(c) PROVE ActorTypeOK'
  BY <1>1 DEF Ask, actorVars, childVars
<1>2. ASSUME NEW c \in Calls, Leave(c) PROVE ActorTypeOK'
  BY <1>2 DEF Leave, actorVars, childVars
<1>3. ASSUME NextEvent PROVE ActorTypeOK'
  BY <1>3 DEF NextEvent, actorVars, childVars
<1>4. ASSUME EventsEnd PROVE ActorTypeOK'
  BY <1>4 DEF EventsEnd, actorVars, childVars
<1>5. ASSUME Shutdown PROVE ActorTypeOK'
  BY <1>5 DEF Shutdown, actorVars, childVars
<1>6. ASSUME NEW r \in pending, RetireCancelled(r) PROVE ActorTypeOK'
  BY <1>6 DEF RetireCancelled, RetireRequest, childVars
<1>7. ASSUME Select PROVE ActorTypeOK'
  BY <1>7 DEF Select, actorVars, childVars
<1>8. ASSUME NEW c \in Calls, RefuseCommand(c) PROVE ActorTypeOK'
  BY <1>8 DEF RefuseCommand, TakesCommand, Continue
<1>9. ASSUME NEW c \in Calls, SendRequest(c) PROVE ActorTypeOK'
  BY <1>9 DEF SendRequest, TakesCommand, Continue, Break
<1>10. ASSUME NEW c \in Calls, SendNotice(c) PROVE ActorTypeOK'
  BY <1>10 DEF SendNotice, TakesCommand, Continue, Break
<1>11. ASSUME NEW r \in pending, TakeResponse(r) PROVE ActorTypeOK'
  BY <1>11 DEF TakeResponse, TakesFrame, childVars, Continue
<1>12. ASSUME IgnoreResponse PROVE ActorTypeOK'
  BY <1>12 DEF IgnoreResponse, TakesFrame, childVars, Continue
<1>13. ASSUME UnknownResponse PROVE ActorTypeOK'
  BY <1>13 DEF UnknownResponse, TakesFrame, CloseConnection, childVars, Break
<1>14. ASSUME BadFrame PROVE ActorTypeOK'
  BY <1>14 DEF BadFrame, TakesFrame, CloseConnection, childVars, Break
<1>15. ASSUME EndOfFrames PROVE ActorTypeOK'
  BY <1>15 DEF EndOfFrames, TakesFrame, CloseConnection, childVars, Break
<1>16. ASSUME Notification PROVE ActorTypeOK'
  BY <1>16 DEF Notification, TakesFrame, childVars, Continue, Break
<1>17. ASSUME ToolNotification PROVE ActorTypeOK'
  BY <1>17 DEF ToolNotification, TakesFrame, childVars, Continue
<1>18. ASSUME ServerRequest PROVE ActorTypeOK'
  BY <1>18 DEF ServerRequest, TakesFrame, childVars, Continue, Break
<1>19. ASSUME NEW r \in pending, Tick(r) PROVE ActorTypeOK'
  BY <1>19 DEF Tick, RetireRequest, childVars, Continue
<1>20. ASSUME TakeShutdown PROVE ActorTypeOK'
  BY <1>20 DEF TakeShutdown, actorVars, childVars, Break
<1>21. ASSUME Reap PROVE ActorTypeOK'
  BY <1>21 DEF Reap, childVars
<1>22. ASSUME Child PROVE ActorTypeOK'
  BY <1>22 DEF Child, Writes, ChildResponds, ChildNotifies, ChildUsesTool,
     ChildAsks, ChildErrs, ChildExits, actorVars, childVars
<1> QED
  BY <1>1, <1>2, <1>3, <1>4, <1>5, <1>6, <1>7, <1>8, <1>9, <1>10, <1>11,
     <1>12, <1>13, <1>14, <1>15, <1>16, <1>17, <1>18, <1>19, <1>20, <1>21,
     <1>22 DEF Next, Client, Actor, RetireSome, TickSome, TakeCommand,
     TakeFrame

\* What is remembered of requests that were given up.
LEMMA RetiredTypeStep ==
  ASSUME RetiredTypeOK, TableTypeOK, Next
  PROVE  RetiredTypeOK'
<1>1. ASSUME NEW c \in Calls, Ask(c) PROVE RetiredTypeOK'
  BY <1>1 DEF Ask, actorVars, childVars, RetiredTypeOK
<1>2. ASSUME NEW c \in Calls, Leave(c) PROVE RetiredTypeOK'
  BY <1>2 DEF Leave, actorVars, childVars, RetiredTypeOK
<1>3. ASSUME NextEvent PROVE RetiredTypeOK'
  BY <1>3 DEF NextEvent, actorVars, childVars, RetiredTypeOK
<1>4. ASSUME EventsEnd PROVE RetiredTypeOK'
  BY <1>4 DEF EventsEnd, actorVars, childVars, RetiredTypeOK
<1>5. ASSUME Shutdown PROVE RetiredTypeOK'
  BY <1>5 DEF Shutdown, actorVars, childVars, RetiredTypeOK
<1>6. ASSUME NEW r \in pending, RetireCancelled(r) PROVE RetiredTypeOK'
  <2>1. r.id \in Ids
    BY <1>6 DEF TableTypeOK
  <2>2. retired' = Retire(retired, r.id) /\ retirements' = retirements + 1
    BY <1>6 DEF RetireCancelled, RetireRequest
  <2> QED BY <2>1, <2>2, RetireType DEF RetiredTypeOK
<1>7. ASSUME Select PROVE RetiredTypeOK'
  BY <1>7 DEF Select, actorVars, childVars, RetiredTypeOK
<1>8. ASSUME NEW c \in Calls, RefuseCommand(c) PROVE RetiredTypeOK'
  BY <1>8 DEF RefuseCommand, TakesCommand, RetiredTypeOK
<1>9. ASSUME NEW c \in Calls, SendRequest(c) PROVE RetiredTypeOK'
  BY <1>9 DEF SendRequest, TakesCommand, RetiredTypeOK
<1>10. ASSUME NEW c \in Calls, SendNotice(c) PROVE RetiredTypeOK'
  BY <1>10 DEF SendNotice, TakesCommand, RetiredTypeOK
<1>11. ASSUME NEW r \in pending, TakeResponse(r) PROVE RetiredTypeOK'
  BY <1>11 DEF TakeResponse, TakesFrame, childVars, RetiredTypeOK
<1>12. ASSUME IgnoreResponse PROVE RetiredTypeOK'
  BY <1>12 DEF IgnoreResponse, TakesFrame, childVars, RetiredTypeOK
<1>13. ASSUME UnknownResponse PROVE RetiredTypeOK'
  BY <1>13 DEF UnknownResponse, TakesFrame, CloseConnection, childVars,
     RetiredTypeOK
<1>14. ASSUME BadFrame PROVE RetiredTypeOK'
  BY <1>14 DEF BadFrame, TakesFrame, CloseConnection, childVars, RetiredTypeOK
<1>15. ASSUME EndOfFrames PROVE RetiredTypeOK'
  BY <1>15 DEF EndOfFrames, TakesFrame, CloseConnection, childVars,
     RetiredTypeOK
<1>16. ASSUME Notification PROVE RetiredTypeOK'
  BY <1>16 DEF Notification, TakesFrame, childVars, RetiredTypeOK
<1>17. ASSUME ToolNotification PROVE RetiredTypeOK'
  BY <1>17 DEF ToolNotification, TakesFrame, childVars, RetiredTypeOK
<1>18. ASSUME ServerRequest PROVE RetiredTypeOK'
  BY <1>18 DEF ServerRequest, TakesFrame, childVars, RetiredTypeOK
<1>19. ASSUME NEW r \in pending, Tick(r) PROVE RetiredTypeOK'
  <2>1. r.id \in Ids
    BY <1>19 DEF TableTypeOK
  <2>2. retired' = Retire(retired, r.id) /\ retirements' = retirements + 1
    BY <1>19 DEF Tick, RetireRequest
  <2> QED BY <2>1, <2>2, RetireType DEF RetiredTypeOK
<1>20. ASSUME TakeShutdown PROVE RetiredTypeOK'
  BY <1>20 DEF TakeShutdown, actorVars, childVars, RetiredTypeOK
<1>21. ASSUME Reap PROVE RetiredTypeOK'
  BY <1>21 DEF Reap, childVars, RetiredTypeOK
<1>22. ASSUME Child PROVE RetiredTypeOK'
  BY <1>22 DEF Child, Writes, ChildResponds, ChildNotifies, ChildUsesTool,
     ChildAsks, ChildErrs, ChildExits, actorVars, childVars, RetiredTypeOK
<1> QED
  BY <1>1, <1>2, <1>3, <1>4, <1>5, <1>6, <1>7, <1>8, <1>9, <1>10, <1>11,
     <1>12, <1>13, <1>14, <1>15, <1>16, <1>17, <1>18, <1>19, <1>20, <1>21,
     <1>22 DEF Next, Client, Actor, RetireSome, TickSome, TakeCommand,
     TakeFrame

\* Where each call is, and the command channel.
LEMMA ClientTypeStep ==
  ASSUME ClientTypeOK, TableTypeOK, Next
  PROVE  ClientTypeOK'
<1>1. ASSUME NEW c \in Calls, Ask(c) PROVE ClientTypeOK'
  <2>1. call' \in [Calls -> CallType]
    BY <1>1 DEF Ask, Waiting, Ended, CallType, Answers, ClientTypeOK
  <2>2. commands' \in Seq(Calls) /\ Len(commands') <= CommandCapacity
    BY <1>1, TransportAssumption DEF Ask, ClientTypeOK
  <2> QED BY <1>1, <2>1, <2>2 DEF Ask, ClientTypeOK
<1>2. ASSUME NEW c \in Calls, Leave(c) PROVE ClientTypeOK'
  <2>1. call' \in [Calls -> CallType]
    BY <1>2 DEF Leave, Ended, CallType, Answers, ClientTypeOK
  <2> QED BY <1>2, <2>1 DEF Leave, ClientTypeOK
<1>3. ASSUME NextEvent PROVE ClientTypeOK'
  BY <1>3 DEF NextEvent, actorVars, childVars, ClientTypeOK
<1>4. ASSUME EventsEnd PROVE ClientTypeOK'
  BY <1>4 DEF EventsEnd, actorVars, childVars, ClientTypeOK
<1>5. ASSUME Shutdown PROVE ClientTypeOK'
  BY <1>5 DEF Shutdown, actorVars, childVars, ClientTypeOK
<1>6. ASSUME NEW r \in pending, RetireCancelled(r) PROVE ClientTypeOK'
  BY <1>6 DEF RetireCancelled, RetireRequest, childVars, ClientTypeOK
<1>7. ASSUME Select PROVE ClientTypeOK'
  BY <1>7 DEF Select, actorVars, childVars, ClientTypeOK
<1>8. ASSUME NEW c \in Calls, RefuseCommand(c) PROVE ClientTypeOK'
  <2>1. commands' \in Seq(Calls) /\ Len(commands') <= CommandCapacity
    BY <1>8, TakesCommandType DEF RefuseCommand
  <2>2. \E answer \in Answers : call' = Answered({c}, answer, NoId)
    BY <1>8 DEF RefuseCommand, Reply, Answers
  <2>3. call' \in [Calls -> CallType]
    BY <2>2 DEF Answered, Ended, Answers, CallType, ClientTypeOK
  <2> QED BY <1>8, <2>1, <2>3 DEF RefuseCommand, TakesCommand, ClientTypeOK
<1>9. ASSUME NEW c \in Calls, SendRequest(c) PROVE ClientTypeOK'
  <2>1. commands' \in Seq(Calls) /\ Len(commands') <= CommandCapacity
    BY <1>9, TakesCommandType DEF SendRequest
  <2>2. \/ \E answer \in Answers : call' = Answered({c}, answer, NoId)
        \/ call' = Answered(CallsOf(pending) \cup {c}, "io", NoId)
        \/ UNCHANGED call
    BY <1>9 DEF SendRequest, Reply, Answers
  <2>3. call' \in [Calls -> CallType]
    BY <2>2 DEF Answered, Ended, Answers, CallType, ClientTypeOK
  <2> QED BY <1>9, <2>1, <2>3 DEF SendRequest, TakesCommand, ClientTypeOK
<1>10. ASSUME NEW c \in Calls, SendNotice(c) PROVE ClientTypeOK'
  <2>1. commands' \in Seq(Calls) /\ Len(commands') <= CommandCapacity
    BY <1>10, TakesCommandType DEF SendNotice
  <2>2. \/ \E answer \in Answers : call' = Answered({c}, answer, NoId)
        \/ call' = Answered(CallsOf(pending) \cup {c}, "io", NoId)
        \/ UNCHANGED call
    BY <1>10 DEF SendNotice, Reply, Answers
  <2>3. call' \in [Calls -> CallType]
    BY <2>2 DEF Answered, Ended, Answers, CallType, ClientTypeOK
  <2> QED BY <1>10, <2>1, <2>3 DEF SendNotice, TakesCommand, ClientTypeOK
<1>11. ASSUME NEW r \in pending, TakeResponse(r) PROVE ClientTypeOK'
  <2>1. r.id \in Ids
    BY <1>11 DEF TableTypeOK
  <2>2. call' \in [Calls -> CallType]
    BY <1>11, <2>1, AnsweredType DEF TakeResponse, Answers, ClientTypeOK
  <2> QED BY <1>11, <2>2 DEF TakeResponse, TakesFrame, ClientTypeOK
<1>12. ASSUME IgnoreResponse PROVE ClientTypeOK'
  BY <1>12 DEF IgnoreResponse, TakesFrame, childVars, ClientTypeOK
<1>13. ASSUME UnknownResponse PROVE ClientTypeOK'
  <2>1. call' \in [Calls -> CallType]
    BY <1>13, AnsweredType DEF UnknownResponse, CloseConnection, FailPending, Answers, ClientTypeOK
  <2> QED BY <1>13, <2>1 DEF UnknownResponse, TakesFrame, ClientTypeOK
<1>14. ASSUME BadFrame PROVE ClientTypeOK'
  <2>1. call' \in [Calls -> CallType]
    BY <1>14, AnsweredType DEF BadFrame, CloseConnection, FailPending, Answers, ClientTypeOK
  <2> QED BY <1>14, <2>1 DEF BadFrame, TakesFrame, ClientTypeOK
<1>15. ASSUME EndOfFrames PROVE ClientTypeOK'
  <2>1. call' \in [Calls -> CallType]
    BY <1>15, AnsweredType DEF EndOfFrames, CloseConnection, FailPending, Answers, ClientTypeOK
  <2> QED BY <1>15, <2>1 DEF EndOfFrames, TakesFrame, ClientTypeOK
<1>16. ASSUME Notification PROVE ClientTypeOK'
  <2>1. UNCHANGED call \/ call' = Answered(CallsOf(pending), "protocol", NoId)
    BY <1>16 DEF Notification, FailPending
  <2>2. call' \in [Calls -> CallType]
    BY <2>1 DEF Answered, Ended, CallType, Answers, ClientTypeOK
  <2> QED BY <1>16, <2>2 DEF Notification, TakesFrame, ClientTypeOK
<1>17. ASSUME ToolNotification PROVE ClientTypeOK'
  BY <1>17 DEF ToolNotification, TakesFrame, childVars, ClientTypeOK
<1>18. ASSUME ServerRequest PROVE ClientTypeOK'
  <2>1. FailPending("io") \/ FailPending("violation")
    BY <1>18 DEF ServerRequest
  <2>2. \E answer \in Answers : call' = Answered(CallsOf(pending), answer, NoId)
    BY <2>1 DEF FailPending, Answers
  <2>3. call' \in [Calls -> CallType]
    BY <2>2 DEF Answered, Ended, CallType, ClientTypeOK
  <2> QED BY <1>18, <2>3 DEF ServerRequest, TakesFrame, ClientTypeOK
<1>19. ASSUME NEW r \in pending, Tick(r) PROVE ClientTypeOK'
  <2>1. call' \in [Calls -> CallType]
    BY <1>19 DEF Tick, Reply, Answered, Ended, CallType, Answers, ClientTypeOK
  <2> QED BY <1>19, <2>1 DEF Tick, ClientTypeOK
<1>20. ASSUME TakeShutdown PROVE ClientTypeOK'
  BY <1>20 DEF TakeShutdown, actorVars, childVars, ClientTypeOK
<1>21. ASSUME Reap PROVE ClientTypeOK'
  <2>1. call' \in [Calls -> CallType]
    BY <1>21, AnsweredType DEF Reap, Answers, ClientTypeOK
  <2> QED BY <1>21, <2>1, TransportAssumption DEF Reap, ClientTypeOK
<1>22. ASSUME Child PROVE ClientTypeOK'
  BY <1>22 DEF Child, Writes, ChildResponds, ChildNotifies, ChildUsesTool,
     ChildAsks, ChildErrs, ChildExits, actorVars, childVars, ClientTypeOK
<1> QED
  BY <1>1, <1>2, <1>3, <1>4, <1>5, <1>6, <1>7, <1>8, <1>9, <1>10, <1>11,
     <1>12, <1>13, <1>14, <1>15, <1>16, <1>17, <1>18, <1>19, <1>20, <1>21,
     <1>22 DEF Next, Client, Actor, RetireSome, TickSome, TakeCommand,
     TakeFrame

\* The reader's channel, the event channel and the child.
LEMMA ChannelTypeStep ==
  ASSUME ChannelTypeOK, TableTypeOK, Next
  PROVE  ChannelTypeOK'
<1>1. ASSUME NEW c \in Calls, Ask(c) PROVE ChannelTypeOK'
  BY <1>1 DEF Ask, actorVars, childVars, ChannelTypeOK
<1>2. ASSUME NEW c \in Calls, Leave(c) PROVE ChannelTypeOK'
  BY <1>2 DEF Leave, actorVars, childVars, ChannelTypeOK
<1>3. ASSUME NextEvent PROVE ChannelTypeOK'
  <2>1. events' \in Seq(EventType) /\ Len(events') <= EventCapacity
    BY <1>3, TailType, TransportAssumption DEF NextEvent, ChannelTypeOK
  <2> QED BY <1>3, <2>1 DEF NextEvent, childVars, ChannelTypeOK
<1>4. ASSUME EventsEnd PROVE ChannelTypeOK'
  BY <1>4 DEF EventsEnd, actorVars, childVars, ChannelTypeOK
<1>5. ASSUME Shutdown PROVE ChannelTypeOK'
  BY <1>5 DEF Shutdown, actorVars, childVars, ChannelTypeOK
<1>6. ASSUME NEW r \in pending, RetireCancelled(r) PROVE ChannelTypeOK'
  BY <1>6 DEF RetireCancelled, RetireRequest, childVars, ChannelTypeOK
<1>7. ASSUME Select PROVE ChannelTypeOK'
  BY <1>7 DEF Select, actorVars, childVars, ChannelTypeOK
<1>8. ASSUME NEW c \in Calls, RefuseCommand(c) PROVE ChannelTypeOK'
  BY <1>8 DEF RefuseCommand, TakesCommand, ChannelTypeOK
<1>9. ASSUME NEW c \in Calls, SendRequest(c) PROVE ChannelTypeOK'
  <2>1. nextId \in Ids
    BY <1>9, TransportAssumption DEF SendRequest, MayWrite, TableTypeOK, Ids
  <2>2. heard' \subseteq Ids
    BY <1>9, <2>1 DEF SendRequest, ChannelTypeOK
  <2> QED BY <1>9, <2>2 DEF SendRequest, TakesCommand, ChannelTypeOK
<1>10. ASSUME NEW c \in Calls, SendNotice(c) PROVE ChannelTypeOK'
  BY <1>10 DEF SendNotice, TakesCommand, ChannelTypeOK
<1>11. ASSUME NEW r \in pending, TakeResponse(r) PROVE ChannelTypeOK'
  <2>1. incoming' \in Seq(FrameType) /\ Len(incoming') <= ReaderCapacity
    BY <1>11, TakesFrameType DEF TakeResponse
  <2> QED BY <1>11, <2>1 DEF TakeResponse, TakesFrame, childVars, ChannelTypeOK
<1>12. ASSUME IgnoreResponse PROVE ChannelTypeOK'
  <2>1. incoming' \in Seq(FrameType) /\ Len(incoming') <= ReaderCapacity
    BY <1>12, TakesFrameType DEF IgnoreResponse
  <2> QED BY <1>12, <2>1 DEF IgnoreResponse, TakesFrame, childVars, ChannelTypeOK
<1>13. ASSUME UnknownResponse PROVE ChannelTypeOK'
  <2>1. /\ Head(incoming) \in FrameType
        /\ incoming' \in Seq(FrameType) /\ Len(incoming') <= ReaderCapacity
    BY <1>13, TakesFrameType DEF UnknownResponse
  <2>2. UNCHANGED events \/ \E e \in EventType : SendEvent(e)
    BY <1>13, <2>1 DEF UnknownResponse, CloseConnection, Event, Note, EventType, FrameType
  <2>3. events' \in Seq(EventType) /\ Len(events') <= EventCapacity
    BY <2>2, SendEventType DEF ChannelTypeOK
  <2> QED BY <1>13, <2>1, <2>3 DEF UnknownResponse, TakesFrame, childVars, ChannelTypeOK
<1>14. ASSUME BadFrame PROVE ChannelTypeOK'
  <2>1. /\ Head(incoming) \in FrameType
        /\ incoming' \in Seq(FrameType) /\ Len(incoming') <= ReaderCapacity
    BY <1>14, TakesFrameType DEF BadFrame
  <2>2. UNCHANGED events \/ \E e \in EventType : SendEvent(e)
    BY <1>14, <2>1 DEF BadFrame, CloseConnection, Event, Note, EventType, FrameType
  <2>3. events' \in Seq(EventType) /\ Len(events') <= EventCapacity
    BY <2>2, SendEventType DEF ChannelTypeOK
  <2> QED BY <1>14, <2>1, <2>3 DEF BadFrame, TakesFrame, childVars, ChannelTypeOK
<1>15. ASSUME EndOfFrames PROVE ChannelTypeOK'
  <2>1. /\ Head(incoming) \in FrameType
        /\ incoming' \in Seq(FrameType) /\ Len(incoming') <= ReaderCapacity
    BY <1>15, TakesFrameType DEF EndOfFrames
  <2>2. UNCHANGED events \/ \E e \in EventType : SendEvent(e)
    BY <1>15, <2>1 DEF EndOfFrames, CloseConnection, Event, Note, EventType, FrameType
  <2>3. events' \in Seq(EventType) /\ Len(events') <= EventCapacity
    BY <2>2, SendEventType DEF ChannelTypeOK
  <2> QED BY <1>15, <2>1, <2>3 DEF EndOfFrames, TakesFrame, childVars, ChannelTypeOK
<1>16. ASSUME Notification PROVE ChannelTypeOK'
  <2>1. /\ Head(incoming) \in FrameType
        /\ incoming' \in Seq(FrameType) /\ Len(incoming') <= ReaderCapacity
    BY <1>16, TakesFrameType DEF Notification
  <2>2. UNCHANGED events \/ \E e \in EventType : SendEvent(e)
    BY <1>16, <2>1 DEF Notification, CloseConnection, Event, Note, EventType, FrameType
  <2>3. events' \in Seq(EventType) /\ Len(events') <= EventCapacity
    BY <2>2, SendEventType DEF ChannelTypeOK
  <2> QED BY <1>16, <2>1, <2>3 DEF Notification, TakesFrame, childVars, ChannelTypeOK
<1>17. ASSUME ToolNotification PROVE ChannelTypeOK'
  <2>1. incoming' \in Seq(FrameType) /\ Len(incoming') <= ReaderCapacity
    BY <1>17, TakesFrameType DEF ToolNotification
  <2> QED BY <1>17, <2>1 DEF ToolNotification, TakesFrame, childVars, ChannelTypeOK
<1>18. ASSUME ServerRequest PROVE ChannelTypeOK'
  <2>1. /\ Head(incoming) \in FrameType
        /\ incoming' \in Seq(FrameType) /\ Len(incoming') <= ReaderCapacity
    BY <1>18, TakesFrameType DEF ServerRequest
  <2>2. UNCHANGED events \/ \E e \in EventType : SendEvent(e)
    BY <1>18, <2>1 DEF ServerRequest, CloseConnection, Event, Note, EventType, FrameType
  <2>3. events' \in Seq(EventType) /\ Len(events') <= EventCapacity
    BY <2>2, SendEventType DEF ChannelTypeOK
  <2> QED BY <1>18, <2>1, <2>3 DEF ServerRequest, TakesFrame, childVars, ChannelTypeOK
<1>19. ASSUME NEW r \in pending, Tick(r) PROVE ChannelTypeOK'
  BY <1>19 DEF Tick, RetireRequest, childVars, ChannelTypeOK
<1>20. ASSUME TakeShutdown PROVE ChannelTypeOK'
  BY <1>20 DEF TakeShutdown, actorVars, childVars, ChannelTypeOK
<1>21. ASSUME Reap PROVE ChannelTypeOK'
  BY <1>21, TransportAssumption DEF Reap, childVars, ChannelTypeOK
<1>22. ASSUME Child PROVE ChannelTypeOK'
  <2>1. \E frame \in FrameType : Writes(frame)
    <3>1. \A i \in Ids \cup {NoId} : Frame("response", i) \in FrameType
      BY DEF Frame, FrameType, Ids, NoId
    <3>2. Frame("notification", notes + 1) \in FrameType
      BY DEF Frame, FrameType, ChannelTypeOK
    <3>3. \A kind \in {"tool", "request", "bad", "eof"} : Frame(kind, 0) \in FrameType
      BY DEF Frame, FrameType
    <3>4. CASE \E i \in Ids : ChildResponds(i)
      BY <3>1, <3>4 DEF ChildResponds
    <3>5. CASE ChildNotifies
      BY <3>2, <3>5 DEF ChildNotifies
    <3>6. CASE ChildUsesTool \/ ChildAsks \/ ChildExits
      BY <3>3, <3>6 DEF ChildUsesTool, ChildAsks, ChildExits
    <3>7. CASE ChildErrs
      BY <3>1, <3>3, <3>7 DEF ChildErrs
    <3> QED BY <1>22, <3>4, <3>5, <3>6, <3>7 DEF Child
  <2>2. incoming' \in Seq(FrameType) /\ Len(incoming') <= ReaderCapacity /\ UNCHANGED events
    BY <2>1, TransportAssumption DEF Writes, ChannelTypeOK
  <2>3. heard' \subseteq Ids /\ notes' \in Nat
    BY <1>22 DEF Child, ChildResponds, ChildNotifies, ChildUsesTool, ChildAsks, ChildErrs,
             ChildExits, childVars, ChannelTypeOK
  <2> QED BY <2>2, <2>3 DEF ChannelTypeOK
<1> QED
  BY <1>1, <1>2, <1>3, <1>4, <1>5, <1>6, <1>7, <1>8, <1>9, <1>10, <1>11,
     <1>12, <1>13, <1>14, <1>15, <1>16, <1>17, <1>18, <1>19, <1>20, <1>21,
     <1>22 DEF Next, Client, Actor, RetireSome, TickSome, TakeCommand,
     TakeFrame

\* Requests in flight, their ids and their bound.
LEMMA TableTypeStep ==
  ASSUME TableTypeOK, IsFiniteSet(pending), Next
  PROVE  (TableTypeOK /\ IsFiniteSet(pending))'
<1>1. ASSUME NEW c \in Calls, Ask(c) PROVE (TableTypeOK /\ IsFiniteSet(pending))'
  BY <1>1 DEF Ask, actorVars, childVars, TableTypeOK
<1>2. ASSUME NEW c \in Calls, Leave(c) PROVE (TableTypeOK /\ IsFiniteSet(pending))'
  BY <1>2 DEF Leave, actorVars, childVars, TableTypeOK
<1>3. ASSUME NextEvent PROVE (TableTypeOK /\ IsFiniteSet(pending))'
  BY <1>3 DEF NextEvent, actorVars, childVars, TableTypeOK
<1>4. ASSUME EventsEnd PROVE (TableTypeOK /\ IsFiniteSet(pending))'
  BY <1>4 DEF EventsEnd, actorVars, childVars, TableTypeOK
<1>5. ASSUME Shutdown PROVE (TableTypeOK /\ IsFiniteSet(pending))'
  BY <1>5 DEF Shutdown, actorVars, childVars, TableTypeOK
<1>6. ASSUME NEW r \in pending, RetireCancelled(r) PROVE (TableTypeOK /\ IsFiniteSet(pending))'
  <2>1. pending' = pending \ {r}
    BY <1>6 DEF RetireCancelled, RetireRequest
  <2>2. UNCHANGED <<nextId, owner>>
    BY <1>6 DEF RetireCancelled, TakesFrame
  <2> QED BY <2>1, <2>2, PendingShrinks DEF TableTypeOK
<1>7. ASSUME Select PROVE (TableTypeOK /\ IsFiniteSet(pending))'
  BY <1>7 DEF Select, actorVars, childVars, TableTypeOK
<1>8. ASSUME NEW c \in Calls, RefuseCommand(c) PROVE (TableTypeOK /\ IsFiniteSet(pending))'
  BY <1>8 DEF RefuseCommand, TakesCommand, TableTypeOK
<1>9. ASSUME NEW c \in Calls, SendRequest(c) PROVE (TableTypeOK /\ IsFiniteSet(pending))'
  <2>1. nextId \in Ids /\ nextId' \in 1..(LastId + 1)
    BY <1>9, TransportAssumption DEF SendRequest, MayWrite, NextId, TableTypeOK, Ids
  <2>2. owner' \in [Ids -> Calls \cup {NoCall}]
    BY <1>9, <2>1 DEF SendRequest, TableTypeOK
  <2>3. \/ pending' = pending \cup {[id |-> nextId, call |-> c]}
        \/ pending' = pending \/ pending' = {}
    BY <1>9 DEF SendRequest
  <2>4. IsFiniteSet(pending)' /\ Cardinality(pending)' <= MaxPending
    <3>1. MaxPending \in Nat /\ Cardinality(pending) < MaxPending
      BY <1>9, TransportAssumption DEF SendRequest, MayWrite
    <3>2. CASE pending' = pending \cup {[id |-> nextId, call |-> c]}
      BY <3>1, <3>2, AddedIsOneMore
    <3>3. CASE pending' = pending \/ pending' = {}
      BY <3>3, PendingShrinks
    <3> QED BY <2>3, <3>2, <3>3
  <2>5. pending' \subseteq [id : Ids, call : Calls]
    BY <2>1, <2>3 DEF TableTypeOK
  <2> QED BY <2>1, <2>2, <2>4, <2>5 DEF TableTypeOK
<1>10. ASSUME NEW c \in Calls, SendNotice(c) PROVE (TableTypeOK /\ IsFiniteSet(pending))'
  <2>1. pending' = {} \/ pending' = pending
    BY <1>10 DEF SendNotice, CloseConnection, FailPending
  <2>2. UNCHANGED <<nextId, owner>>
    BY <1>10 DEF SendNotice, CloseConnection, TakesFrame
  <2> QED BY <2>1, <2>2, PendingShrinks DEF TableTypeOK
<1>11. ASSUME NEW r \in pending, TakeResponse(r) PROVE (TableTypeOK /\ IsFiniteSet(pending))'
  <2>1. pending' = pending \ {r}
    BY <1>11 DEF TakeResponse, RetireRequest
  <2>2. UNCHANGED <<nextId, owner>>
    BY <1>11 DEF TakeResponse, TakesFrame
  <2> QED BY <2>1, <2>2, PendingShrinks DEF TableTypeOK
<1>12. ASSUME IgnoreResponse PROVE (TableTypeOK /\ IsFiniteSet(pending))'
  BY <1>12 DEF IgnoreResponse, TakesFrame, childVars, TableTypeOK
<1>13. ASSUME UnknownResponse PROVE (TableTypeOK /\ IsFiniteSet(pending))'
  <2>1. pending' = {} \/ pending' = pending
    BY <1>13 DEF UnknownResponse, CloseConnection, FailPending
  <2>2. UNCHANGED <<nextId, owner>>
    BY <1>13 DEF UnknownResponse, CloseConnection, TakesFrame
  <2> QED BY <2>1, <2>2, PendingShrinks DEF TableTypeOK
<1>14. ASSUME BadFrame PROVE (TableTypeOK /\ IsFiniteSet(pending))'
  <2>1. pending' = {} \/ pending' = pending
    BY <1>14 DEF BadFrame, CloseConnection, FailPending
  <2>2. UNCHANGED <<nextId, owner>>
    BY <1>14 DEF BadFrame, CloseConnection, TakesFrame
  <2> QED BY <2>1, <2>2, PendingShrinks DEF TableTypeOK
<1>15. ASSUME EndOfFrames PROVE (TableTypeOK /\ IsFiniteSet(pending))'
  <2>1. pending' = {} \/ pending' = pending
    BY <1>15 DEF EndOfFrames, CloseConnection, FailPending
  <2>2. UNCHANGED <<nextId, owner>>
    BY <1>15 DEF EndOfFrames, CloseConnection, TakesFrame
  <2> QED BY <2>1, <2>2, PendingShrinks DEF TableTypeOK
<1>16. ASSUME Notification PROVE (TableTypeOK /\ IsFiniteSet(pending))'
  <2>1. pending' = {} \/ pending' = pending
    BY <1>16 DEF Notification, CloseConnection, FailPending
  <2>2. UNCHANGED <<nextId, owner>>
    BY <1>16 DEF Notification, CloseConnection, TakesFrame
  <2> QED BY <2>1, <2>2, PendingShrinks DEF TableTypeOK
<1>17. ASSUME ToolNotification PROVE (TableTypeOK /\ IsFiniteSet(pending))'
  BY <1>17 DEF ToolNotification, TakesFrame, childVars, TableTypeOK
<1>18. ASSUME ServerRequest PROVE (TableTypeOK /\ IsFiniteSet(pending))'
  <2>1. pending' = {} \/ pending' = pending
    BY <1>18 DEF ServerRequest, CloseConnection, FailPending
  <2>2. UNCHANGED <<nextId, owner>>
    BY <1>18 DEF ServerRequest, CloseConnection, TakesFrame
  <2> QED BY <2>1, <2>2, PendingShrinks DEF TableTypeOK
<1>19. ASSUME NEW r \in pending, Tick(r) PROVE (TableTypeOK /\ IsFiniteSet(pending))'
  <2>1. pending' = pending \ {r}
    BY <1>19 DEF Tick, RetireRequest
  <2>2. UNCHANGED <<nextId, owner>>
    BY <1>19 DEF Tick, TakesFrame
  <2> QED BY <2>1, <2>2, PendingShrinks DEF TableTypeOK
<1>20. ASSUME TakeShutdown PROVE (TableTypeOK /\ IsFiniteSet(pending))'
  BY <1>20 DEF TakeShutdown, actorVars, childVars, TableTypeOK
<1>21. ASSUME Reap PROVE (TableTypeOK /\ IsFiniteSet(pending))'
  <2>1. pending' = {} \/ pending' = pending
    BY <1>21 DEF Reap, CloseConnection, FailPending
  <2>2. UNCHANGED <<nextId, owner>>
    BY <1>21 DEF Reap, CloseConnection, TakesFrame
  <2> QED BY <2>1, <2>2, PendingShrinks DEF TableTypeOK
<1>22. ASSUME Child PROVE (TableTypeOK /\ IsFiniteSet(pending))'
  BY <1>22 DEF Child, Writes, ChildResponds, ChildNotifies, ChildUsesTool,
     ChildAsks, ChildErrs, ChildExits, actorVars, childVars, TableTypeOK
<1> QED
  BY <1>1, <1>2, <1>3, <1>4, <1>5, <1>6, <1>7, <1>8, <1>9, <1>10, <1>11,
     <1>12, <1>13, <1>14, <1>15, <1>16, <1>17, <1>18, <1>19, <1>20, <1>21,
     <1>22 DEF Next, Client, Actor, RetireSome, TickSome, TakeCommand,
     TakeFrame

\* Every step keeps the types and the table finite.
LEMMA StepType == TypeInv /\ [Next]_vars => TypeInv'
<1> SUFFICES ASSUME TypeInv, [Next]_vars PROVE TypeInv'
  OBVIOUS
<1>1. CASE Next
  BY <1>1, ActorTypeStep, RetiredTypeStep, ClientTypeStep, ChannelTypeStep, TableTypeStep
  DEF TypeInv, TypeOK
<1>2. CASE UNCHANGED vars
  BY <1>2 DEF vars, actorVars, childVars, TypeInv, TypeOK, ClientTypeOK, TableTypeOK,
              RetiredTypeOK, ActorTypeOK, ChannelTypeOK
<1> QED BY <1>1, <1>2

\* The types and bounds hold of every behaviour.
LEMMA TypeInvariant == Spec => []TypeInv
<1>1. Init => TypeInv
  BY InitType
<1>2. TypeInv /\ [Next]_vars => TypeInv'
  BY StepType
<1> QED BY <1>1, <1>2, PTL DEF Spec

\* The channels and the table of requests keep their types and their bounds
\* (channel.rs, run_connection), for any number of calls and any capacities.
THEOREM TypeSafety == Spec => []TypeOK
<1>1. TypeInv => TypeOK
  BY DEF TypeInv
<1> QED BY <1>1, TypeInvariant, PTL

-----------------------------------------------------------------------------
(* A response reaches its own caller.  Ids only grow, so that an id in use  *)
(* or answered belongs to one call for good.                                *)

PendingIsOwned ==
  \A r \in pending : r.id < nextId /\ r.call \notin Notices /\ owner[r.id] = r.call

ResultIsOwned ==
  \A c \in Calls \ Notices : call[c].answer = "result" =>
    call[c].id \in Ids /\ call[c].id < nextId /\ owner[call[c].id] = c

OwnInv == PendingIsOwned /\ ResultIsOwned

\* A step that allocates no id, and gives nobody a result, keeps it.
LEMMA OwnKept ==
  ASSUME OwnInv, UNCHANGED <<nextId, owner>>, pending' \subseteq pending,
         \A c \in Calls \ Notices : call'[c].answer = "result" => call'[c] = call[c]
  PROVE  OwnInv'
BY DEF OwnInv, PendingIsOwned, ResultIsOwned

\* Errors are not results.
LEMMA ErrorsAreNoResults ==
  ASSUME NEW cs, NEW answer \in Answers \ {"result"},
         call' = Answered(cs, answer, NoId), NEW c \in Calls,
         call'[c].answer = "result"
  PROVE  call'[c] = call[c]
BY DEF Answered, Ended, Answers

\* Every step keeps it.
LEMMA OwnStep ==
  ASSUME TypeInv, OwnInv, Next
  PROVE  OwnInv'
<1>1. ASSUME NEW c \in Calls, Ask(c) PROVE OwnInv'
  <2>1. UNCHANGED <<nextId, owner, pending>>
    BY <1>1 DEF Ask, actorVars
  <2>2. \A d \in Calls : call'[d].answer = "result" => call'[d] = call[d]
    BY <1>1 DEF Ask, Waiting, Ended, ClientTypeOK, TypeOK, TypeInv
  <2> QED BY <2>1, <2>2, OwnKept
<1>2. ASSUME NEW c \in Calls, Leave(c) PROVE OwnInv'
  <2>1. UNCHANGED <<nextId, owner, pending>>
    BY <1>2 DEF Leave, actorVars
  <2>2. \A d \in Calls : call'[d].answer = "result" => call'[d] = call[d]
    BY <1>2 DEF Leave, Ended, ClientTypeOK, TypeOK, TypeInv
  <2> QED BY <2>1, <2>2, OwnKept
<1>3. ASSUME NextEvent PROVE OwnInv'
  <2>1. UNCHANGED <<nextId, owner, pending, call>>
    BY <1>3 DEF NextEvent, actorVars, childVars
  <2> QED BY <2>1, OwnKept
<1>4. ASSUME EventsEnd PROVE OwnInv'
  <2>1. UNCHANGED <<nextId, owner, pending, call>>
    BY <1>4 DEF EventsEnd, actorVars, childVars
  <2> QED BY <2>1, OwnKept
<1>5. ASSUME Shutdown PROVE OwnInv'
  <2>1. UNCHANGED <<nextId, owner, pending, call>>
    BY <1>5 DEF Shutdown, actorVars, childVars
  <2> QED BY <2>1, OwnKept
<1>6. ASSUME NEW r \in pending, RetireCancelled(r) PROVE OwnInv'
  <2>1. UNCHANGED <<nextId, owner, call>> /\ pending' \subseteq pending
    BY <1>6 DEF RetireCancelled, RetireRequest
  <2> QED BY <2>1, OwnKept
<1>7. ASSUME Select PROVE OwnInv'
  <2>1. UNCHANGED <<nextId, owner, pending, call>>
    BY <1>7 DEF Select, actorVars, childVars
  <2> QED BY <2>1, OwnKept
<1>8. ASSUME NEW c \in Calls, RefuseCommand(c) PROVE OwnInv'
  <2>1. UNCHANGED <<nextId, owner>> /\ pending' \subseteq pending
    BY <1>8 DEF RefuseCommand, TakesCommand, Reply
  <2>2. UNCHANGED call \/ \E answer \in Answers \ {"result"} :
                            call' = Answered({c}, answer, NoId)
    BY <1>8 DEF RefuseCommand, TakesCommand, Reply, Answers
  <2>3. \A d \in Calls \ Notices : call'[d].answer = "result" => call'[d] = call[d]
    BY <2>2, ErrorsAreNoResults
  <2> QED BY <2>1, <2>3, OwnKept
<1>9. ASSUME NEW c \in Calls, SendRequest(c) PROVE OwnInv'
  <2>1. nextId \in Ids /\ nextId' = nextId + 1 /\ c \notin Notices
    BY <1>9, TransportAssumption DEF SendRequest, MayWrite, NextId, TypeInv, TypeOK, TableTypeOK, Ids
  <2>2. owner' = [owner EXCEPT ![nextId] = c] /\ owner \in [Ids -> Calls \cup {NoCall}]
    BY <1>9 DEF SendRequest, TypeInv, TypeOK, TableTypeOK
  <2>3. pending' \subseteq pending \cup {[id |-> nextId, call |-> c]}
    BY <1>9 DEF SendRequest
  <2>4. \A i \in Ids : i < nextId => owner'[i] = owner[i] /\ i < nextId'
    BY <2>1, <2>2 DEF Ids
  <2>5. PendingIsOwned'
    <3>1. ASSUME NEW r \in pending PROVE r.id < nextId' /\ r.call \notin Notices /\ owner'[r.id] = r.call
      BY <2>4 DEF OwnInv, PendingIsOwned, TypeInv, TypeOK, TableTypeOK
    <3>2. nextId < nextId' /\ owner'[nextId] = c
      BY <2>1, <2>2 DEF Ids
    <3> QED BY <2>1, <2>3, <3>1, <3>2 DEF PendingIsOwned
  <2>6. \A d \in Calls \ Notices : call'[d].answer = "result" => call'[d] = call[d]
    <3>1. \/ UNCHANGED call
          \/ call' = Answered({c}, "protocol", NoId)
          \/ call' = Answered(CallsOf(pending) \cup {c}, "io", NoId)
      BY <1>9 DEF SendRequest, Reply
    <3> QED BY <3>1 DEF Answered, Ended
  <2>7. ResultIsOwned'
    BY <2>4, <2>6 DEF OwnInv, ResultIsOwned
  <2> QED BY <2>5, <2>7 DEF OwnInv
<1>10. ASSUME NEW c \in Calls, SendNotice(c) PROVE OwnInv'
  <2>1. UNCHANGED <<nextId, owner>> /\ pending' \subseteq pending /\ c \in Notices
    BY <1>10 DEF SendNotice
  <2>2. \/ \E answer \in {"result", "protocol"} : call' = Answered({c}, answer, NoId)
        \/ call' = Answered(CallsOf(pending) \cup {c}, "io", NoId)
    BY <1>10 DEF SendNotice, Reply
  <2>3. \A d \in Calls \ Notices : call'[d].answer = "result" => call'[d] = call[d]
    BY <2>1, <2>2 DEF Answered, Ended
  <2> QED BY <2>1, <2>3, OwnKept
<1>11. ASSUME NEW r \in pending, TakeResponse(r) PROVE OwnInv'
  <2>1. UNCHANGED <<nextId, owner>> /\ pending' \subseteq pending
    BY <1>11 DEF TakeResponse, TakesFrame
  <2>2. r.id \in Ids /\ r.id < nextId /\ owner[r.id] = r.call
    BY DEF OwnInv, PendingIsOwned, TypeInv, TypeOK, TableTypeOK
  <2>3. call' = Answered({r.call}, "result", r.id)
    BY <1>11 DEF TakeResponse
  <2>4. ASSUME NEW c \in Calls \ Notices, call'[c].answer = "result"
        PROVE  call'[c].id \in Ids /\ call'[c].id < nextId /\ owner[call'[c].id] = c
    <3>1. CASE c = r.call /\ call[c].at = "waiting"
      <4>1. call'[c] = Ended("result", r.id)
        BY <2>3, <3>1 DEF Answered
      <4> QED BY <2>2, <3>1, <4>1 DEF Ended
    <3>2. CASE ~(c = r.call /\ call[c].at = "waiting")
      <4>1. call'[c] = call[c]
        BY <2>3, <3>2 DEF Answered
      <4> QED BY <2>4, <4>1 DEF OwnInv, ResultIsOwned
    <3> QED BY <3>1, <3>2
  <2>5. ResultIsOwned'
    BY <2>1, <2>4 DEF ResultIsOwned
  <2>6. PendingIsOwned'
    BY <2>1 DEF OwnInv, PendingIsOwned
  <2> QED BY <2>5, <2>6 DEF OwnInv
<1>12. ASSUME IgnoreResponse PROVE OwnInv'
  <2>1. UNCHANGED <<nextId, owner, pending, call>>
    BY <1>12 DEF IgnoreResponse, TakesFrame, childVars
  <2> QED BY <2>1, OwnKept
<1>13. ASSUME UnknownResponse PROVE OwnInv'
  <2>1. UNCHANGED <<nextId, owner>> /\ pending' \subseteq pending
    BY <1>13 DEF UnknownResponse, TakesFrame, CloseConnection, FailPending
  <2>2. UNCHANGED call \/ \E answer \in Answers \ {"result"} :
                            call' = Answered(CallsOf(pending), answer, NoId)
    BY <1>13 DEF UnknownResponse, TakesFrame, CloseConnection, FailPending, Answers
  <2>3. \A c \in Calls \ Notices : call'[c].answer = "result" => call'[c] = call[c]
    BY <2>2, ErrorsAreNoResults
  <2> QED BY <2>1, <2>3, OwnKept
<1>14. ASSUME BadFrame PROVE OwnInv'
  <2>1. UNCHANGED <<nextId, owner>> /\ pending' \subseteq pending
    BY <1>14 DEF BadFrame, TakesFrame, CloseConnection, FailPending
  <2>2. UNCHANGED call \/ \E answer \in Answers \ {"result"} :
                            call' = Answered(CallsOf(pending), answer, NoId)
    BY <1>14 DEF BadFrame, TakesFrame, CloseConnection, FailPending, Answers
  <2>3. \A c \in Calls \ Notices : call'[c].answer = "result" => call'[c] = call[c]
    BY <2>2, ErrorsAreNoResults
  <2> QED BY <2>1, <2>3, OwnKept
<1>15. ASSUME EndOfFrames PROVE OwnInv'
  <2>1. UNCHANGED <<nextId, owner>> /\ pending' \subseteq pending
    BY <1>15 DEF EndOfFrames, TakesFrame, CloseConnection, FailPending
  <2>2. UNCHANGED call \/ \E answer \in Answers \ {"result"} :
                            call' = Answered(CallsOf(pending), answer, NoId)
    BY <1>15 DEF EndOfFrames, TakesFrame, CloseConnection, FailPending, Answers
  <2>3. \A c \in Calls \ Notices : call'[c].answer = "result" => call'[c] = call[c]
    BY <2>2, ErrorsAreNoResults
  <2> QED BY <2>1, <2>3, OwnKept
<1>16. ASSUME Notification PROVE OwnInv'
  <2>1. UNCHANGED <<nextId, owner>> /\ pending' \subseteq pending
    BY <1>16 DEF Notification, TakesFrame, FailPending
  <2>2. UNCHANGED call \/ \E answer \in Answers \ {"result"} :
                            call' = Answered(CallsOf(pending), answer, NoId)
    BY <1>16 DEF Notification, TakesFrame, FailPending, Answers
  <2>3. \A c \in Calls \ Notices : call'[c].answer = "result" => call'[c] = call[c]
    BY <2>2, ErrorsAreNoResults
  <2> QED BY <2>1, <2>3, OwnKept
<1>17. ASSUME ToolNotification PROVE OwnInv'
  <2>1. UNCHANGED <<nextId, owner, pending, call>>
    BY <1>17 DEF ToolNotification, TakesFrame, childVars
  <2> QED BY <2>1, OwnKept
<1>18. ASSUME ServerRequest PROVE OwnInv'
  <2>1. UNCHANGED <<nextId, owner>> /\ pending' \subseteq pending
    BY <1>18 DEF ServerRequest, TakesFrame, FailPending
  <2>2. UNCHANGED call \/ \E answer \in Answers \ {"result"} :
                            call' = Answered(CallsOf(pending), answer, NoId)
    BY <1>18 DEF ServerRequest, TakesFrame, FailPending, Answers
  <2>3. \A c \in Calls \ Notices : call'[c].answer = "result" => call'[c] = call[c]
    BY <2>2, ErrorsAreNoResults
  <2> QED BY <2>1, <2>3, OwnKept
<1>19. ASSUME NEW r \in pending, Tick(r) PROVE OwnInv'
  <2>1. UNCHANGED <<nextId, owner>> /\ pending' \subseteq pending
    BY <1>19 DEF Tick, RetireRequest, Reply
  <2>2. UNCHANGED call \/ \E answer \in Answers \ {"result"} :
                            call' = Answered({r.call}, answer, NoId)
    BY <1>19 DEF Tick, RetireRequest, Reply, Answers
  <2>3. \A c \in Calls \ Notices : call'[c].answer = "result" => call'[c] = call[c]
    BY <2>2, ErrorsAreNoResults
  <2> QED BY <2>1, <2>3, OwnKept
<1>20. ASSUME TakeShutdown PROVE OwnInv'
  <2>1. UNCHANGED <<nextId, owner, pending, call>>
    BY <1>20 DEF TakeShutdown, actorVars, childVars
  <2> QED BY <2>1, OwnKept
<1>21. ASSUME Reap PROVE OwnInv'
  <2>1. UNCHANGED <<nextId, owner>> /\ pending' \subseteq pending
    BY <1>21 DEF Reap
  <2>2. UNCHANGED call \/ \E answer \in Answers \ {"result"} :
                            call' = Answered(Calls, answer, NoId)
    BY <1>21 DEF Reap, Answers
  <2>3. \A c \in Calls \ Notices : call'[c].answer = "result" => call'[c] = call[c]
    BY <2>2, ErrorsAreNoResults
  <2> QED BY <2>1, <2>3, OwnKept
<1>22. ASSUME Child PROVE OwnInv'
  <2>1. UNCHANGED <<nextId, owner, pending, call>>
    BY <1>22 DEF Child, Writes, ChildResponds, ChildNotifies, ChildUsesTool, ChildAsks,
                 ChildErrs, ChildExits, actorVars, childVars
  <2> QED BY <2>1, OwnKept
<1> QED
  BY <1>1, <1>2, <1>3, <1>4, <1>5, <1>6, <1>7, <1>8, <1>9, <1>10, <1>11,
     <1>12, <1>13, <1>14, <1>15, <1>16, <1>17, <1>18, <1>19, <1>20, <1>21,
     <1>22 DEF Next, Client, Actor, RetireSome, TickSome, TakeCommand,
     TakeFrame

\* Pending requests and results belong to the call their id was allocated for.
LEMMA OwnInvariant == Spec => []OwnInv
<1>1. Init => OwnInv
  BY DEF Init, Idle, OwnInv, PendingIsOwned, ResultIsOwned
<1>2. TypeInv /\ OwnInv /\ [Next]_vars => OwnInv'
  <2> SUFFICES ASSUME TypeInv, OwnInv, [Next]_vars PROVE OwnInv'
    OBVIOUS
  <2>1. CASE Next
    BY <2>1, OwnStep
  <2>2. CASE UNCHANGED vars
    BY <2>2 DEF vars, actorVars, OwnInv, PendingIsOwned, ResultIsOwned
  <2> QED BY <2>1, <2>2
<1> QED BY <1>1, <1>2, TypeInvariant, PTL DEF Spec

\* A caller gets the response to its own request, for any child, any order of
\* responses and any number of requests given up (run_connection, channel.rs).
THEOREM ResponsesFindTheirCallers == Spec => []OwnResponse
<1>1. OwnInv => OwnResponse
  BY DEF OwnInv, ResultIsOwned, OwnResponse
<1> QED BY <1>1, OwnInvariant, PTL

-----------------------------------------------------------------------------
(* Nobody waits for an actor that has lost track of them.                  *)

InQueue(c) == \E k \in 1..Len(commands) : commands[k] = c
InHand(c) == InQueue(c) \/ c \in CallsOf(pending) \/ loop = "reaping"

\* Whoever is answered waits no longer.
LEMMA AnsweredWaitNoMore ==
  ASSUME NEW cs, NEW answer, NEW id, call' = Answered(cs, answer, id),
         NEW c \in Calls, call'[c].at = "waiting"
  PROVE  c \notin cs /\ call[c].at = "waiting"
BY DEF Answered, Ended

\* Of those in the queue, only the one whose command is taken leaves it.
LEMMA OneLeavesTheQueue ==
  ASSUME ClientTypeOK, NEW c \in Calls, TakesCommand(c),
         NEW d \in Calls, d # c, InQueue(d)
  PROVE  InQueue(d)'
<1>1. commands \in Seq(Calls) /\ commands # <<>> /\ c = commands[1]
      /\ commands' = Tail(commands)
  BY DEF TakesCommand, ClientTypeOK
<1>2. PICK k \in 1..Len(commands) : commands[k] = d
  BY DEF InQueue
<1>3. k # 1 /\ k - 1 \in 1..Len(commands')
  BY <1>1, <1>2
<1>4. commands'[k - 1] = d
  BY <1>1, <1>2, <1>3
<1> QED BY <1>3, <1>4 DEF InQueue

\* Every step keeps them in hand.
LEMMA NobodyForgottenStep ==
  ASSUME TypeInv, NobodyForgotten, Next
  PROVE  NobodyForgotten'
<1>1. ASSUME NEW c \in Calls, Ask(c) PROVE NobodyForgotten'
  <2> SUFFICES ASSUME NEW d \in Calls, call'[d].at = "waiting" PROVE InHand(d)'
    BY DEF NobodyForgotten, InHand, InQueue
  <2>0. call[d].at = "waiting" => InHand(d)
    BY DEF NobodyForgotten, InHand, InQueue
  <2>1. UNCHANGED <<pending, loop>> /\ call \in [Calls -> CallType] /\ commands \in Seq(Calls)
    BY <1>1 DEF Ask, actorVars, ClientTypeOK, TypeOK, TypeInv
  <2>2. CASE d = c
    <3>1. commands' = Append(commands, c)
      BY <1>1, <2>1, <2>2 DEF Ask, Ended
    <3>2. Len(commands') \in 1..Len(commands') /\ commands'[Len(commands')] = c
      BY <2>1, <3>1
    <3> QED BY <2>2, <3>2 DEF InHand, InQueue
  <2>3. CASE d # c
    <3>1. call[d].at = "waiting"
      BY <1>1, <2>1, <2>3 DEF Ask
    <3>2. InQueue(d) => InQueue(d)'
      BY <1>1, <2>1 DEF Ask, InQueue
    <3> QED BY <2>0, <2>1, <3>1, <3>2 DEF InHand
  <2> QED BY <2>2, <2>3
<1>2. ASSUME NEW c \in Calls, Leave(c) PROVE NobodyForgotten'
  <2> SUFFICES ASSUME NEW d \in Calls, call'[d].at = "waiting" PROVE InHand(d)'
    BY DEF NobodyForgotten, InHand, InQueue
  <2>0. call[d].at = "waiting" => InHand(d)
    BY DEF NobodyForgotten, InHand, InQueue
  <2>1. UNCHANGED <<commands, pending, loop>> /\ call[d].at = "waiting"
    BY <1>2 DEF Leave, Ended, ClientTypeOK, TypeOK, TypeInv, actorVars
  <2> QED BY <2>0, <2>1 DEF InHand, InQueue
<1>3. ASSUME NextEvent PROVE NobodyForgotten'
  <2> SUFFICES ASSUME NEW d \in Calls, call'[d].at = "waiting" PROVE InHand(d)'
    BY DEF NobodyForgotten, InHand, InQueue
  <2>0. call[d].at = "waiting" => InHand(d)
    BY DEF NobodyForgotten, InHand, InQueue
  <2>1. UNCHANGED <<commands, pending, loop>> /\ call[d].at = "waiting"
    BY <1>3 DEF NextEvent, actorVars
  <2> QED BY <2>0, <2>1 DEF InHand, InQueue
<1>4. ASSUME EventsEnd PROVE NobodyForgotten'
  <2> SUFFICES ASSUME NEW d \in Calls, call'[d].at = "waiting" PROVE InHand(d)'
    BY DEF NobodyForgotten, InHand, InQueue
  <2>0. call[d].at = "waiting" => InHand(d)
    BY DEF NobodyForgotten, InHand, InQueue
  <2>1. UNCHANGED <<commands, pending, loop>> /\ call[d].at = "waiting"
    BY <1>4 DEF EventsEnd, actorVars
  <2> QED BY <2>0, <2>1 DEF InHand, InQueue
<1>5. ASSUME Shutdown PROVE NobodyForgotten'
  <2> SUFFICES ASSUME NEW d \in Calls, call'[d].at = "waiting" PROVE InHand(d)'
    BY DEF NobodyForgotten, InHand, InQueue
  <2>0. call[d].at = "waiting" => InHand(d)
    BY DEF NobodyForgotten, InHand, InQueue
  <2>1. UNCHANGED <<commands, pending, loop>> /\ call[d].at = "waiting"
    BY <1>5 DEF Shutdown, actorVars
  <2> QED BY <2>0, <2>1 DEF InHand, InQueue
<1>6. ASSUME NEW r \in pending, RetireCancelled(r) PROVE NobodyForgotten'
  <2> SUFFICES ASSUME NEW d \in Calls, call'[d].at = "waiting" PROVE InHand(d)'
    BY DEF NobodyForgotten, InHand, InQueue
  <2>0. call[d].at = "waiting" => InHand(d)
    BY DEF NobodyForgotten, InHand, InQueue
  <2>1. UNCHANGED <<commands, call>> /\ loop # "reaping" /\ pending' = pending \ {r}
        /\ call[r.call].at # "waiting"
    BY <1>6 DEF RetireCancelled, RetireRequest, Abandoned
  <2>2. d # r.call
    BY <2>1
  <2>3. d \in CallsOf(pending) => d \in CallsOf(pending)'
    BY <2>1, <2>2 DEF CallsOf
  <2> QED BY <2>0, <2>1, <2>3 DEF InHand, InQueue
<1>7. ASSUME Select PROVE NobodyForgotten'
  <2> SUFFICES ASSUME NEW d \in Calls, call'[d].at = "waiting" PROVE InHand(d)'
    BY DEF NobodyForgotten, InHand, InQueue
  <2>0. call[d].at = "waiting" => InHand(d)
    BY DEF NobodyForgotten, InHand, InQueue
  <2>1. UNCHANGED <<commands, pending, call>> /\ loop # "reaping"
    BY <1>7 DEF Select, actorVars
  <2> QED BY <2>0, <2>1 DEF InHand, InQueue
<1>8. ASSUME NEW c \in Calls, RefuseCommand(c) PROVE NobodyForgotten'
  <2> SUFFICES ASSUME NEW d \in Calls, call'[d].at = "waiting" PROVE InHand(d)'
    BY DEF NobodyForgotten, InHand, InQueue
  <2>0. call[d].at = "waiting" => InHand(d)
    BY DEF NobodyForgotten, InHand, InQueue
  <2>1. UNCHANGED pending /\ loop # "reaping" /\ TakesCommand(c)
        /\ \E answer \in Answers : call' = Answered({c}, answer, NoId)
    BY <1>8 DEF RefuseCommand, TakesCommand, Reply, Answers
  <2>2. d # c /\ call[d].at = "waiting"
    BY <2>1, AnsweredWaitNoMore
  <2> QED BY <2>0, <2>1, <2>2, OneLeavesTheQueue DEF InHand, TypeInv, TypeOK
<1>9. ASSUME NEW c \in Calls, SendRequest(c) PROVE NobodyForgotten'
  <2> SUFFICES ASSUME NEW d \in Calls, call'[d].at = "waiting" PROVE InHand(d)'
    BY DEF NobodyForgotten, InHand, InQueue
  <2>0. call[d].at = "waiting" => InHand(d)
    BY DEF NobodyForgotten, InHand, InQueue
  <2>1. loop # "reaping" /\ TakesCommand(c)
    BY <1>9 DEF SendRequest, TakesCommand
  <2>2. CASE pending' = pending \cup {[id |-> nextId, call |-> c]} /\ UNCHANGED call
    <3>1. pending' = pending \cup {[id |-> nextId, call |-> c]}
      BY <2>2
    <3>2. [id |-> nextId, call |-> c].call \in CallsOf(pending')
      BY <3>1 DEF CallsOf
    <3>3. d \in CallsOf(pending) => d \in CallsOf(pending')
      BY <3>1 DEF CallsOf
    <3>4. CallsOf(pending)' = CallsOf(pending')
      BY DEF CallsOf
    <3>5. c \in CallsOf(pending)' /\ (d \in CallsOf(pending) => d \in CallsOf(pending)')
      BY <3>2, <3>3, <3>4
    <3> QED BY <2>0, <2>1, <2>2, <3>5, OneLeavesTheQueue DEF InHand, TypeInv, TypeOK
  <2>3. CASE UNCHANGED pending /\ call' = Answered({c}, "protocol", NoId)
    <3>1. d # c /\ call[d].at = "waiting"
      BY <2>3, AnsweredWaitNoMore
    <3> QED BY <2>0, <2>1, <2>3, <3>1, OneLeavesTheQueue DEF InHand, TypeInv, TypeOK
  <2>4. CASE loop' = "reaping"
    BY <2>4 DEF InHand
  <2> QED BY <1>9, <2>2, <2>3, <2>4 DEF SendRequest, Break, Reply
<1>10. ASSUME NEW c \in Calls, SendNotice(c) PROVE NobodyForgotten'
  <2> SUFFICES ASSUME NEW d \in Calls, call'[d].at = "waiting" PROVE InHand(d)'
    BY DEF NobodyForgotten, InHand, InQueue
  <2>0. call[d].at = "waiting" => InHand(d)
    BY DEF NobodyForgotten, InHand, InQueue
  <2>1. loop # "reaping" /\ TakesCommand(c)
    BY <1>10 DEF SendNotice, TakesCommand
  <2>2. CASE loop' = "reaping"
    BY <2>2 DEF InHand
  <2>3. CASE loop' # "reaping"
    <3>1. UNCHANGED pending /\ \E answer \in Answers : call' = Answered({c}, answer, NoId)
      BY <1>10, <2>3 DEF SendNotice, Break, Reply, Answers
    <3>2. d # c /\ call[d].at = "waiting"
      BY <3>1, AnsweredWaitNoMore
    <3> QED BY <2>0, <2>1, <3>1, <3>2, OneLeavesTheQueue DEF InHand, TypeInv, TypeOK
  <2> QED BY <2>2, <2>3
<1>11. ASSUME NEW r \in pending, TakeResponse(r) PROVE NobodyForgotten'
  <2> SUFFICES ASSUME NEW d \in Calls, call'[d].at = "waiting" PROVE InHand(d)'
    BY DEF NobodyForgotten, InHand, InQueue
  <2>0. call[d].at = "waiting" => InHand(d)
    BY DEF NobodyForgotten, InHand, InQueue
  <2>1. UNCHANGED commands /\ loop # "reaping" /\ pending' = pending \ {r}
    BY <1>11 DEF TakeResponse, TakesFrame
  <2>2. call' = Answered({r.call}, "result", r.id)
    BY <1>11 DEF TakeResponse, TakesFrame
  <2>3. d # r.call /\ call[d].at = "waiting"
    BY <2>2, AnsweredWaitNoMore
  <2>4. d \in CallsOf(pending) => d \in CallsOf(pending)'
    BY <2>1, <2>3 DEF CallsOf
  <2> QED BY <2>0, <2>1, <2>3, <2>4 DEF InHand, InQueue
<1>12. ASSUME IgnoreResponse PROVE NobodyForgotten'
  <2> SUFFICES ASSUME NEW d \in Calls, call'[d].at = "waiting" PROVE InHand(d)'
    BY DEF NobodyForgotten, InHand, InQueue
  <2>0. call[d].at = "waiting" => InHand(d)
    BY DEF NobodyForgotten, InHand, InQueue
  <2>1. UNCHANGED <<commands, pending, call>> /\ loop # "reaping"
    BY <1>12 DEF IgnoreResponse, TakesFrame, actorVars
  <2> QED BY <2>0, <2>1 DEF InHand, InQueue
<1>13. ASSUME UnknownResponse PROVE NobodyForgotten'
  <2> SUFFICES ASSUME NEW d \in Calls, call'[d].at = "waiting" PROVE InHand(d)'
    BY DEF NobodyForgotten, InHand, InQueue
  <2>0. call[d].at = "waiting" => InHand(d)
    BY DEF NobodyForgotten, InHand, InQueue
  <2>1. UNCHANGED commands /\ loop # "reaping" /\ call' = Answered(CallsOf(pending), "protocol", NoId)
    BY <1>13 DEF UnknownResponse, TakesFrame, CloseConnection, FailPending
  <2>2. d \notin CallsOf(pending) /\ call[d].at = "waiting"
    BY <2>1, AnsweredWaitNoMore
  <2> QED BY <2>0, <2>1, <2>2 DEF InHand, InQueue
<1>14. ASSUME BadFrame PROVE NobodyForgotten'
  <2> SUFFICES ASSUME NEW d \in Calls, call'[d].at = "waiting" PROVE InHand(d)'
    BY DEF NobodyForgotten, InHand, InQueue
  <2>0. call[d].at = "waiting" => InHand(d)
    BY DEF NobodyForgotten, InHand, InQueue
  <2>1. UNCHANGED commands /\ loop # "reaping" /\ call' = Answered(CallsOf(pending), "protocol", NoId)
    BY <1>14 DEF BadFrame, TakesFrame, CloseConnection, FailPending
  <2>2. d \notin CallsOf(pending) /\ call[d].at = "waiting"
    BY <2>1, AnsweredWaitNoMore
  <2> QED BY <2>0, <2>1, <2>2 DEF InHand, InQueue
<1>15. ASSUME EndOfFrames PROVE NobodyForgotten'
  <2> SUFFICES ASSUME NEW d \in Calls, call'[d].at = "waiting" PROVE InHand(d)'
    BY DEF NobodyForgotten, InHand, InQueue
  <2>0. call[d].at = "waiting" => InHand(d)
    BY DEF NobodyForgotten, InHand, InQueue
  <2>1. UNCHANGED commands /\ loop # "reaping" /\ call' = Answered(CallsOf(pending), "closed", NoId)
    BY <1>15 DEF EndOfFrames, TakesFrame, CloseConnection, FailPending
  <2>2. d \notin CallsOf(pending) /\ call[d].at = "waiting"
    BY <2>1, AnsweredWaitNoMore
  <2> QED BY <2>0, <2>1, <2>2 DEF InHand, InQueue
<1>16. ASSUME Notification PROVE NobodyForgotten'
  <2> SUFFICES ASSUME NEW d \in Calls, call'[d].at = "waiting" PROVE InHand(d)'
    BY DEF NobodyForgotten, InHand, InQueue
  <2>0. call[d].at = "waiting" => InHand(d)
    BY DEF NobodyForgotten, InHand, InQueue
  <2>1. UNCHANGED commands /\ loop # "reaping"
    BY <1>16 DEF Notification, TakesFrame
  <2>2. CASE UNCHANGED <<call, pending>>
    BY <2>0, <2>1, <2>2 DEF InHand, InQueue
  <2>3. CASE FailPending("protocol")
    <3>1. d \notin CallsOf(pending) /\ call[d].at = "waiting"
      BY <2>3, AnsweredWaitNoMore DEF FailPending
    <3> QED BY <2>0, <2>1, <3>1 DEF InHand, InQueue
  <2> QED BY <1>16, <2>2, <2>3 DEF Notification
<1>17. ASSUME ToolNotification PROVE NobodyForgotten'
  <2> SUFFICES ASSUME NEW d \in Calls, call'[d].at = "waiting" PROVE InHand(d)'
    BY DEF NobodyForgotten, InHand, InQueue
  <2>0. call[d].at = "waiting" => InHand(d)
    BY DEF NobodyForgotten, InHand, InQueue
  <2>1. UNCHANGED <<commands, pending, call>> /\ loop # "reaping"
    BY <1>17 DEF ToolNotification, TakesFrame, actorVars
  <2> QED BY <2>0, <2>1 DEF InHand, InQueue
<1>18. ASSUME ServerRequest PROVE NobodyForgotten'
  <2> SUFFICES ASSUME NEW d \in Calls, call'[d].at = "waiting" PROVE InHand(d)'
    BY DEF NobodyForgotten, InHand, InQueue
  <2>0. call[d].at = "waiting" => InHand(d)
    BY DEF NobodyForgotten, InHand, InQueue
  <2>1. UNCHANGED commands /\ loop # "reaping"
    BY <1>18 DEF ServerRequest, TakesFrame
  <2>2. FailPending("io") \/ FailPending("violation")
    BY <1>18 DEF ServerRequest
  <2>3. d \notin CallsOf(pending) /\ call[d].at = "waiting"
    BY <2>2, AnsweredWaitNoMore DEF FailPending
  <2> QED BY <2>0, <2>1, <2>3 DEF InHand, InQueue
<1>19. ASSUME NEW r \in pending, Tick(r) PROVE NobodyForgotten'
  <2> SUFFICES ASSUME NEW d \in Calls, call'[d].at = "waiting" PROVE InHand(d)'
    BY DEF NobodyForgotten, InHand, InQueue
  <2>0. call[d].at = "waiting" => InHand(d)
    BY DEF NobodyForgotten, InHand, InQueue
  <2>1. UNCHANGED commands /\ loop # "reaping" /\ pending' = pending \ {r}
    BY <1>19 DEF Tick, RetireRequest, Reply
  <2>2. call' = Answered({r.call}, "timeout", NoId)
    BY <1>19 DEF Tick, RetireRequest, Reply
  <2>3. d # r.call /\ call[d].at = "waiting"
    BY <2>2, AnsweredWaitNoMore
  <2>4. d \in CallsOf(pending) => d \in CallsOf(pending)'
    BY <2>1, <2>3 DEF CallsOf
  <2> QED BY <2>0, <2>1, <2>3, <2>4 DEF InHand, InQueue
<1>20. ASSUME TakeShutdown PROVE NobodyForgotten'
  <2> SUFFICES ASSUME NEW d \in Calls, call'[d].at = "waiting" PROVE InHand(d)'
    BY DEF NobodyForgotten, InHand, InQueue
  <2>0. call[d].at = "waiting" => InHand(d)
    BY DEF NobodyForgotten, InHand, InQueue
  <2>1. UNCHANGED <<commands, pending, call>> /\ loop # "reaping"
    BY <1>20 DEF TakeShutdown, actorVars
  <2> QED BY <2>0, <2>1 DEF InHand, InQueue
<1>21. ASSUME Reap PROVE NobodyForgotten'
  <2> SUFFICES ASSUME NEW d \in Calls, call'[d].at = "waiting" PROVE InHand(d)'
    BY DEF NobodyForgotten, InHand, InQueue
  <2>0. call[d].at = "waiting" => InHand(d)
    BY DEF NobodyForgotten, InHand, InQueue
  <2>1. call' = Answered(Calls, "closed", NoId)
    BY <1>21 DEF Reap
  <2> QED BY <2>1, AnsweredWaitNoMore
<1>22. ASSUME Child PROVE NobodyForgotten'
  <2> SUFFICES ASSUME NEW d \in Calls, call'[d].at = "waiting" PROVE InHand(d)'
    BY DEF NobodyForgotten, InHand, InQueue
  <2>0. call[d].at = "waiting" => InHand(d)
    BY DEF NobodyForgotten, InHand, InQueue
  <2>1. UNCHANGED <<commands, pending, loop>> /\ call[d].at = "waiting"
    BY <1>22 DEF Child, Writes, ChildResponds, ChildNotifies, ChildUsesTool, ChildAsks,
                 ChildErrs, ChildExits, actorVars
  <2> QED BY <2>0, <2>1 DEF InHand, InQueue
<1> QED
  BY <1>1, <1>2, <1>3, <1>4, <1>5, <1>6, <1>7, <1>8, <1>9, <1>10, <1>11,
     <1>12, <1>13, <1>14, <1>15, <1>16, <1>17, <1>18, <1>19, <1>20, <1>21,
     <1>22 DEF Next, Client, Actor, RetireSome, TickSome, TakeCommand,
     TakeFrame

\* Whoever waits for an answer of the transport is queued, in flight or about to be
\* told that the connection is closed (run_connection, fail_pending).
THEOREM NobodyIsForgotten == Spec => []NobodyForgotten
<1>1. Init => NobodyForgotten
  BY DEF Init, Idle, NobodyForgotten
<1>2. TypeInv /\ NobodyForgotten /\ [Next]_vars => NobodyForgotten'
  <2> SUFFICES ASSUME TypeInv, NobodyForgotten, [Next]_vars PROVE NobodyForgotten'
    OBVIOUS
  <2>1. CASE Next
    BY <2>1, NobodyForgottenStep
  <2>2. CASE UNCHANGED vars
    BY <2>2 DEF vars, actorVars, NobodyForgotten, CallsOf
  <2> QED BY <2>1, <2>2
<1> QED BY <1>1, <1>2, TypeInvariant, PTL DEF Spec

-----------------------------------------------------------------------------
(* What becomes of a denied request of the server.  The connection is unusable *)
(* from then on; the session is told, or the loop ends; nobody is asked and    *)
(* nobody is answered with a result.                                           *)

\* Only ServerRequest makes the connection unusable; it goes on only if there is
\* room to tell the session.
LEMMA DenialStep ==
  ASSUME ActorTypeOK, DenialIsTold, Next
  PROVE  DenialIsTold'
<1> USE DEF ActorTypeOK, DenialIsTold
<1>1. ASSUME NEW c \in Calls, Ask(c) PROVE DenialIsTold'
  BY <1>1 DEF Ask, actorVars
<1>2. ASSUME NEW c \in Calls, Leave(c) PROVE DenialIsTold'
  BY <1>2 DEF Leave, actorVars
<1>3. ASSUME NextEvent PROVE DenialIsTold'
  BY <1>3 DEF NextEvent, actorVars
<1>4. ASSUME EventsEnd PROVE DenialIsTold'
  BY <1>4 DEF EventsEnd, actorVars
<1>5. ASSUME Shutdown PROVE DenialIsTold'
  BY <1>5 DEF Shutdown, actorVars
<1>6. ASSUME NEW r \in pending, RetireCancelled(r) PROVE DenialIsTold'
  BY <1>6 DEF RetireCancelled, RetireRequest
<1>7. ASSUME Select PROVE DenialIsTold'
  BY <1>7 DEF Select, actorVars
<1>8. ASSUME NEW c \in Calls, RefuseCommand(c) PROVE DenialIsTold'
  BY <1>8 DEF RefuseCommand, TakesCommand, Continue
<1>9. ASSUME NEW c \in Calls, SendRequest(c) PROVE DenialIsTold'
  BY <1>9 DEF SendRequest, TakesCommand, MayWrite, Continue, Break
<1>10. ASSUME NEW c \in Calls, SendNotice(c) PROVE DenialIsTold'
  BY <1>10 DEF SendNotice, TakesCommand, Continue, Break
<1>11. ASSUME NEW r \in pending, TakeResponse(r) PROVE DenialIsTold'
  BY <1>11 DEF TakeResponse, TakesFrame, Continue
<1>12. ASSUME IgnoreResponse PROVE DenialIsTold'
  BY <1>12 DEF IgnoreResponse, TakesFrame, Continue
<1>13. ASSUME UnknownResponse PROVE DenialIsTold'
  BY <1>13 DEF UnknownResponse, TakesFrame, CloseConnection, Break
<1>14. ASSUME BadFrame PROVE DenialIsTold'
  BY <1>14 DEF BadFrame, TakesFrame, CloseConnection, Break
<1>15. ASSUME EndOfFrames PROVE DenialIsTold'
  BY <1>15 DEF EndOfFrames, TakesFrame, CloseConnection, Break
<1>16. ASSUME Notification PROVE DenialIsTold'
  BY <1>16 DEF Notification, TakesFrame, Continue, Break
<1>17. ASSUME ToolNotification PROVE DenialIsTold'
  BY <1>17 DEF ToolNotification, TakesFrame, Continue
<1>18. ASSUME ServerRequest PROVE DenialIsTold'
  BY <1>18 DEF ServerRequest, TakesFrame, Continue, Break
<1>19. ASSUME NEW r \in pending, Tick(r) PROVE DenialIsTold'
  BY <1>19 DEF Tick, RetireRequest, Continue
<1>20. ASSUME TakeShutdown PROVE DenialIsTold'
  BY <1>20 DEF TakeShutdown, actorVars, Break
<1>21. ASSUME Reap PROVE DenialIsTold'
  BY <1>21 DEF Reap
<1>22. ASSUME Child PROVE DenialIsTold'
  BY <1>22 DEF Child, Writes, ChildResponds, ChildNotifies, ChildUsesTool,
     ChildAsks, ChildErrs, ChildExits, actorVars
<1> QED
  BY <1>1, <1>2, <1>3, <1>4, <1>5, <1>6, <1>7, <1>8, <1>9, <1>10, <1>11,
     <1>12, <1>13, <1>14, <1>15, <1>16, <1>17, <1>18, <1>19, <1>20, <1>21,
     <1>22 DEF Next, Client, Actor, RetireSome, TickSome, TakeCommand,
     TakeFrame

\* A session whose connection has become unusable is told before the actor goes on
\* (handle_server_request).
THEOREM DenialsAreTold == Spec => []DenialIsTold
<1>1. Init => DenialIsTold
  BY DEF Init, DenialIsTold
<1>2. TypeInv /\ DenialIsTold /\ [Next]_vars => DenialIsTold'
  <2> SUFFICES ASSUME TypeInv, DenialIsTold, [Next]_vars PROVE DenialIsTold'
    OBVIOUS
  <2>1. CASE Next
    BY <2>1, DenialStep DEF TypeInv, TypeOK
  <2>2. CASE UNCHANGED vars
    BY <2>2 DEF vars, actorVars, DenialIsTold
  <2> QED BY <2>1, <2>2
<1> QED BY <1>1, <1>2, TypeInvariant, PTL DEF Spec

\* Whoever waits has no answer yet.
WaitsUnanswered == \A c \in Calls : call[c].at = "waiting" => call[c].answer = "none"

\* A step that starts no wait, or starts one without an answer, keeps it so.
LEMMA AnsweredStaysSo ==
  ASSUME call \in [Calls -> CallType], WaitsUnanswered,
         NEW cs, NEW answer, NEW id, call' = Answered(cs, answer, id)
  PROVE  WaitsUnanswered'
BY DEF WaitsUnanswered, Answered, Ended

\* A call that waits for its answer has none yet, whatever step is taken.
LEMMA WaitsStep ==
  ASSUME ClientTypeOK, WaitsUnanswered, Next
  PROVE  WaitsUnanswered'
<1> USE DEF ClientTypeOK
<1>1. ASSUME NEW c \in Calls, Ask(c) PROVE WaitsUnanswered'
  BY <1>1 DEF Ask, Idle, Waiting, Ended, WaitsUnanswered
<1>2. ASSUME NEW c \in Calls, Leave(c) PROVE WaitsUnanswered'
  BY <1>2 DEF Leave, Ended, WaitsUnanswered
<1>3. ASSUME NextEvent PROVE WaitsUnanswered'
  BY <1>3 DEF NextEvent, WaitsUnanswered
<1>4. ASSUME EventsEnd PROVE WaitsUnanswered'
  BY <1>4 DEF EventsEnd, WaitsUnanswered
<1>5. ASSUME Shutdown PROVE WaitsUnanswered'
  BY <1>5 DEF Shutdown, WaitsUnanswered
<1>6. ASSUME NEW r \in pending, RetireCancelled(r) PROVE WaitsUnanswered'
  BY <1>6 DEF RetireCancelled, WaitsUnanswered
<1>7. ASSUME Select PROVE WaitsUnanswered'
  BY <1>7 DEF Select, WaitsUnanswered
<1>8. ASSUME NEW c \in Calls, RefuseCommand(c) PROVE WaitsUnanswered'
  BY <1>8, AnsweredStaysSo DEF RefuseCommand, Reply
<1>9. ASSUME NEW c \in Calls, SendRequest(c) PROVE WaitsUnanswered'
  BY <1>9, AnsweredStaysSo DEF SendRequest, Reply, WaitsUnanswered
<1>10. ASSUME NEW c \in Calls, SendNotice(c) PROVE WaitsUnanswered'
  BY <1>10, AnsweredStaysSo DEF SendNotice, Reply, WaitsUnanswered
<1>11. ASSUME NEW r \in pending, TakeResponse(r) PROVE WaitsUnanswered'
  BY <1>11, AnsweredStaysSo DEF TakeResponse
<1>12. ASSUME IgnoreResponse PROVE WaitsUnanswered'
  BY <1>12 DEF IgnoreResponse, WaitsUnanswered
<1>13. ASSUME UnknownResponse PROVE WaitsUnanswered'
  BY <1>13, AnsweredStaysSo DEF UnknownResponse, CloseConnection, FailPending
<1>14. ASSUME BadFrame PROVE WaitsUnanswered'
  BY <1>14, AnsweredStaysSo DEF BadFrame, CloseConnection, FailPending
<1>15. ASSUME EndOfFrames PROVE WaitsUnanswered'
  BY <1>15, AnsweredStaysSo DEF EndOfFrames, CloseConnection, FailPending
<1>16. ASSUME Notification PROVE WaitsUnanswered'
  BY <1>16, AnsweredStaysSo DEF Notification, FailPending, WaitsUnanswered
<1>17. ASSUME ToolNotification PROVE WaitsUnanswered'
  BY <1>17 DEF ToolNotification, WaitsUnanswered
<1>18. ASSUME ServerRequest PROVE WaitsUnanswered'
  BY <1>18, AnsweredStaysSo DEF ServerRequest, FailPending
<1>19. ASSUME NEW r \in pending, Tick(r) PROVE WaitsUnanswered'
  BY <1>19, AnsweredStaysSo DEF Tick, Reply
<1>20. ASSUME TakeShutdown PROVE WaitsUnanswered'
  BY <1>20 DEF TakeShutdown, WaitsUnanswered
<1>21. ASSUME Reap PROVE WaitsUnanswered'
  BY <1>21, AnsweredStaysSo DEF Reap
<1>22. ASSUME Child PROVE WaitsUnanswered'
  BY <1>22 DEF Child, Writes, ChildResponds, ChildNotifies, ChildUsesTool,
     ChildAsks, ChildErrs, ChildExits, WaitsUnanswered
<1> QED
  BY <1>1, <1>2, <1>3, <1>4, <1>5, <1>6, <1>7, <1>8, <1>9, <1>10, <1>11,
     <1>12, <1>13, <1>14, <1>15, <1>16, <1>17, <1>18, <1>19, <1>20, <1>21,
     <1>22 DEF Next, Client, Actor, RetireSome, TickSome, TakeCommand,
     TakeFrame

\* On an unusable connection nothing is sent and no result is given.
LEMMA UnusableStep ==
  ASSUME ClientTypeOK, WaitsUnanswered, unusable, Next
  PROVE  /\ owner' = owner
         /\ \A c \in Calls : call[c].at = "waiting" => call'[c].answer # "result"
<1> DEFINE Closed == /\ owner' = owner
                     /\ \A c \in Calls : call[c].at = "waiting" =>
                                              call'[c].answer # "result"
<1> USE DEF ClientTypeOK, WaitsUnanswered
<1>1. ASSUME NEW c \in Calls, Ask(c) PROVE Closed
  BY <1>1 DEF Ask, Idle, Waiting, Ended, actorVars
<1>2. ASSUME NEW c \in Calls, Leave(c) PROVE Closed
  BY <1>2 DEF Leave, Ended, actorVars
<1>3. ASSUME NextEvent PROVE Closed
  BY <1>3 DEF NextEvent, actorVars
<1>4. ASSUME EventsEnd PROVE Closed
  BY <1>4 DEF EventsEnd, actorVars
<1>5. ASSUME Shutdown PROVE Closed
  BY <1>5 DEF Shutdown, actorVars
<1>6. ASSUME NEW r \in pending, RetireCancelled(r) PROVE Closed
  BY <1>6 DEF RetireCancelled
<1>7. ASSUME Select PROVE Closed
  BY <1>7 DEF Select, actorVars
<1>8. ASSUME NEW c \in Calls, RefuseCommand(c) PROVE Closed
  BY <1>8 DEF RefuseCommand, TakesCommand, Reply, Answered, Ended
<1>9. ASSUME NEW c \in Calls, SendRequest(c) PROVE Closed
  BY <1>9 DEF SendRequest, MayWrite
<1>10. ASSUME NEW c \in Calls, SendNotice(c) PROVE Closed
  BY <1>10 DEF SendNotice
<1>11. ASSUME NEW r \in pending, TakeResponse(r) PROVE Closed
  BY <1>11 DEF TakeResponse
<1>12. ASSUME IgnoreResponse PROVE Closed
  BY <1>12 DEF IgnoreResponse, TakesFrame
<1>13. ASSUME UnknownResponse PROVE Closed
  BY <1>13 DEF UnknownResponse
<1>14. ASSUME BadFrame PROVE Closed
  BY <1>14 DEF BadFrame, TakesFrame, CloseConnection, FailPending, Answered, Ended
<1>15. ASSUME EndOfFrames PROVE Closed
  BY <1>15 DEF EndOfFrames, TakesFrame, CloseConnection, FailPending, Answered, Ended
<1>16. ASSUME Notification PROVE Closed
  BY <1>16 DEF Notification, TakesFrame
<1>17. ASSUME ToolNotification PROVE Closed
  BY <1>17 DEF ToolNotification, TakesFrame
<1>18. ASSUME ServerRequest PROVE Closed
  <2>1. owner' = owner
    BY <1>18 DEF ServerRequest, TakesFrame
  <2>2. PICK answer \in {"io", "violation"} :
          call' = Answered(CallsOf(pending), answer, NoId)
    BY <1>18 DEF ServerRequest, FailPending
  <2> QED BY <2>1, <2>2 DEF Answered, Ended
<1>19. ASSUME NEW r \in pending, Tick(r) PROVE Closed
  BY <1>19 DEF Tick, Reply, Answered, Ended
<1>20. ASSUME TakeShutdown PROVE Closed
  BY <1>20 DEF TakeShutdown, actorVars
<1>21. ASSUME Reap PROVE Closed
  BY <1>21 DEF Reap, Answered, Ended
<1>22. ASSUME Child PROVE Closed
  BY <1>22 DEF Child, Writes, ChildResponds, ChildNotifies, ChildUsesTool,
     ChildAsks, ChildErrs, ChildExits, actorVars
<1> QED
  BY <1>1, <1>2, <1>3, <1>4, <1>5, <1>6, <1>7, <1>8, <1>9, <1>10, <1>11,
     <1>12, <1>13, <1>14, <1>15, <1>16, <1>17, <1>18, <1>19, <1>20, <1>21,
     <1>22 DEF Next, Client, Actor, RetireSome, TickSome, TakeCommand,
     TakeFrame

\* A connection that was denied a request stays closed: no command is written and no
\* response is believed (run_connection).
THEOREM DenialIsForGood == Spec => FailsClosed
<1>1. Init => WaitsUnanswered
  BY DEF Init, Idle, WaitsUnanswered
<1>2. TypeInv /\ WaitsUnanswered /\ [Next]_vars => WaitsUnanswered'
  <2> SUFFICES ASSUME TypeInv, WaitsUnanswered, [Next]_vars PROVE WaitsUnanswered'
    OBVIOUS
  <2>1. CASE Next
    BY <2>1, WaitsStep DEF TypeInv, TypeOK
  <2>2. CASE UNCHANGED vars
    BY <2>2 DEF vars, WaitsUnanswered
  <2> QED BY <2>1, <2>2
<1>3. TypeInv /\ WaitsUnanswered /\ [Next]_vars =>
        [unusable => /\ owner' = owner
                     /\ \A c \in Calls : call[c].at = "waiting" =>
                                              call'[c].answer # "result"]_vars
  BY UnusableStep DEF TypeInv, TypeOK
<1> QED BY <1>1, <1>2, <1>3, TypeInvariant, PTL DEF Spec, FailsClosed

-----------------------------------------------------------------------------
(* Notifications reach the session in order and without gaps.             *)

\* A notification after the last one carries the next number.
LEMMA NumberedNext ==
  ASSUME NEW S, NEW s \in Seq(S), NEW e \in S, \A x \in S : x.number \in Nat,
         NEW kind, NEW first \in Nat, NEW last \in Nat, first <= last,
         Numbered(s, kind, first, last), e.kind = kind, e.number = last + 1
  PROVE  Numbered(Append(s, e), kind, first, last + 1)
<1> DEFINE t == Append(s, e)
           N == {k \in DOMAIN s : s[k].kind = kind}
           M == {k \in DOMAIN t : t[k].kind = kind}
           n == Len(s) + 1
<1>1. /\ n \in Nat /\ DOMAIN s = 1..Len(s) /\ DOMAIN t = 1..n /\ t[n] = e
      /\ \A k \in 1..Len(s) : t[k] = s[k] /\ s[k] \in S
  OBVIOUS
<1>2. /\ \A j, k \in N : j < k => s[j].number < s[k].number
      /\ {s[k].number : k \in N} = (first + 1)..last
  BY DEF Numbered
<1>3. M = N \cup {n} /\ n \notin N /\ \A k \in N : k < n /\ t[k] = s[k]
  BY <1>1
<1>4. \A k \in N : s[k].number \in Nat /\ s[k].number <= last
  BY <1>1, <1>2
<1> HIDE DEF t, N, M, n
<1>5. ASSUME NEW j \in M, NEW k \in M, j < k PROVE t[j].number < t[k].number
  <2>1. j \in N
    <3>1. CASE j = n
      <4>1. k \in N \/ k = n
        BY <1>3
      <4> QED BY <1>1, <1>3, <1>5, <3>1, <4>1 DEF N
    <3> QED BY <1>3, <3>1
  <2>2. CASE k \in N
    BY <1>2, <1>3, <1>5, <2>1, <2>2
  <2>3. CASE k = n
    BY <1>1, <1>3, <1>4, <2>1, <2>3
  <2> QED BY <1>3, <2>2, <2>3
<1>6. {t[k].number : k \in M} = {s[k].number : k \in N} \cup {last + 1}
  BY <1>1, <1>3
<1>7. (first + 1)..(last + 1) = ((first + 1)..last) \cup {last + 1}
  OBVIOUS
<1>8. {t[k].number : k \in M} = (first + 1)..(last + 1)
  BY <1>2, <1>6, <1>7
<1> QED BY <1>5, <1>8 DEF Numbered, M, t

\* What is no notification changes nothing.
LEMMA NumberedOther ==
  ASSUME NEW S, NEW s \in Seq(S), NEW e \in S,
         NEW kind, NEW first, NEW last,
         Numbered(s, kind, first, last), e.kind # kind
  PROVE  Numbered(Append(s, e), kind, first, last)
<1> DEFINE t == Append(s, e)
           N == {k \in DOMAIN s : s[k].kind = kind}
           M == {k \in DOMAIN t : t[k].kind = kind}
<1>1. /\ Len(s) \in Nat /\ DOMAIN s = 1..Len(s) /\ DOMAIN t = 1..(Len(s) + 1)
      /\ t[Len(s) + 1] = e /\ \A k \in 1..Len(s) : t[k] = s[k]
  OBVIOUS
<1>2. /\ \A j, k \in N : j < k => s[j].number < s[k].number
      /\ {s[k].number : k \in N} = (first + 1)..last
  BY DEF Numbered
<1>3. M = N /\ \A k \in N : t[k] = s[k]
  BY <1>1
<1> HIDE DEF t, N, M
<1>4. {t[k].number : k \in M} = {s[k].number : k \in N}
  BY <1>3
<1>5. \A j, k \in M : j < k => t[j].number < t[k].number
  BY <1>2, <1>3
<1> QED BY <1>2, <1>4, <1>5 DEF Numbered, M, t

\* The first notification carries the first number, and the others follow it.
LEMMA NumberedHead ==
  ASSUME NEW S, NEW s \in Seq(S), s # <<>>, \A x \in S : x.number \in Nat,
         NEW kind, NEW first \in Nat, NEW last \in Nat,
         Numbered(s, kind, first, last), Head(s).kind = kind
  PROVE  /\ Head(s).number = first + 1 /\ first < last
         /\ Numbered(Tail(s), kind, first + 1, last)
<1> DEFINE t == Tail(s)
           N == {k \in DOMAIN s : s[k].kind = kind}
           M == {k \in DOMAIN t : t[k].kind = kind}
           n == Len(s)
<1>1. /\ n \in Nat /\ n >= 1 /\ DOMAIN s = 1..n /\ DOMAIN t = 1..(n - 1)
      /\ Head(s) = s[1] /\ \A k \in 1..(n - 1) : t[k] = s[k + 1]
      /\ \A k \in 1..n : s[k] \in S
  OBVIOUS
<1>2. /\ \A j, k \in N : j < k => s[j].number < s[k].number
      /\ {s[k].number : k \in N} = (first + 1)..last
  BY DEF Numbered
<1>3. /\ 1 \in N /\ \A k \in N : k \in Nat /\ k >= 1 /\ s[k].number \in Nat
      /\ \A k : k \in M <=> k \in 1..(n - 1) /\ k + 1 \in N
      /\ \A k \in M : k \in Nat /\ k + 1 \in N /\ t[k] = s[k + 1]
      /\ \A k \in N : k = 1 \/ k - 1 \in M
  BY <1>1
<1>4. s[1] = Head(s)
  BY <1>1
<1> HIDE DEF t, N, M, n
<1>5. s[1].number \in (first + 1)..last
  BY <1>2, <1>3
<1>6. first < last /\ first + 1 \in (first + 1)..last
  BY <1>5
<1>7. PICK k \in N : s[k].number = first + 1
  BY <1>2, <1>6
<1>8. s[1].number = first + 1
  <2>1. CASE k = 1
    BY <1>7, <2>1
  <2>2. CASE k # 1
    <3>1. 1 \in N /\ k \in N /\ 1 < k
      BY <1>3, <2>2
    <3>2. s[1].number < first + 1
      BY <1>2, <1>7, <3>1
    <3> QED BY <1>5, <3>2
  <2> QED BY <2>1, <2>2
<1>9. ASSUME NEW j \in M, NEW l \in M, j < l PROVE t[j].number < t[l].number
  <2>1. j + 1 \in N /\ l + 1 \in N /\ j + 1 < l + 1
    BY <1>3, <1>9
  <2> QED BY <1>2, <1>3, <2>1
<1>10. \A j \in M : t[j].number \in (first + 2)..last
  <2> TAKE j \in M
  <2>1. j + 1 \in N /\ 1 < j + 1 /\ t[j] = s[j + 1]
    BY <1>1, <1>3
  <2>2. s[1].number < s[j + 1].number /\ s[j + 1].number \in (first + 1)..last
    BY <1>2, <1>3, <2>1
  <2> QED BY <1>8, <2>1, <2>2
<1>11. \A m \in (first + 2)..last : \E j \in M : t[j].number = m
  <2> TAKE m \in (first + 2)..last
  <2>1. m \in (first + 1)..last /\ m # first + 1
    OBVIOUS
  <2>2. PICK l \in N : s[l].number = m
    BY <1>2, <2>1
  <2>3. l # 1
    BY <1>8, <2>1, <2>2
  <2>4. l - 1 \in M /\ t[l - 1] = s[l]
    BY <1>3, <2>3
  <2> QED BY <2>2, <2>4
<1>12. {t[j].number : j \in M} = (first + 2)..last
  BY <1>10, <1>11
<1>13. (first + 1) + 1 = first + 2
  OBVIOUS
<1>14. {t[j].number : j \in M} = ((first + 1) + 1)..last
  BY <1>12, <1>13
<1>15. Numbered(t, kind, first + 1, last)
  BY <1>9, <1>14 DEF Numbered, M
<1> QED BY <1>4, <1>6, <1>8, <1>15 DEF t

\* Taking what is no notification changes nothing.
LEMMA NumberedTail ==
  ASSUME NEW S, NEW s \in Seq(S), s # <<>>, NEW kind, NEW first, NEW last,
         Numbered(s, kind, first, last), Head(s).kind # kind
  PROVE  Numbered(Tail(s), kind, first, last)
<1> DEFINE t == Tail(s)
           N == {k \in DOMAIN s : s[k].kind = kind}
           M == {k \in DOMAIN t : t[k].kind = kind}
           n == Len(s)
<1>1. /\ n \in Nat /\ n >= 1 /\ DOMAIN s = 1..n /\ DOMAIN t = 1..(n - 1)
      /\ Head(s) = s[1] /\ \A k \in 1..(n - 1) : t[k] = s[k + 1]
  OBVIOUS
<1>2. /\ \A j, k \in N : j < k => s[j].number < s[k].number
      /\ {s[k].number : k \in N} = (first + 1)..last
  BY DEF Numbered
<1>3. /\ \A k \in M : k \in Nat /\ k + 1 \in N /\ t[k] = s[k + 1]
      /\ \A k \in N : k \in Nat /\ k - 1 \in M
  BY <1>1
<1> HIDE DEF t, N, M, n
<1>4. ASSUME NEW j \in M, NEW l \in M, j < l PROVE t[j].number < t[l].number
  <2>1. j + 1 \in N /\ l + 1 \in N /\ j + 1 < l + 1
    BY <1>3, <1>4
  <2> QED BY <1>2, <1>3, <2>1
<1>5. {t[j].number : j \in M} = {s[k].number : k \in N}
  <2>1. \A j \in M : \E k \in N : s[k].number = t[j].number
    BY <1>3
  <2>2. \A k \in N : \E j \in M : t[j].number = s[k].number
    <3> TAKE k \in N
    <3>1. k - 1 \in M /\ (k - 1) + 1 = k
      BY <1>3
    <3>2. t[k - 1] = s[k]
      BY <1>3, <3>1
    <3> QED BY <3>1, <3>2
  <2> QED BY <2>1, <2>2
<1> QED BY <1>2, <1>4, <1>5 DEF Numbered, M, t

\* The connection is used: what the child sends can still reach the session.
Used == loop \in {"top", "select"} /\ ~unusable /\ handle # "dropped"

\* A step that neither sends, delivers nor reads a notification, and does not bring the
\* connection back into use, makes no gap.
LEMMA QueuesKept ==
  ASSUME NoGaps, ChannelTypeOK, seen' = seen, notes' = notes, Used' => Used,
         \/ events' = events
         \/ \E e \in EventType : e.kind # "Notification" /\ events' = Append(events, e),
         \/ incoming' = incoming
         \/ ~Used'
         \/ /\ incoming # <<>> /\ Head(incoming).kind # "notification"
            /\ incoming' = Tail(incoming)
         \/ \E f \in FrameType : f.kind # "notification" /\ incoming' = Append(incoming, f)
  PROVE  NoGaps'
<1>1. PICK last \in seen..notes :
        /\ Numbered(events, "Notification", seen, last)
        /\ Used => Numbered(incoming, "notification", last, notes)
  BY DEF NoGaps, Used
<1>2. events \in Seq(EventType) /\ incoming \in Seq(FrameType)
  BY DEF ChannelTypeOK
<1>3. Numbered(events', "Notification", seen, last)
  BY <1>1, <1>2, NumberedOther
<1>4. ASSUME Used' PROVE Numbered(incoming', "notification", last, notes)
  <2>1. Numbered(incoming, "notification", last, notes)
    BY <1>1, <1>4
  <2>2. CASE incoming' = incoming
    BY <2>1, <2>2
  <2>3. CASE /\ incoming # <<>> /\ Head(incoming).kind # "notification"
             /\ incoming' = Tail(incoming)
    BY <1>2, <2>1, <2>3, NumberedTail
  <2>4. CASE \E f \in FrameType : f.kind # "notification" /\ incoming' = Append(incoming, f)
    BY <1>2, <2>1, <2>4, NumberedOther
  <2> QED BY <1>4, <2>2, <2>3, <2>4
<1> QED BY <1>1, <1>3, <1>4 DEF NoGaps, Used

\* No step makes a gap.
LEMMA NoGapsStep ==
  ASSUME TypeInv, NoGaps, Next
  PROVE  NoGaps'
<1> USE DEF Used
<1>0. ChannelTypeOK /\ seen \in Nat /\ notes \in Nat
      /\ events \in Seq(EventType) /\ incoming \in Seq(FrameType)
      /\ (\A x \in EventType : x.number \in Nat) /\ \A x \in FrameType : x.number \in Nat
  BY DEF TypeInv, TypeOK, ChannelTypeOK, ClientTypeOK, EventType, FrameType
<1>e. \A kind \in {"SafetyViolation", "ConnectionClosed"} :
        SendEvent(Event(kind)) =>
          \/ events' = events
          \/ \E e \in EventType : e.kind # "Notification" /\ events' = Append(events, e)
  <2> TAKE kind \in {"SafetyViolation", "ConnectionClosed"}
  <2>1. Event(kind) \in EventType /\ Event(kind).kind # "Notification"
    BY DEF Event, EventType
  <2> QED BY <2>1 DEF SendEvent
<1>1. ASSUME NEW c \in Calls, Ask(c) PROVE NoGaps'
  BY <1>0, <1>1, QueuesKept DEF Ask, actorVars, childVars
<1>2. ASSUME NEW c \in Calls, Leave(c) PROVE NoGaps'
  BY <1>0, <1>2, QueuesKept DEF Leave, actorVars, childVars
<1>3. ASSUME NextEvent PROVE NoGaps'
  <2>1. PICK last \in seen..notes :
          /\ Numbered(events, "Notification", seen, last)
          /\ Used => Numbered(incoming, "notification", last, notes)
    BY DEF NoGaps
  <2>2. /\ events # <<>> /\ events' = Tail(events) /\ handle = "held"
        /\ UNCHANGED <<incoming, loop, unusable, notes>>
    BY <1>3 DEF NextEvent, actorVars, childVars
  <2>3. CASE Head(events).kind = "Notification"
    <3>1. seen' = seen + 1
      BY <1>3, <2>3 DEF NextEvent
    <3>2. last \in Nat /\ seen < last
          /\ Numbered(Tail(events), "Notification", seen + 1, last)
      BY <1>0, <2>1, <2>2, <2>3, NumberedHead
    <3>3. last \in (seen + 1)..notes
      BY <1>0, <2>1, <3>2
    <3> QED BY <2>1, <2>2, <3>1, <3>2, <3>3 DEF NoGaps
  <2>4. CASE Head(events).kind # "Notification"
    <3>1. seen' = seen
      BY <1>3, <2>4 DEF NextEvent
    <3>2. Numbered(Tail(events), "Notification", seen, last)
      BY <1>0, <2>1, <2>2, <2>4, NumberedTail
    <3> QED BY <2>1, <2>2, <3>1, <3>2 DEF NoGaps
  <2> QED BY <2>3, <2>4
<1>4. ASSUME EventsEnd PROVE NoGaps'
  BY <1>0, <1>4, QueuesKept DEF EventsEnd, actorVars, childVars
<1>5. ASSUME Shutdown PROVE NoGaps'
  BY <1>0, <1>5, QueuesKept DEF Shutdown, actorVars, childVars
<1>6. ASSUME NEW r \in pending, RetireCancelled(r) PROVE NoGaps'
  BY <1>0, <1>6, QueuesKept DEF RetireCancelled, RetireRequest, childVars
<1>7. ASSUME Select PROVE NoGaps'
  BY <1>0, <1>7, QueuesKept DEF Select, actorVars, childVars
<1>8. ASSUME NEW c \in Calls, RefuseCommand(c) PROVE NoGaps'
  BY <1>0, <1>8, QueuesKept DEF RefuseCommand, TakesCommand, Continue
<1>9. ASSUME NEW c \in Calls, SendRequest(c) PROVE NoGaps'
  BY <1>0, <1>9, QueuesKept DEF SendRequest, TakesCommand, Continue, Break
<1>10. ASSUME NEW c \in Calls, SendNotice(c) PROVE NoGaps'
  BY <1>0, <1>10, QueuesKept DEF SendNotice, TakesCommand, Continue, Break
<1>11. ASSUME NEW r \in pending, TakeResponse(r) PROVE NoGaps'
  BY <1>0, <1>11, QueuesKept DEF TakeResponse, TakesFrame, childVars, Continue
<1>12. ASSUME IgnoreResponse PROVE NoGaps'
  BY <1>0, <1>12, QueuesKept DEF IgnoreResponse, TakesFrame, childVars, Continue
<1>13. ASSUME UnknownResponse PROVE NoGaps'
  BY <1>0, <1>e, <1>13, QueuesKept
     DEF UnknownResponse, TakesFrame, CloseConnection, childVars, Break
<1>14. ASSUME BadFrame PROVE NoGaps'
  BY <1>0, <1>e, <1>14, QueuesKept
     DEF BadFrame, TakesFrame, CloseConnection, childVars, Break
<1>15. ASSUME EndOfFrames PROVE NoGaps'
  BY <1>0, <1>e, <1>15, QueuesKept
     DEF EndOfFrames, TakesFrame, CloseConnection, childVars, Break
<1>16. ASSUME Notification PROVE NoGaps'
  <2> DEFINE e == Note(Head(incoming).number)
  <2>1. /\ incoming # <<>> /\ Head(incoming).kind = "notification"
        /\ incoming' = Tail(incoming) /\ loop = "select"
        /\ UNCHANGED <<unusable, handle, seen, notes>>
    BY <1>16 DEF Notification, TakesFrame, childVars
  <2>2. PICK last \in seen..notes :
          /\ Numbered(events, "Notification", seen, last)
          /\ Used => Numbered(incoming, "notification", last, notes)
    BY DEF NoGaps
  <2>3. last \in Nat /\ seen <= last
    BY <1>0, <2>2
  <2>4. CASE ~unusable /\ HasRoom
    <3>1. events' = Append(events, e)
      BY <1>16, <2>4 DEF Notification, SendEvent
    <3>2. Numbered(incoming, "notification", last, notes)
      BY <2>1, <2>2, <2>4 DEF HasRoom
    <3>3. /\ Head(incoming).number = last + 1 /\ last < notes
          /\ Numbered(incoming', "notification", last + 1, notes)
      BY <1>0, <2>1, <2>3, <3>2, NumberedHead
    <3>4. e \in EventType /\ e.kind = "Notification" /\ e.number = last + 1
      BY <2>3, <3>3 DEF Note, EventType
    <3>5. Numbered(events', "Notification", seen, last + 1)
      BY <1>0, <2>2, <2>3, <3>1, <3>4, NumberedNext
    <3>6. last + 1 \in seen..notes
      BY <1>0, <2>3, <3>3
    <3> QED BY <2>1, <3>3, <3>5, <3>6 DEF NoGaps
  <2>5. CASE unusable \/ ~HasRoom
    <3>1. events' = events /\ ~Used'
      BY <1>16, <2>1, <2>5 DEF Notification, SendEvent, Break
    <3> QED BY <2>1, <2>2, <3>1 DEF NoGaps
  <2> QED BY <2>4, <2>5
<1>17. ASSUME ToolNotification PROVE NoGaps'
  BY <1>0, <1>17, QueuesKept DEF ToolNotification, TakesFrame, childVars, Continue
<1>18. ASSUME ServerRequest PROVE NoGaps'
  BY <1>0, <1>e, <1>18, QueuesKept
     DEF ServerRequest, TakesFrame, childVars, Continue, Break
<1>19. ASSUME NEW r \in pending, Tick(r) PROVE NoGaps'
  BY <1>0, <1>19, QueuesKept DEF Tick, RetireRequest, childVars, Continue
<1>20. ASSUME TakeShutdown PROVE NoGaps'
  BY <1>0, <1>20, QueuesKept DEF TakeShutdown, actorVars, childVars, Break
<1>21. ASSUME Reap PROVE NoGaps'
  BY <1>0, <1>21, QueuesKept DEF Reap, childVars
<1>22. ASSUME Child PROVE NoGaps'
  <2>1. CASE ChildNotifies
    <3>1. /\ incoming' = Append(incoming, Frame("notification", notes + 1))
          /\ notes' = notes + 1
          /\ UNCHANGED <<events, seen, loop, unusable, handle>>
      BY <2>1 DEF ChildNotifies, Writes, actorVars
    <3>2. PICK last \in seen..notes :
            /\ Numbered(events, "Notification", seen, last)
            /\ Used => Numbered(incoming, "notification", last, notes)
      BY DEF NoGaps
    <3>3. last \in Nat /\ last <= notes /\ last \in seen..(notes + 1)
      BY <1>0, <3>2
    <3>4. /\ Frame("notification", notes + 1) \in FrameType
          /\ Frame("notification", notes + 1).kind = "notification"
          /\ Frame("notification", notes + 1).number = notes + 1
      BY <1>0 DEF Frame, FrameType
    <3>5. Used' => Numbered(incoming', "notification", last, notes + 1)
      BY <1>0, <3>1, <3>2, <3>3, <3>4, NumberedNext
    <3> QED BY <3>1, <3>2, <3>3, <3>5 DEF NoGaps
  <2>2. CASE ~ChildNotifies
    <3>1. PICK kind \in {"response", "tool", "request", "bad", "eof"}, i \in Nat :
            Writes(Frame(kind, i))
      BY <1>22, <2>2, TransportAssumption
         DEF Child, ChildResponds, ChildUsesTool, ChildAsks, ChildErrs, ChildExits, Ids, NoId
    <3>2. Frame(kind, i) \in FrameType /\ Frame(kind, i).kind # "notification"
      BY DEF Frame, FrameType
    <3>3. notes' = notes
      BY <1>22, <2>2 DEF Child, ChildResponds, ChildUsesTool, ChildAsks, ChildErrs,
         ChildExits, childVars
    <3> QED BY <1>0, <3>1, <3>2, <3>3, QueuesKept DEF Writes, actorVars
  <2> QED BY <2>1, <2>2
<1> QED
  BY <1>1, <1>2, <1>3, <1>4, <1>5, <1>6, <1>7, <1>8, <1>9, <1>10, <1>11,
     <1>12, <1>13, <1>14, <1>15, <1>16, <1>17, <1>18, <1>19, <1>20, <1>21,
     <1>22 DEF Next, Client, Actor, RetireSome, TickSome, TakeCommand,
     TakeFrame

\* The notifications the session reads have no gaps, whatever the capacities, and as
\* long as the connection is used every one the child has sent is read, queued or on
\* its way (send_event, run_connection).
THEOREM NotificationsHaveNoGaps == Spec => []NoGaps
<1>1. Init => NoGaps
  <2> SUFFICES ASSUME Init PROVE NoGaps
    OBVIOUS
  <2>1. 0 \in 0..0 /\ Numbered(<<>>, "Notification", 0, 0)
        /\ Numbered(<<>>, "notification", 0, 0)
    BY DEF Numbered
  <2> QED BY <2>1 DEF Init, NoGaps
<1>2. TypeInv /\ NoGaps /\ [Next]_vars => NoGaps'
  <2> SUFFICES ASSUME TypeInv, NoGaps, [Next]_vars PROVE NoGaps'
    OBVIOUS
  <2>1. CASE Next
    BY <2>1, NoGapsStep
  <2>2. CASE UNCHANGED vars
    BY <2>2 DEF vars, actorVars, childVars, NoGaps
  <2> QED BY <2>1, <2>2
<1> QED BY <1>1, <1>2, TypeInvariant, PTL DEF Spec

-----------------------------------------------------------------------------
(* A late response is recognised.                                          *)

Responses == {k \in DOMAIN incoming : incoming[k].kind = "response"}

\* An id is asked for once, and a child that keeps to the protocol answers it once.
AnsweredOnce ==
  /\ \A i \in heard : i < nextId
  /\ \A k \in Responses : incoming[k].number < nextId /\ incoming[k].number \notin heard
  /\ \A j, k \in Responses : incoming[j].number = incoming[k].number => j = k

Known(i) == i \in IdsOf(pending) \cup retired.ids

\* Nothing was forgotten yet: whatever the child still owes or has sent is recognised.
StillKnown ==
  loop \in {"top", "select"} /\ ~unusable /\ retirements <= RetiredCapacity =>
    /\ \A i \in heard : Known(i)
    /\ \A k \in Responses : Known(incoming[k].number)

\* What makes LateResponsesTolerated inductive.
LateInv ==
  /\ Len(retired.order) <= retirements
  /\ "protocol" \notin ChildFaults => AnsweredOnce /\ StillKnown
  /\ LateResponsesTolerated

Serving == loop \in {"top", "select"} /\ ~unusable

FirstIs(i) ==
  incoming # <<>> /\ Head(incoming).kind = "response" /\ i = Head(incoming).number

\* A step of the actor or of a caller that asks nothing of the child, gives no request up
\* and forgets no id but the one answered by the frame it takes.
LEMMA LateKept ==
  ASSUME LateInv, ChannelTypeOK, UNCHANGED <<heard, nextId, retirements>>,
         retired'.order = retired.order,
         ended' = ended \/ ended' # "response",
         \/ incoming' = incoming /\ (Serving' => \A i : Known(i) => Known(i)')
         \/ incoming' = <<>> /\ ~Serving'
         \/ /\ incoming # <<>> /\ incoming' = Tail(incoming)
            /\ Serving' => \A i : Known(i) => Known(i)' \/ FirstIs(i),
         Serving' => Serving
  PROVE  LateInv'
<1>1. incoming \in Seq(FrameType)
  BY DEF ChannelTypeOK
<1>2. (Len(retired.order) <= retirements)'
  BY DEF LateInv
<1>3. LateResponsesTolerated'
  BY DEF LateInv, LateResponsesTolerated
<1>4. ASSUME "protocol" \notin ChildFaults PROVE AnsweredOnce' /\ StillKnown'
  <2>1. AnsweredOnce /\ StillKnown
    BY <1>4 DEF LateInv
  <2>2. CASE incoming' = incoming
    <3>1. Responses' = Responses
      BY <2>2 DEF Responses
    <3>2. AnsweredOnce'
      BY <2>1, <2>2, <3>1 DEF AnsweredOnce
    <3>3. CASE incoming = <<>> /\ ~Serving'
      BY <3>2, <3>3 DEF StillKnown, Serving
    <3>4. CASE Serving' => \A i : Known(i) => Known(i)'
      BY <2>1, <2>2, <3>1, <3>2, <3>4 DEF StillKnown, Serving
    <3>5. CASE /\ incoming # <<>> /\ incoming' = Tail(incoming)
      BY <1>1, <2>2, <3>5
    <3> QED BY <2>2, <3>3, <3>4, <3>5
  <2>3. CASE incoming' = <<>> /\ ~Serving'
    <3>1. Responses' = {}
      BY <2>3 DEF Responses
    <3> QED BY <2>1, <2>3, <3>1 DEF AnsweredOnce, StillKnown, Serving
  <2>4. CASE /\ incoming # <<>> /\ incoming' = Tail(incoming)
             /\ Serving' => \A i : Known(i) => Known(i)' \/ FirstIs(i)
    <3>1. \A k \in Responses' : /\ k \in Nat /\ k + 1 \in Responses /\ k + 1 # 1
                                /\ incoming'[k] = incoming[k + 1]
      BY <1>1, <2>4 DEF Responses
    <3>2. AnsweredOnce'
      <4>1. \A i \in heard' : i < nextId'
        BY <2>1 DEF AnsweredOnce
      <4>2. \A k \in Responses' : /\ incoming'[k].number < nextId'
                                  /\ incoming'[k].number \notin heard'
        BY <2>1, <3>1 DEF AnsweredOnce
      <4>3. ASSUME NEW j \in Responses', NEW k \in Responses',
                   incoming'[j].number = incoming'[k].number
            PROVE  j = k
        <5>1. j + 1 \in Responses /\ k + 1 \in Responses /\ j \in Nat /\ k \in Nat
              /\ incoming[j + 1].number = incoming[k + 1].number
          BY <3>1, <4>3
        <5>2. j + 1 = k + 1
          BY <2>1, <5>1 DEF AnsweredOnce
        <5> QED BY <5>1, <5>2
      <4> QED BY <4>1, <4>2, <4>3 DEF AnsweredOnce
    <3>3. FirstIs(Head(incoming).number) =>
            1 \in Responses /\ incoming[1].number = Head(incoming).number
      BY <1>1, <2>4 DEF FirstIs, Responses
    <3>4. \A i \in heard : ~FirstIs(i)
      BY <2>1, <3>3 DEF AnsweredOnce, FirstIs
    <3>5. \A k \in Responses' : ~FirstIs(incoming'[k].number)
      BY <2>1, <3>1, <3>3 DEF AnsweredOnce, FirstIs
    <3>6. StillKnown'
      BY <2>1, <2>4, <3>1, <3>4, <3>5 DEF StillKnown, Serving
    <3> QED BY <3>2, <3>6
  <2> QED BY <2>2, <2>3, <2>4
<1> QED BY <1>2, <1>3, <1>4 DEF LateInv

\* An id that is retired is remembered, and pushes another out only when more were
\* retired than are remembered.
LEMMA RetiredIsKnown ==
  ASSUME LateInv, TypeInv, NEW r \in pending, RetireRequest(r),
         UNCHANGED <<heard, nextId, incoming, unusable, ended>>,
         loop' \in {"top", "select"}, loop \in {"top", "select"}
  PROVE  LateInv'
<1>1. /\ pending' = pending \ {r} /\ retirements' = retirements + 1
      /\ retired' = Retire(retired, r.id)
  BY DEF RetireRequest
<1>2. /\ retirements \in Nat /\ RetiredCapacity \in Nat
      /\ retired.order \in Seq(Ids) /\ r.id \in Ids /\ Len(retired.order) <= retirements
  BY TransportAssumption DEF TypeInv, TypeOK, RetiredTypeOK, TableTypeOK, LateInv
<1> DEFINE order == Append(retired.order, r.id)
           full == Len(order) > RetiredCapacity
<1>3. /\ order \in Seq(Ids) /\ Len(order) = Len(retired.order) + 1 /\ order # <<>>
      /\ Len(order) \in Nat
  BY <1>2
<1>4. Tail(order) \in Seq(Ids) /\ Len(Tail(order)) = Len(order) - 1
  BY <1>3
<1>5. retired' = [ids |-> (retired.ids \cup {r.id}) \ (IF full THEN {Head(order)} ELSE {}),
                  order |-> IF full THEN Tail(order) ELSE order]
  BY <1>1 DEF Retire
<1> HIDE DEF order
<1>6. Len(retired'.order) <= retirements'
  <2>1. retired'.order = IF full THEN Tail(order) ELSE order
    BY <1>5
  <2> QED BY <1>1, <1>2, <1>3, <1>4, <2>1
<1>7. LateResponsesTolerated'
  BY <1>1, <1>2 DEF LateInv, LateResponsesTolerated
<1>8. ASSUME "protocol" \notin ChildFaults PROVE AnsweredOnce' /\ StillKnown'
  <2>1. AnsweredOnce /\ StillKnown
    BY <1>8 DEF LateInv
  <2>2. Responses' = Responses
    BY DEF Responses
  <2>3. AnsweredOnce'
    BY <2>1, <2>2 DEF AnsweredOnce
  <2>4. CASE full
    <3>1. retirements' > RetiredCapacity
      BY <1>1, <1>2, <1>3, <2>4
    <3> QED BY <1>1, <1>2, <2>3, <3>1 DEF StillKnown
  <2>5. CASE ~full
    <3>1. retired'.ids = retired.ids \cup {r.id}
      BY <1>5, <2>5
    <3>2. \A i : Known(i) => Known(i)'
      BY <1>1, <3>1 DEF Known, IdsOf
    <3>3. retirements' <= RetiredCapacity => retirements <= RetiredCapacity
      BY <1>1, <1>2
    <3> QED BY <2>1, <2>2, <2>3, <3>2, <3>3 DEF StillKnown
  <2> QED BY <2>4, <2>5
<1> QED BY <1>6, <1>7, <1>8 DEF LateInv

\* No step loses track of what the child still owes.
LEMMA LateStep ==
  ASSUME TypeInv, LateInv, Next
  PROVE  LateInv'
<1> USE DEF Serving
<1>0. ChannelTypeOK /\ incoming \in Seq(FrameType) /\ nextId \in Nat /\ heard \subseteq Nat
  BY TransportAssumption DEF TypeInv, TypeOK, ChannelTypeOK, TableTypeOK, Ids
<1>1. ASSUME NEW c \in Calls, Ask(c) PROVE LateInv'
  BY <1>0, <1>1, LateKept DEF Ask, actorVars, childVars, Known
<1>2. ASSUME NEW c \in Calls, Leave(c) PROVE LateInv'
  BY <1>0, <1>2, LateKept DEF Leave, actorVars, childVars, Known
<1>3. ASSUME NextEvent PROVE LateInv'
  BY <1>0, <1>3, LateKept DEF NextEvent, actorVars, childVars, Known
<1>4. ASSUME EventsEnd PROVE LateInv'
  BY <1>0, <1>4, LateKept DEF EventsEnd, actorVars, childVars, Known
<1>5. ASSUME Shutdown PROVE LateInv'
  BY <1>0, <1>5, LateKept DEF Shutdown, actorVars, childVars, Known
<1>6. ASSUME NEW r \in pending, RetireCancelled(r) PROVE LateInv'
  BY <1>6, RetiredIsKnown DEF RetireCancelled, childVars
<1>7. ASSUME Select PROVE LateInv'
  BY <1>0, <1>7, LateKept DEF Select, actorVars, childVars, Known
<1>8. ASSUME NEW c \in Calls, RefuseCommand(c) PROVE LateInv'
  BY <1>0, <1>8, LateKept DEF RefuseCommand, TakesCommand, Continue, Known
<1>9. ASSUME NEW c \in Calls, SendRequest(c) PROVE LateInv'
  <2>1. /\ nextId' = nextId + 1 /\ loop = "select" /\ ~unusable
        /\ UNCHANGED <<incoming, retired, retirements, unusable>>
    BY <1>9 DEF SendRequest, TakesCommand, NextId, MayWrite
  <2>2. ended' = ended \/ ended' # "response"
    BY <1>9 DEF SendRequest, Continue, Break
  <2>3. \/ loop' = "reaping" /\ heard' = heard
        \/ heard' = heard /\ pending' = pending
        \/ heard' = heard \cup {nextId} /\ pending' = pending \cup {[id |-> nextId, call |-> c]}
    BY <1>9 DEF SendRequest, Break
  <2>4. Len(retired'.order) <= retirements' /\ LateResponsesTolerated'
    BY <2>1, <2>2 DEF LateInv, LateResponsesTolerated
  <2>5. ASSUME "protocol" \notin ChildFaults PROVE AnsweredOnce' /\ StillKnown'
    <3>1. AnsweredOnce /\ StillKnown /\ Responses' = Responses
      BY <2>1, <2>5 DEF LateInv, Responses
    <3>2. /\ \A i \in heard : i \in Nat /\ i < nextId
          /\ \A k \in Responses : incoming[k].number < nextId /\ incoming[k].number \notin heard
          /\ \A k \in Responses : incoming[k] \in FrameType
      BY <1>0, <3>1 DEF AnsweredOnce, Responses
    <3>3. ASSUME NEW k \in Responses
          PROVE  incoming[k].number # nextId /\ incoming[k].number < nextId + 1
      <4>1. incoming[k].number \in Nat
        BY <3>2 DEF FrameType
      <4> QED BY <1>0, <3>2, <4>1
    <3>4. heard' \subseteq heard \cup {nextId}
      BY <2>3
    <3>5. AnsweredOnce'
      <4>1. \A i \in heard' : i < nextId'
        BY <1>0, <2>1, <3>2, <3>4
      <4>2. \A k \in Responses : /\ incoming[k].number < nextId'
                                 /\ incoming[k].number \notin heard'
        BY <2>1, <3>2, <3>3, <3>4
      <4> QED BY <2>1, <3>1, <4>1, <4>2 DEF AnsweredOnce
    <3>6. \A i : Known(i) => Known(i)' \/ loop' = "reaping"
      BY <2>1, <2>3 DEF Known, IdsOf
    <3>7. ASSUME NEW i \in heard' PROVE i \in heard \/ Known(i)'
      <4> SUFFICES ASSUME i \notin heard PROVE Known(i)'
        OBVIOUS
      <4>1. i = nextId /\ [id |-> nextId, call |-> c] \in pending'
        BY <2>3
      <4>2. i \in {r.id : r \in pending'}
        BY <4>1
      <4> QED BY <4>2 DEF Known, IdsOf
    <3>8. StillKnown'
      BY <2>1, <3>1, <3>6, <3>7 DEF StillKnown
    <3> QED BY <3>5, <3>8
  <2> QED BY <2>4, <2>5 DEF LateInv
<1>10. ASSUME NEW c \in Calls, SendNotice(c) PROVE LateInv'
  BY <1>0, <1>10, LateKept DEF SendNotice, TakesCommand, Continue, Break, Known
<1>11. ASSUME NEW r \in pending, TakeResponse(r) PROVE LateInv'
  <2>1. \A i : Known(i) => Known(i)' \/ FirstIs(i)
    BY <1>11 DEF TakeResponse, TakesFrame, Known, IdsOf, FirstIs
  <2> QED BY <1>0, <1>11, <2>1, LateKept DEF TakeResponse, TakesFrame, childVars, Continue
<1>12. ASSUME IgnoreResponse PROVE LateInv'
  <2>1. Serving' => \A i : Known(i) => Known(i)' \/ FirstIs(i)
    BY <1>12 DEF IgnoreResponse, TakesFrame, Known, IdsOf, FirstIs, TypeInv, TypeOK, RetiredTypeOK
  <2>2. retired'.order = retired.order
    BY <1>12 DEF IgnoreResponse, TypeInv, TypeOK, RetiredTypeOK
  <2> QED BY <1>0, <1>12, <2>1, <2>2, LateKept DEF IgnoreResponse, TakesFrame, childVars, Continue
<1>13. ASSUME UnknownResponse PROVE LateInv'
  <2>1. /\ incoming # <<>> /\ Head(incoming).kind = "response" /\ loop = "select" /\ ~unusable
        /\ ~Known(Head(incoming).number) /\ incoming' = Tail(incoming)
        /\ UNCHANGED <<heard, nextId, retired, retirements>> /\ loop' = "reaping"
    BY <1>13 DEF UnknownResponse, TakesFrame, CloseConnection, Break, Known, childVars
  <2>2. 1 \in Responses /\ incoming[1] = Head(incoming)
    BY <1>0, <2>1 DEF Responses
  <2>3. retirements \in Nat /\ RetiredCapacity \in Nat
    BY TransportAssumption DEF TypeInv, TypeOK, RetiredTypeOK
  <2>4. "protocol" \notin ChildFaults => retirements > RetiredCapacity
    BY <2>1, <2>2, <2>3 DEF LateInv, StillKnown
  <2>5. LateResponsesTolerated'
    BY <2>1, <2>4 DEF LateResponsesTolerated
  <2>6. "protocol" \notin ChildFaults => AnsweredOnce'
    <3> SUFFICES ASSUME "protocol" \notin ChildFaults PROVE AnsweredOnce'
      OBVIOUS
    <3>1. \A k \in Responses' : k \in Nat /\ k + 1 \in Responses /\ incoming'[k] = incoming[k + 1]
      BY <1>0, <2>1 DEF Responses
    <3>2. AnsweredOnce
      BY DEF LateInv
    <3>3. ASSUME NEW j \in Responses', NEW k \in Responses',
                 incoming'[j].number = incoming'[k].number
          PROVE  j = k
      <4>1. j + 1 \in Responses /\ k + 1 \in Responses /\ j \in Nat /\ k \in Nat
            /\ incoming[j + 1].number = incoming[k + 1].number
        BY <3>1, <3>3
      <4>2. j + 1 = k + 1
        BY <3>2, <4>1 DEF AnsweredOnce
      <4> QED BY <4>1, <4>2
    <3> QED BY <2>1, <3>1, <3>2, <3>3 DEF AnsweredOnce
  <2>7. StillKnown'
    BY <2>1 DEF StillKnown
  <2> QED BY <2>1, <2>5, <2>6, <2>7 DEF LateInv
<1>14. ASSUME BadFrame PROVE LateInv'
  BY <1>0, <1>14, LateKept DEF BadFrame, TakesFrame, CloseConnection, childVars, Break
<1>15. ASSUME EndOfFrames PROVE LateInv'
  BY <1>0, <1>15, LateKept DEF EndOfFrames, TakesFrame, CloseConnection, childVars, Break
<1>16. ASSUME Notification PROVE LateInv'
  BY <1>0, <1>16, LateKept
     DEF Notification, TakesFrame, childVars, Continue, Break, Known
<1>17. ASSUME ToolNotification PROVE LateInv'
  BY <1>0, <1>17, LateKept DEF ToolNotification, TakesFrame, childVars, Continue, Known
<1>18. ASSUME ServerRequest PROVE LateInv'
  BY <1>0, <1>18, LateKept DEF ServerRequest, TakesFrame, childVars, Continue, Break
<1>19. ASSUME NEW r \in pending, Tick(r) PROVE LateInv'
  BY <1>19, RetiredIsKnown DEF Tick, childVars, Continue
<1>20. ASSUME TakeShutdown PROVE LateInv'
  BY <1>0, <1>20, LateKept DEF TakeShutdown, actorVars, childVars, Break
<1>21. ASSUME Reap PROVE LateInv'
  BY <1>0, <1>21, LateKept DEF Reap, childVars
<1>22. ASSUME Child PROVE LateInv'
  <2>1. UNCHANGED <<retired, retirements, ended, nextId, pending, loop, unusable>>
    BY <1>22 DEF Child, Writes, ChildResponds, ChildNotifies, ChildUsesTool, ChildAsks,
       ChildErrs, ChildExits, actorVars
  <2>2. Len(retired'.order) <= retirements' /\ LateResponsesTolerated'
    BY <2>1 DEF LateInv, LateResponsesTolerated
  <2>3. ASSUME "protocol" \notin ChildFaults PROVE AnsweredOnce' /\ StillKnown'
    <3>1. AnsweredOnce /\ StillKnown
      BY <2>3 DEF LateInv
    <3>2. CASE \E i \in Ids : ChildResponds(i)
      <4>1. PICK i \in Ids : ChildResponds(i)
        BY <3>2
      <4>2. /\ i \in heard /\ heard' = heard \ {i}
            /\ incoming' = Append(incoming, Frame("response", i))
        BY <4>1 DEF ChildResponds, Writes
      <4> DEFINE n == Len(incoming) + 1
      <4>3. /\ n \in Nat /\ n \notin Responses /\ incoming'[n].number = i
            /\ Responses' = Responses \cup {n}
            /\ \A k \in Responses : incoming'[k] = incoming[k]
        BY <1>0, <4>2 DEF Responses, Frame
      <4>4. i < nextId /\ \A k \in Responses : incoming[k].number # i
        BY <3>1, <4>2 DEF AnsweredOnce
      <4> HIDE DEF n
      <4>5. ASSUME NEW k \in Responses'
            PROVE  incoming'[k].number < nextId' /\ incoming'[k].number \notin heard'
        BY <2>1, <3>1, <4>2, <4>3, <4>4 DEF AnsweredOnce
      <4>6. ASSUME NEW j \in Responses', NEW k \in Responses',
                   incoming'[j].number = incoming'[k].number
            PROVE  j = k
        BY <3>1, <4>3, <4>4, <4>6 DEF AnsweredOnce
      <4>7. \A l \in heard' : l < nextId'
        BY <2>1, <3>1, <4>2 DEF AnsweredOnce
      <4>8. AnsweredOnce'
        BY <4>5, <4>6, <4>7 DEF AnsweredOnce
      <4>9. \A l : Known(l)' <=> Known(l)
        BY <2>1 DEF Known
      <4>10. StillKnown'
        BY <2>1, <3>1, <4>2, <4>3, <4>9 DEF StillKnown
      <4> QED BY <4>8, <4>10
    <3>3. CASE ~\E i \in Ids : ChildResponds(i)
      <4>1. PICK kind \in {"notification", "tool", "request", "eof"}, i \in Nat :
              Writes(Frame(kind, i))
        BY <1>0, <1>22, <2>3, <3>3
           DEF Child, ChildNotifies, ChildUsesTool, ChildAsks, ChildErrs, ChildExits,
               ChannelTypeOK
      <4>2. heard' = heard
        BY <1>22, <2>3, <3>3 DEF Child, ChildNotifies, ChildUsesTool, ChildAsks, ChildErrs,
           ChildExits, childVars
      <4>3. Responses' = Responses /\ \A k \in Responses : incoming'[k] = incoming[k]
        BY <1>0, <4>1 DEF Writes, Responses, Frame
      <4>4. AnsweredOnce'
        BY <2>1, <3>1, <4>2, <4>3 DEF AnsweredOnce
      <4>5. \A l : Known(l)' <=> Known(l)
        BY <2>1 DEF Known
      <4>6. StillKnown'
        BY <2>1, <3>1, <4>2, <4>3, <4>5 DEF StillKnown
      <4> QED BY <4>4, <4>6
    <3> QED BY <3>2, <3>3
  <2> QED BY <2>2, <2>3 DEF LateInv
<1> QED
  BY <1>1, <1>2, <1>3, <1>4, <1>5, <1>6, <1>7, <1>8, <1>9, <1>10, <1>11,
     <1>12, <1>13, <1>14, <1>15, <1>16, <1>17, <1>18, <1>19, <1>20, <1>21,
     <1>22 DEF Next, Client, Actor, RetireSome, TickSome, TakeCommand,
     TakeFrame

\* A child that keeps to the protocol does not lose its connection over a late response
\* unless more requests were given up than are remembered (RetiredRequestIds).
THEOREM LateResponsesAreTolerated == Spec => []LateResponsesTolerated
<1>1. Init => LateInv
  BY DEF Init, LateInv, AnsweredOnce, StillKnown, Responses, LateResponsesTolerated
<1>2. TypeInv /\ LateInv /\ [Next]_vars => LateInv'
  <2> SUFFICES ASSUME TypeInv, LateInv, [Next]_vars PROVE LateInv'
    OBVIOUS
  <2>1. CASE Next
    BY <2>1, LateStep
  <2>2. CASE UNCHANGED vars
    BY <2>2 DEF vars, actorVars, childVars, LateInv, AnsweredOnce, StillKnown, Responses,
       Known, LateResponsesTolerated
  <2> QED BY <2>1, <2>2
<1>3. LateInv => LateResponsesTolerated
  BY DEF LateInv
<1> QED BY <1>1, <1>2, <1>3, TypeInvariant, PTL DEF Spec
=============================================================================
