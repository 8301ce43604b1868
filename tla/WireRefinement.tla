---------------------------- MODULE WireRefinement ----------------------------
(***************************************************************************)
(* Wire implements ChannelSpec, the exchange the mounts are built on: its  *)
(* initial states map to initial ones, and every step from a state of the  *)
(* invariant maps to a step of ChannelSpec or to none.                     *)
(***************************************************************************)
EXTENDS WireProofs

\* A call under way is one of the operations.
Named ==
  \A t \in Threads : pc[t] # "idle" => call[t].operation \in Operations

RefInv == WireInv /\ Named

LEMMA NamedNext ==
  ASSUME WireInv, Named, [Next]_vars
  PROVE  Named'
<1>1. CASE UNCHANGED <<pc, call>>
  BY <1>1 DEF Named
<1>2. ASSUME NEW t \in Threads, NEW o \in Operations, Call(t, o)
      PROVE  Named'
  BY <1>2 DEF Call, Named, WireInv, Kinds
<1>3. ASSUME NEW t \in Threads, Acquire(t)
      PROVE  Named'
  BY <1>3 DEF Acquire, Named, WireInv, Kinds, Frames
<1>4. ASSUME NEW t \in Threads, Write(t)
      PROVE  Named'
  BY <1>4 DEF Write, Named, WireInv, Kinds
<1>5. ASSUME NEW t \in Threads, NEW r, Return(t, r)
      PROVE  Named'
  BY <1>5 DEF Return, Named, WireInv, Kinds
<1>6. ASSUME NEW t \in Threads, ClientStep(t)
      PROVE  Named'
  <2>1. ASSUME Refuse(t) \/ WriteFails(t) \/ Read(t) \/ ReadFails(t)
        PROVE  \E r : Return(t, r)
    BY <2>1 DEF Refuse, WriteFails, Read, ReadFails, Fails
  <2>2. QED
    BY <1>3, <1>4, <1>5, <1>6, <2>1 DEF ClientStep
<1>7. CASE ServerStep \/ PipeFails \/ UNCHANGED vars
  BY <1>1, <1>7 DEF ServerStep, ReadRequest, Dispatch, DispatchTimesOut, Reply, Retire,
                    PipeFails, vars, clientVars
<1>8. QED
  BY <1>2, <1>6, <1>7 DEF Next

LEMMA RefInvAlways == Spec => []RefInv
<1>1. Init => RefInv
  BY WireInvInit DEF Init, RefInv, Named
<1>2. RefInv /\ [Next]_vars => RefInv'
  BY WireInvNext, NamedNext DEF RefInv
<1>3. QED
  BY <1>1, <1>2, PTL DEF Spec

(***************************************************************************)
(* What the states of the invariant look like from above.                  *)
(***************************************************************************)
Seen ==
  /\ Awaited => Caller = lock /\ Caller \in Threads /\ lock # None
  /\ ~Awaited => /\ Caller = None /\ Asked = None /\ Decided = None
                 /\ replies = <<>> /\ outcome = None
  /\ server = "dispatching" => /\ Asked = serving.operation /\ Asked \in Operations
                               /\ Decided = None /\ Awaited
  /\ requests = <<>> /\ server # "dispatching" => Asked = None

LEMMA View == RefInv => Seen
<1>. SUFFICES ASSUME RefInv PROVE Seen
  OBVIOUS
<1>1. Awaited => lock \in Threads /\ Caller = lock /\ lock # None
  BY DEF Awaited, Caller, RefInv, WireInv, Kinds
<1>2. ~Awaited => Caller = None
  BY DEF Awaited, Caller
<1>3. ~Awaited => /\ server \notin {"dispatching", "replying"} /\ outcome = None
                  /\ replies = <<>>
  BY DEF RefInv, WireInv, Exchanged
<1>4. ~Awaited => Asked = None /\ Decided = None
  BY <1>2, <1>3 DEF Asked, Decided
<1>5. ASSUME server = "dispatching"
      PROVE  /\ Asked = serving.operation /\ Asked \in Operations
             /\ Decided = None /\ Awaited
  <2>1. /\ Awaited /\ serving = call[lock] /\ requests = <<>> /\ outcome = None
        /\ replies = <<>>
    BY <1>5 DEF RefInv, WireInv, Exchanged
  <2>2. call[lock].operation \in Operations
    BY <1>1, <2>1 DEF RefInv, Named, Awaited
  <2>3. QED
    BY <1>5, <2>1, <2>2 DEF Asked, Decided
<1>6. requests = <<>> /\ server # "dispatching" => Asked = None
  BY DEF Asked
<1>7. QED
  BY <1>1, <1>2, <1>3, <1>4, <1>5, <1>6 DEF Seen

LEMMA ViewAfter == RefInv' => Seen'
BY View, PTL

LEMMA ChannelStutter ==
  ASSUME Caller' = Caller, Asked' = Asked, Decided' = Decided, closed' = closed,
         Serving' = Serving
  PROVE  UNCHANGED Channel!channelVars
BY DEF Channel!channelVars

(***************************************************************************)
(* The client.                                                             *)
(***************************************************************************)
\* A thread that takes no part in the exchange does not show.
LEMMA AsideChannel ==
  ASSUME RefInv, RefInv', ~Awaited, ~Awaited', UNCHANGED <<closed, server>>
  PROVE  [Channel!Next]_Channel!channelVars
<1>1. /\ Caller' = Caller /\ Asked' = Asked /\ Decided' = Decided
      /\ outcome = None /\ outcome' = None
  BY View, ViewAfter DEF Seen
<1>2. Serving' = Serving
  BY <1>1 DEF Serving
<1>3. QED
  BY <1>1, <1>2, ChannelStutter

LEMMA CallChannel ==
  ASSUME RefInv, NEW t \in Threads, NEW o \in Operations, Call(t, o)
  PROVE  [Channel!Next]_Channel!channelVars
<1>1. /\ pc[t] = "idle" /\ pc' = [pc EXCEPT ![t] = "waiting"]
      /\ UNCHANGED <<lock, closed, requests, replies, server, serving, outcome>>
  BY DEF Call, serveVars
<1>2. lock # None => lock \in Threads /\ lock # t /\ pc'[lock] = pc[lock]
  BY <1>1 DEF RefInv, WireInv, Kinds, Locked
<1>3. Caller' = Caller
  BY <1>1, <1>2 DEF Caller
<1>4. Asked' = Asked /\ Decided' = Decided /\ Serving' = Serving
  BY <1>1, <1>3 DEF Asked, Decided, Serving
<1>5. QED
  BY <1>1, <1>3, <1>4, ChannelStutter

\* The exchange begins when the request is in the pipe.
LEMMA WriteChannel ==
  ASSUME RefInv, RefInv', NEW t \in Threads, Write(t)
  PROVE  [Channel!Next]_Channel!channelVars
<1>1. /\ pc[t] = "writing" /\ requests' = Append(requests, call[t])
      /\ pc' = [pc EXCEPT ![t] = "reading"]
      /\ UNCHANGED <<lock, closed, replies, server, outcome>>
  BY DEF Write, serveVars
<1>2. lock = t /\ t # None /\ ~closed /\ ~Awaited /\ pc'[t] = "reading"
  BY <1>1, NoneIsNone DEF RefInv, WireInv, Locked, Awaited, Kinds
<1>3. Caller = None /\ replies = <<>> /\ outcome = None
  BY <1>2, View, ViewAfter DEF Seen
<1>4. requests = <<>>
  BY <1>1, <1>2 DEF RefInv, WireInv, Exchanged
<1>5. requests' # <<>> /\ Head(requests') = call[t]
  BY <1>1, <1>4, Single
<1>6. Caller' = t
  BY <1>1, <1>2 DEF Caller
<1>7. Asked' = call[t].operation
  BY <1>2, <1>5, <1>6 DEF Asked
<1>8. call[t].operation \in Operations
  BY <1>1 DEF RefInv, Named
<1>9. Decided' = None /\ Serving' = Serving
  BY <1>1, <1>3 DEF Decided, Serving
<1>10. Channel!Send(t, call[t].operation)
  BY <1>1, <1>2, <1>3, <1>6, <1>7, <1>9 DEF Channel!Send
<1>11. QED
  BY <1>8, <1>10 DEF Channel!Next

\* A call that cannot be written fails without an exchange.
LEMMA WriteFailsChannel ==
  ASSUME RefInv, RefInv', NEW t \in Threads, WriteFails(t)
  PROVE  [Channel!Next]_Channel!channelVars
<1>1. /\ pc[t] = "writing" /\ closed' = TRUE /\ lock' = None
      /\ UNCHANGED <<requests, replies, serveVars>>
  BY DEF WriteFails, Fails, Return
<1>2. lock = t /\ ~closed /\ ~Awaited /\ ~Awaited'
  BY <1>1, NoneIsNone DEF RefInv, WireInv, Locked, Awaited
<1>3. /\ Caller' = Caller /\ Caller = None /\ Asked' = Asked /\ Decided' = Decided
      /\ UNCHANGED <<server, outcome>>
  BY <1>1, <1>2, View, ViewAfter DEF Seen, serveVars
<1>4. Serving' = Serving
  BY <1>3 DEF Serving
<1>5. Channel!CannotWrite
  BY <1>1, <1>2, <1>3, <1>4 DEF Channel!CannotWrite
<1>6. QED
  BY <1>5 DEF Channel!Next

LEMMA ReadChannel ==
  ASSUME RefInv, RefInv', NEW t \in Threads, Read(t)
  PROVE  [Channel!Next]_Channel!channelVars
<1>1. pc[t] = "reading" /\ replies # <<>> /\ Head(replies).id = call[t].id
  BY ReadKeeps DEF Read, RefInv
<1>2. /\ lock' = None
      /\ UNCHANGED <<closed, requests, server, outcome>>
  BY <1>1 DEF Read, Return, serveVars
<1>3. lock = t /\ t # None /\ Awaited /\ ~Awaited'
  BY <1>1, <1>2, NoneIsNone DEF RefInv, WireInv, Locked, Awaited
<1>4. requests = <<>> /\ server \notin {"dispatching", "replying"}
  BY <1>1 DEF RefInv, WireInv, Exchanged
<1>5. Caller = t /\ Caller' = None /\ Asked = None /\ Asked' = None /\ Decided' = None
  BY <1>3, <1>4, View, ViewAfter DEF Seen
<1>6. Decided = Head(replies).result /\ Head(replies).result \in Results
  BY <1>1, PipesHold DEF Decided, RefInv, WireInv, Answers
<1>7. Serving' = Serving
  BY <1>2 DEF Serving
<1>8. Channel!Receive(t, Head(replies).result)
  BY <1>2, <1>5, <1>6, <1>7, NoneIsNone DEF Channel!Receive
<1>9. QED
  BY <1>6, <1>8 DEF Channel!Next

\* The pipes are gone before a reply.
LEMMA ReadFailsChannel ==
  ASSUME RefInv, RefInv', NEW t \in Threads, ReadFails(t)
  PROVE  [Channel!Next]_Channel!channelVars
<1>1. /\ pc[t] = "reading" /\ replies = <<>> /\ server = "stopped" /\ closed' = TRUE
      /\ lock' = None /\ UNCHANGED <<server, outcome>>
  BY DEF ReadFails, Fails, Return, serveVars
<1>2. lock = t /\ t # None /\ Awaited /\ ~Awaited' /\ outcome = None
  BY <1>1, NoneIsNone DEF RefInv, WireInv, Locked, Exchanged, Awaited
<1>3. /\ Caller = t /\ Caller' = None /\ Asked' = None /\ Decided' = None
      /\ Decided = None
  BY <1>1, <1>2, View, ViewAfter DEF Seen, Decided
<1>4. Serving = "stopped" /\ Serving' = Serving
  BY <1>1 DEF Serving
<1>5. Channel!Lose(t)
  BY <1>1, <1>3, <1>4 DEF Channel!Lose
<1>6. QED
  BY <1>5 DEF Channel!Next

LEMMA ClientChannel ==
  ASSUME RefInv, RefInv', NEW t \in Threads, ClientStep(t)
  PROVE  [Channel!Next]_Channel!channelVars
<1>1. ASSUME Acquire(t)
      PROVE  ~Awaited /\ ~Awaited' /\ UNCHANGED <<closed, server>>
  BY <1>1 DEF Acquire, Awaited, serveVars, RefInv, WireInv, Kinds
<1>2. ASSUME Refuse(t)
      PROVE  ~Awaited /\ ~Awaited' /\ UNCHANGED <<closed, server>>
  BY <1>2 DEF Refuse, Return, Awaited, serveVars
<1>3. QED
  BY <1>1, <1>2, AsideChannel, WriteChannel, WriteFailsChannel, ReadChannel,
     ReadFailsChannel DEF ClientStep

(***************************************************************************)
(* The server.                                                             *)
(***************************************************************************)
LEMMA ReadRequestChannel ==
  ASSUME RefInv, RefInv', ReadRequest
  PROVE  [Channel!Next]_Channel!channelVars
<1>1. /\ server = "reading" /\ requests # <<>>
      /\ UNCHANGED <<lock, pc, closed, replies, outcome>>
  BY DEF ReadRequest, clientVars
<1>2. Head(requests).id > last /\ Awaited
  BY <1>1 DEF RefInv, WireInv, Exchanged
<1>3. server' = "dispatching" /\ serving' = Head(requests)
  BY <1>2 DEF ReadRequest
<1>4. Caller' = Caller /\ Caller # None /\ Decided' = Decided
  BY <1>1, <1>2, View, ViewAfter DEF Seen, Caller, Decided
<1>5. Asked = Head(requests).operation
  BY <1>1, <1>4 DEF Asked
<1>6. Asked' = Head(requests).operation
  BY <1>3, View, ViewAfter DEF Seen
<1>7. Serving' = Serving
  BY <1>1, <1>3 DEF Serving
<1>8. QED
  BY <1>1, <1>4, <1>5, <1>6, <1>7, ChannelStutter

\* The answer counts from the moment dispatch has ended.
LEMMA AnswerChannel ==
  ASSUME RefInv, RefInv', Dispatch \/ DispatchTimesOut
  PROVE  [Channel!Next]_Channel!channelVars
<1>1. /\ server = "dispatching" /\ server' = "replying"
      /\ outcome' \in {"ok", "error"} \/ outcome' = "TimedOut"
      /\ UNCHANGED <<lock, pc, closed, requests, replies>>
  BY DEF Dispatch, DispatchTimesOut, clientVars
<1>2. /\ Asked \in Operations /\ requests = <<>> /\ replies = <<>> /\ outcome = None
  BY <1>1, View, ViewAfter DEF Seen, RefInv, WireInv, Exchanged
<1>3. Asked # None
  BY <1>2, WireAssumption
<1>4. Caller' = Caller /\ Decided' = outcome' /\ Serving = "serving"
  BY <1>1, <1>2, NoneIsNone DEF Caller, Decided, Serving
<1>5. Asked' = None
  BY <1>1, <1>2, View, ViewAfter DEF Seen
<1>6. CASE outcome' \in {"ok", "error"}
  <2>1. Serving' = "serving"
    BY <1>1, <1>6 DEF Serving
  <2>2. Channel!Answer(outcome')
    BY <1>1, <1>3, <1>4, <1>5, <2>1 DEF Channel!Answer
  <2>3. QED
    BY <1>6, <2>2 DEF Channel!Next, Results
<1>7. CASE outcome' = "TimedOut"
  <2>1. Serving' = "retired"
    BY <1>1, <1>7 DEF Serving
  <2>2. Channel!AnswerTimedOut
    BY <1>1, <1>3, <1>4, <1>5, <1>7, <2>1 DEF Channel!AnswerTimedOut
  <2>3. QED
    BY <2>2 DEF Channel!Next
<1>8. QED
  BY <1>1, <1>6, <1>7

LEMMA ReplyChannel ==
  ASSUME RefInv, RefInv', Reply
  PROVE  [Channel!Next]_Channel!channelVars
<1>1. /\ server = "replying" /\ outcome' = None
      /\ replies' = Append(replies, [id |-> serving.id, result |-> outcome])
      /\ server' = IF outcome = "TimedOut" THEN "retired" ELSE "reading"
      /\ UNCHANGED <<lock, pc, closed, requests>>
  BY DEF Reply, clientVars
<1>2. requests = <<>> /\ replies = <<>>
  BY <1>1 DEF RefInv, WireInv, Exchanged
<1>3. replies' # <<>> /\ Head(replies').result = outcome
  BY <1>1, <1>2, Single
<1>4. Caller' = Caller /\ Decided' = Decided /\ Asked' = Asked
  BY <1>1, <1>2, <1>3 DEF Caller, Decided, Asked
<1>5. Serving' = Serving
  BY <1>1, NoneIsNone DEF Serving
<1>6. QED
  BY <1>1, <1>4, <1>5, ChannelStutter

\* A pipe error may take a decided reply with it.
LEMMA PipeFailsChannel ==
  ASSUME RefInv, RefInv', PipeFails
  PROVE  [Channel!Next]_Channel!channelVars
<1>1. /\ server \in {"reading", "replying"} /\ server' = "retired" /\ outcome' = None
      /\ UNCHANGED <<lock, pc, closed, requests, replies>>
  BY DEF PipeFails, clientVars
<1>2. Caller' = Caller /\ Asked' = Asked /\ Serving' = "retired"
  BY <1>1 DEF Caller, Asked, Serving
<1>3. Serving \in {"serving", "retired"}
  BY <1>1 DEF Serving
<1>4. Decided' \in {Decided, None}
  BY <1>1 DEF Decided
<1>5. Channel!Break
  BY <1>1, <1>2, <1>3, <1>4 DEF Channel!Break
<1>6. QED
  BY <1>5 DEF Channel!Next

LEMMA RetireChannel ==
  ASSUME RefInv, RefInv', Retire
  PROVE  [Channel!Next]_Channel!channelVars
<1>1. /\ server \in {"retired", "closing"}
      /\ server' = IF server = "retired" THEN "closing" ELSE "stopped"
      /\ UNCHANGED <<lock, pc, closed, requests, replies, outcome>>
  BY DEF Retire, clientVars
<1>2. /\ Caller' = Caller /\ Asked' = Asked /\ Decided' = Decided
      /\ Serving = server /\ Serving' = server'
  BY <1>1 DEF Caller, Asked, Decided, Serving
<1>3. Channel!Retire \/ Channel!Stop
  BY <1>1, <1>2 DEF Channel!Retire, Channel!Stop
<1>4. QED
  BY <1>3 DEF Channel!Next

LEMMA ChannelStep ==
  ASSUME RefInv, RefInv', [Next]_vars
  PROVE  [Channel!Next]_Channel!channelVars
<1>1. CASE UNCHANGED vars
  <2>1. UNCHANGED <<lock, pc, closed, requests, replies, server, serving, outcome>>
    BY <1>1 DEF vars, clientVars, serveVars
  <2>2. QED
    BY <2>1, ChannelStutter DEF Caller, Asked, Decided, Serving
<1>2. CASE ServerStep
  BY <1>2, ReadRequestChannel, AnswerChannel, ReplyChannel, RetireChannel DEF ServerStep
<1>3. QED
  BY <1>1, <1>2, CallChannel, ClientChannel, PipeFailsChannel DEF Next

\* Whatever the threads and the pipes do, the callbacks above see a channel that
\* has one exchange at a time, answers it at most once and nothing after a
\* timeout (Client::call, Server::serve).
THEOREM WireImplementsChannel == Spec => ImplementsChannel
<1>1. Init => Channel!ChannelInit
  <2>1. ASSUME Init PROVE Caller = None /\ Asked = None /\ Decided = None /\ Serving = "serving"
    BY <2>1, NoneIsNone DEF Init, Caller, Asked, Decided, Serving
  <2>2. QED
    BY <2>1 DEF Init, Channel!ChannelInit
<1>2. RefInv /\ RefInv' /\ [Next]_vars => [Channel!Next]_Channel!channelVars
  BY ChannelStep
<1>3. QED
  BY <1>1, <1>2, RefInvAlways, PTL DEF Spec, ImplementsChannel, Channel!Spec
==============================================================================
