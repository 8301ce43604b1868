------------------------------ MODULE WireProofs ------------------------------
(***************************************************************************)
(* Proofs about Wire for any set of threads and operations, and any number *)
(* of calls.                                                               *)
(***************************************************************************)
EXTENDS Wire, SequenceTheorems, TLAPS

(***************************************************************************)
(* The inductive invariant.                                                *)
(***************************************************************************)
Frames     == [id : Nat, operation : Operations \cup {None}]
Answers    == [id : Nat, result : Results]
Kinds ==
  /\ lock \in Threads \cup {None}
  /\ closed \in BOOLEAN
  /\ next \in Nat
  /\ pc \in [Threads -> {"idle", "waiting", "writing", "reading"}]
  /\ call \in [Threads -> Frames]
  /\ result \in [Threads -> Results \cup {"none", "Offline"}]
  /\ requests \in {<<>>} \cup {<<f>> : f \in Frames}
  /\ replies \in {<<>>} \cup {<<a>> : a \in Answers}
  /\ server \in {"reading", "dispatching", "replying", "retired", "closing", "stopped"}
  /\ last \in Nat
  /\ serving \in Frames
  /\ outcome \in Results \cup {None}
  /\ executed \in Seq(Nat)

Awaited == lock # None /\ pc[lock] = "reading"
Over    == server \in {"retired", "closing", "stopped"}

\* The lock is held exactly while an exchange is under way, and only on an open
\* transport.
Locked ==
  /\ \A t \in Threads : lock = t <=> pc[t] \in {"writing", "reading"}
  /\ lock # None => ~closed /\ call[lock].id = next
  /\ last <= next
  /\ lock # None /\ pc[lock] = "writing" => last < next

\* The one exchange is in one place: the request in its pipe, with the server, or
\* the reply in its pipe.  What is left in a pipe when nobody waits is never read.
Exchanged ==
  /\ requests # <<>> =>
       /\ Head(requests).id > last
       /\ \/ Awaited /\ Head(requests) = call[lock]
          \/ closed /\ server = "stopped"
  /\ replies # <<>> =>
       /\ Awaited /\ Head(replies).id = call[lock].id
       /\ requests = <<>> /\ server \notin {"dispatching", "replying"}
  /\ server \in {"dispatching", "replying"} =>
       /\ Awaited /\ serving = call[lock] /\ serving.id = last
       /\ requests = <<>>
  /\ outcome # None <=> server = "replying"

\* What the provider did, and who has been told.
Recorded ==
  /\ InOrderOnce
  /\ \A i \in 1 .. Len(executed) :
       executed[i] <= last /\ (server = "dispatching" => executed[i] < last)
  /\ outcome = "ok" => Contains(executed, serving.id)
  /\ replies # <<>> =>
       /\ Head(replies).result = "ok" => Contains(executed, Head(replies).id)
       /\ Head(replies).result = "TimedOut" => Over
  /\ \A t \in Threads : result[t] = "TimedOut" => Over

WireInv == Kinds /\ Locked /\ Exchanged /\ Recorded

(***************************************************************************)
(* Sequences.                                                              *)
(***************************************************************************)
LEMMA Single ==
  ASSUME NEW x
  PROVE  /\ Append(<<>>, x) = <<x>> /\ <<x>> # <<>>
         /\ Head(<<x>>) = x /\ Tail(<<x>>) = <<>>
OBVIOUS

LEMMA PipesHold ==
  ASSUME Kinds
  PROVE  /\ requests # <<>> => /\ Head(requests) \in Frames /\ Tail(requests) = <<>>
                               /\ requests = <<Head(requests)>>
         /\ replies # <<>> => /\ Head(replies) \in Answers /\ Tail(replies) = <<>>
                              /\ replies = <<Head(replies)>>
BY Single DEF Kinds

LEMMA Extended ==
  ASSUME NEW s \in Seq(Nat), NEW n \in Nat
  PROVE  /\ Append(s, n) \in Seq(Nat) /\ Len(Append(s, n)) = Len(s) + 1 /\ Len(s) \in Nat
         /\ \A i \in 1 .. Len(s) : Append(s, n)[i] = s[i] /\ s[i] \in Nat
         /\ Append(s, n)[Len(s) + 1] = n
         /\ Contains(Append(s, n), n)
         /\ \A e : Contains(s, e) => Contains(Append(s, n), e)
<1>1. /\ Append(s, n) \in Seq(Nat) /\ Len(Append(s, n)) = Len(s) + 1
      /\ \A i \in 1 .. Len(s) : Append(s, n)[i] = s[i]
      /\ Append(s, n)[Len(s) + 1] = n
  BY AppendProperties
<1>2. Len(s) \in Nat /\ \A i \in 1 .. Len(s) : s[i] \in Nat
  BY LenProperties, ElementOfSeq
<1>3. QED
  BY <1>1, <1>2 DEF Contains

(***************************************************************************)
(* Induction.                                                              *)
(***************************************************************************)
LEMMA NoneIsNone ==
  None \notin Threads /\ None \notin Results /\ None # "ok" /\ None # "TimedOut"
BY WireAssumption DEF Results

LEMMA WireInvInit == Init => WireInv
<1>1. SUFFICES ASSUME Init PROVE WireInv
  OBVIOUS
<1>2. Kinds
  <2>1. NoCall \in Frames
    BY DEF NoCall, Frames
  <2>2. <<>> \in Seq(Nat)
    OBVIOUS
  <2>3. QED
    BY <1>1, <2>1, <2>2 DEF Init, Kinds
<1>3. Locked
  BY <1>1, NoneIsNone DEF Init, Locked
<1>4. Exchanged
  BY <1>1 DEF Init, Exchanged
<1>5. Recorded
  BY <1>1, NoneIsNone DEF Init, Recorded, InOrderOnce
<1>6. QED
  BY <1>2, <1>3, <1>4, <1>5 DEF WireInv

LEMMA CallKeeps ==
  ASSUME WireInv, NEW t \in Threads, NEW o \in Operations, Call(t, o)
  PROVE  WireInv'
<1>. USE DEF WireInv
<1>1. /\ pc[t] = "idle" /\ pc' = [pc EXCEPT ![t] = "waiting"]
      /\ call' = [call EXCEPT ![t] = [id |-> 0, operation |-> o]]
      /\ UNCHANGED <<lock, closed, next, result, requests, replies, serveVars>>
  BY DEF Call
<1>2. lock # t /\ \A u \in Threads \ {t} : pc'[u] = pc[u] /\ call'[u] = call[u]
  BY <1>1 DEF Kinds, Locked
<1>3. Kinds'
  BY <1>1 DEF Kinds, serveVars, Frames
<1>4. Locked'
  BY <1>1, <1>2 DEF Kinds, Locked, serveVars
<1>5. Exchanged'
  BY <1>1, <1>2 DEF Kinds, Exchanged, Awaited, serveVars
<1>6. Recorded'
  BY <1>1 DEF Recorded, Over, InOrderOnce, serveVars
<1>7. QED
  BY <1>3, <1>4, <1>5, <1>6

LEMMA AcquireKeeps ==
  ASSUME WireInv, NEW t \in Threads, Acquire(t)
  PROVE  WireInv'
<1>. USE DEF WireInv
<1>1. /\ pc[t] = "waiting" /\ lock = None /\ ~closed /\ lock' = t /\ next' = next + 1
      /\ call' = [call EXCEPT ![t].id = next + 1]
      /\ pc' = [pc EXCEPT ![t] = "writing"]
      /\ UNCHANGED <<closed, result, requests, replies, serveVars>>
  BY DEF Acquire
<1>2. t # None /\ \A u \in Threads \ {t} : pc'[u] = pc[u] /\ call'[u] = call[u]
  BY <1>1, NoneIsNone DEF Kinds
<1>0. /\ pc'[t] = "writing" /\ call'[t] = [call[t] EXCEPT !.id = next + 1]
      /\ call[t] \in Frames /\ next \in Nat /\ last \in Nat
  BY <1>1 DEF Kinds
<1>10. call'[t] \in Frames /\ call'[t].id = next + 1
  BY <1>0 DEF Frames
<1>3. Kinds'
  <2>1. call' \in [Threads -> Frames]
    BY <1>1, <1>2, <1>10 DEF Kinds
  <2>2. QED
    BY <1>0, <1>1, <2>1 DEF Kinds, serveVars
<1>4. Locked'
  <2>1. \A u \in Threads : lock' = u <=> pc'[u] \in {"writing", "reading"}
    BY <1>0, <1>1, <1>2, NoneIsNone DEF Locked
  <2>2. last' = last /\ next' = next + 1 /\ last <= next /\ lock' = t /\ ~closed'
    BY <1>1 DEF Locked, serveVars
  <2>3. call'[lock'] = call'[t]
    BY <2>2
  <2>4. call'[lock'].id = next'
    BY <1>10, <2>2, <2>3
  <2>5. last' < next' /\ last' <= next'
    BY <1>0, <2>2
  <2>6. QED
    BY <2>1, <2>2, <2>4, <2>5 DEF Locked
<1>5. Exchanged'
  BY <1>1, <1>2 DEF Exchanged, Awaited, serveVars
<1>6. Recorded'
  BY <1>1 DEF Recorded, Over, InOrderOnce, serveVars
<1>7. QED
  BY <1>3, <1>4, <1>5, <1>6

\* A call that comes back leaves the lock and its place in the exchange.
LEMMA ReturnKeeps ==
  ASSUME WireInv, NEW t \in Threads, NEW r \in Results \cup {"none", "Offline"}, Return(t, r),
         lock \in {t, None}, UNCHANGED <<next, requests, serveVars>>,
         closed' \in BOOLEAN, closed' = closed \/ closed',
         replies' = <<>>, requests # <<>> => closed' /\ server = "stopped",
         server \notin {"dispatching", "replying"}, r = "TimedOut" => Over
  PROVE  WireInv'
<1>. USE DEF WireInv
<1>1. /\ pc' = [pc EXCEPT ![t] = "idle"] /\ call' = [call EXCEPT ![t] = NoCall]
      /\ result' = [result EXCEPT ![t] = r] /\ lock' = None
      /\ NoCall \in Frames
  BY DEF Return, NoCall, Frames
<1>2. Kinds'
  BY <1>1 DEF Kinds, serveVars
<1>3. \A u \in Threads : u # None /\ pc'[u] \notin {"writing", "reading"}
  BY <1>1, WireAssumption DEF Kinds, Locked
<1>4. Locked'
  BY <1>1, <1>3 DEF Locked, serveVars
<1>5. Exchanged'
  BY <1>1 DEF Exchanged, serveVars
<1>6. Recorded'
  BY <1>1 DEF Kinds, Recorded, Over, InOrderOnce, serveVars
<1>7. QED
  BY <1>2, <1>4, <1>5, <1>6

LEMMA RefuseKeeps ==
  ASSUME WireInv, NEW t \in Threads, Refuse(t)
  PROVE  WireInv'
<1>. USE DEF WireInv
<1>1. ~Awaited /\ closed /\ closed' = closed /\ UNCHANGED <<next, requests, replies, serveVars>>
  BY DEF Refuse, Awaited
<1>2. /\ replies = <<>> /\ (requests # <<>> => closed /\ server = "stopped")
      /\ server \notin {"dispatching", "replying"}
  BY <1>1 DEF Exchanged
<1>3. QED
  BY <1>1, <1>2, ReturnKeeps DEF Refuse, Kinds

LEMMA WriteKeeps ==
  ASSUME WireInv, NEW t \in Threads, Write(t)
  PROVE  WireInv'
<1>. USE DEF WireInv
<1>1. /\ pc[t] = "writing" /\ requests' = Append(requests, call[t])
      /\ pc' = [pc EXCEPT ![t] = "reading"]
      /\ UNCHANGED <<lock, closed, next, call, result, replies, serveVars>>
  BY DEF Write
<1>2. lock = t /\ t # None /\ ~closed /\ call[t].id = next /\ last < next /\ ~Awaited
  BY <1>1, WireAssumption DEF Locked, Awaited
<1>3. /\ requests = <<>> /\ replies = <<>> /\ server \notin {"dispatching", "replying"}
      /\ requests' = <<call[t]>> /\ Head(requests') = call[t]
  BY <1>1, <1>2, Single DEF Exchanged
<1>4. Kinds'
  BY <1>1, <1>3 DEF Kinds, serveVars
<1>5. /\ \A u \in Threads \ {t} : pc'[u] = pc[u]
      /\ pc'[t] = "reading" /\ Awaited'
  BY <1>1, <1>2 DEF Kinds, Awaited
<1>6. Locked'
  BY <1>1, <1>2, <1>5 DEF Locked, serveVars
<1>7. Exchanged'
  <2>1. call[t].id > last
    BY <1>2 DEF Kinds
  <2>2. QED
    BY <1>1, <1>2, <1>3, <1>5, <2>1 DEF Exchanged, serveVars
<1>8. Recorded'
  BY <1>1 DEF Recorded, Over, InOrderOnce, serveVars
<1>9. QED
  BY <1>4, <1>6, <1>7, <1>8

LEMMA WriteFailsKeeps ==
  ASSUME WireInv, NEW t \in Threads, WriteFails(t)
  PROVE  WireInv'
<1>. USE DEF WireInv
<1>1. /\ pc[t] = "writing" /\ closed' = TRUE /\ Return(t, "Offline")
      /\ UNCHANGED <<next, requests, replies, serveVars>>
  BY DEF WriteFails, Fails
<1>2. lock = t /\ ~closed /\ ~Awaited
  BY <1>1, WireAssumption DEF Locked, Awaited
<1>3. requests = <<>> /\ replies = <<>> /\ server \notin {"dispatching", "replying"}
  BY <1>2 DEF Exchanged
<1>4. QED
  BY <1>1, <1>2, <1>3, ReturnKeeps

LEMMA ReadKeeps ==
  ASSUME WireInv, NEW t \in Threads, Read(t)
  PROVE  WireInv' /\ Head(replies).id = call[t].id
<1>. USE DEF WireInv
<1>1. pc[t] = "reading" /\ replies # <<>> /\ replies' = Tail(replies)
  BY DEF Read
<1>2. lock = t
  BY <1>1 DEF Locked
<1>3. /\ Head(replies).id = call[t].id /\ requests = <<>>
      /\ server \notin {"dispatching", "replying"}
  BY <1>1, <1>2 DEF Exchanged
<1>4. /\ Return(t, Head(replies).result) /\ UNCHANGED <<closed, next, requests, serveVars>>
  BY <1>3 DEF Read
<1>5. replies' = <<>> /\ Head(replies).result \in Results
  BY <1>1, PipesHold DEF Answers
<1>6. Head(replies).result = "TimedOut" => Over
  BY <1>1 DEF Recorded
<1>7. WireInv'
  BY <1>2, <1>3, <1>4, <1>5, <1>6, ReturnKeeps DEF Kinds
<1>8. QED
  BY <1>3, <1>7

LEMMA ReadFailsKeeps ==
  ASSUME WireInv, NEW t \in Threads, ReadFails(t)
  PROVE  WireInv'
<1>. USE DEF WireInv
<1>1. /\ pc[t] = "reading" /\ replies = <<>> /\ server = "stopped"
      /\ closed' = TRUE /\ Return(t, "Offline")
      /\ UNCHANGED <<next, requests, replies, serveVars>>
  BY DEF ReadFails, Fails
<1>2. lock = t
  BY <1>1 DEF Locked
<1>3. QED
  BY <1>1, <1>2, ReturnKeeps

LEMMA ReadRequestKeeps ==
  ASSUME WireInv, ReadRequest
  PROVE  WireInv' /\ last' = Head(requests).id /\ server' = "dispatching"
<1>. USE DEF WireInv
<1>1. /\ server = "reading" /\ requests # <<>> /\ requests' = Tail(requests)
      /\ UNCHANGED <<clientVars, replies, outcome, executed>>
  BY DEF ReadRequest
<1>2. /\ Head(requests).id > last /\ Awaited /\ Head(requests) = call[lock]
      /\ replies = <<>> /\ requests' = <<>> /\ Head(requests) \in Frames
  BY <1>1, PipesHold DEF Exchanged
<1>3. last' = Head(requests).id /\ serving' = Head(requests) /\ server' = "dispatching"
  BY <1>2 DEF ReadRequest
<1>4. Kinds'
  BY <1>1, <1>2, <1>3 DEF Kinds, clientVars, Frames
<1>5. Locked'
  BY <1>1, <1>2, <1>3 DEF Kinds, Locked, Awaited, clientVars
<1>6. Exchanged'
  BY <1>1, <1>2, <1>3 DEF Exchanged, Awaited, clientVars
<1>7. Recorded'
  <2>1. \A i \in 1 .. Len(executed) : executed[i] < last'
    <3>1. \A i \in 1 .. Len(executed) : executed[i] <= last /\ executed[i] \in Nat
      BY ElementOfSeq DEF Recorded, Kinds
    <3>2. last \in Nat /\ last' \in Nat /\ last < last'
      BY <1>2, <1>3 DEF Kinds, Frames
    <3>3. QED
      BY <3>1, <3>2
  <2>2. \A i \in 1 .. Len(executed) : executed[i] \in Nat /\ last' \in Nat
    BY <1>4, ElementOfSeq DEF Kinds
  <2>3. outcome # "ok" /\ \A t \in Threads : result[t] # "TimedOut"
    BY <1>1, NoneIsNone DEF Exchanged, Recorded, Over
  <2>4. QED
    BY <1>1, <1>2, <1>3, <2>1, <2>2, <2>3 DEF Recorded, InOrderOnce, clientVars
<1>8. QED
  BY <1>3, <1>4, <1>5, <1>6, <1>7

\* dispatch ends, with its effect or without.
LEMMA AnswerKeeps ==
  ASSUME WireInv, server = "dispatching", server' = "replying", outcome' \in Results,
         executed' \in {executed, Append(executed, serving.id)},
         outcome' = "ok" => executed' = Append(executed, serving.id),
         UNCHANGED <<clientVars, requests, replies, last, serving>>
  PROVE  WireInv'
<1>. USE DEF WireInv
<1>1. Awaited /\ serving = call[lock] /\ serving.id = last /\ requests = <<>> /\ replies = <<>>
  BY DEF Exchanged
<1>2. executed \in Seq(Nat) /\ serving.id \in Nat /\ last \in Nat
  BY DEF Kinds, Frames
<1>3. Kinds'
  <2>1. executed' \in Seq(Nat)
    BY <1>2, Extended
  <2>2. QED
    BY <2>1 DEF Kinds, clientVars
<1>4. Locked'
  BY DEF Locked, clientVars
<1>5. Exchanged'
  BY <1>1, NoneIsNone DEF Exchanged, Awaited, clientVars
<1>6. Recorded'
  <2>1. \A i \in 1 .. Len(executed) : executed[i] < last /\ executed[i] \in Nat
    BY <1>2, ElementOfSeq DEF Recorded
  <2>2. InOrderOnce' /\ \A i \in 1 .. Len(executed') : executed'[i] <= last
    <3>1. CASE executed' = executed
      BY <2>1, <3>1, <1>2 DEF Recorded, InOrderOnce
    <3>2. CASE executed' = Append(executed, serving.id)
      <4>1. \A i \in 1 .. Len(executed) - 1 : executed'[i] < executed'[i + 1]
        BY <1>2, <3>2, Extended DEF Recorded, InOrderOnce
      <4>2. /\ Len(executed') = Len(executed) + 1 /\ Len(executed) \in Nat
            /\ executed'[Len(executed) + 1] = last
            /\ \A i \in 1 .. Len(executed) : executed'[i] = executed[i]
        BY <1>1, <1>2, <3>2, Extended
      <4>3. \A i \in 1 .. Len(executed') : executed'[i] <= last
        BY <1>2, <2>1, <4>2
      <4>4. \A i \in 1 .. Len(executed') - 1 : executed'[i] < executed'[i + 1]
        <5>1. TAKE i \in 1 .. Len(executed') - 1
        <5>2. CASE i = Len(executed)
          BY <1>2, <2>1, <4>2, <5>2
        <5>3. CASE i # Len(executed)
          BY <4>1, <4>2, <5>3
        <5>4. QED
          BY <5>2, <5>3
      <4>5. QED
        BY <4>3, <4>4 DEF InOrderOnce
    <3>3. QED
      BY <3>1, <3>2
  <2>3. outcome' = "ok" => Contains(executed', serving.id)
    BY <1>2, Extended
  <2>4. \A t \in Threads : result[t] # "TimedOut"
    BY DEF Recorded, Over
  <2>5. QED
    BY <1>1, <2>2, <2>3, <2>4 DEF Recorded, clientVars
<1>7. QED
  BY <1>3, <1>4, <1>5, <1>6

LEMMA ReplyKeeps ==
  ASSUME WireInv, Reply
  PROVE  WireInv'
<1>. USE DEF WireInv
<1>1. /\ server = "replying" /\ replies' = Append(replies, [id |-> serving.id, result |-> outcome])
      /\ server' = IF outcome = "TimedOut" THEN "retired" ELSE "reading"
      /\ outcome' = None /\ serving' = NoCall
      /\ UNCHANGED <<clientVars, requests, last, executed>>
  BY DEF Reply
<1>2. /\ Awaited /\ serving = call[lock] /\ requests = <<>> /\ replies = <<>>
      /\ outcome \in Results
  BY <1>1 DEF Exchanged, Kinds
<1>0. NoCall \in Frames
  BY DEF NoCall, Frames
<1>. DEFINE a == [id |-> serving.id, result |-> outcome]
<1>3. replies' = <<a>> /\ Head(replies') = a /\ a \in Answers
  BY <1>1, <1>2, Single DEF Answers, Kinds, Frames
<1>4. Kinds'
  BY <1>0, <1>1, <1>3 DEF Kinds, clientVars
<1>5. Locked'
  BY <1>1 DEF Locked, clientVars
<1>6. Exchanged'
  BY <1>1, <1>2, <1>3 DEF Exchanged, Awaited, clientVars
<1>7. Recorded'
  <2>1. \A t \in Threads : result[t] # "TimedOut"
    BY <1>1 DEF Recorded, Over
  <2>2. replies' # <<>> =>
          /\ Head(replies').result = "ok" => Contains(executed', Head(replies').id)
          /\ Head(replies').result = "TimedOut" => Over'
    BY <1>1, <1>3 DEF Recorded, Over
  <2>3. QED
    BY <1>1, <2>1, <2>2, NoneIsNone DEF Recorded, InOrderOnce, clientVars
<1>8. QED
  BY <1>4, <1>5, <1>6, <1>7

LEMMA PipeFailsKeeps ==
  ASSUME WireInv, PipeFails
  PROVE  WireInv'
<1>. USE DEF WireInv
<1>1. /\ server \in {"reading", "replying"} /\ server' = "retired"
      /\ outcome' = None /\ serving' = NoCall
      /\ UNCHANGED <<clientVars, requests, replies, last, executed>>
  BY DEF PipeFails
<1>2. Kinds' /\ Locked'
  BY <1>1 DEF Kinds, Locked, clientVars, NoCall, Frames
<1>3. Exchanged'
  BY <1>1 DEF Exchanged, Awaited, clientVars
<1>4. Recorded'
  BY <1>1, NoneIsNone DEF Recorded, Over, InOrderOnce, clientVars
<1>5. QED
  BY <1>2, <1>3, <1>4

LEMMA RetireKeeps ==
  ASSUME WireInv, Retire
  PROVE  WireInv'
<1>. USE DEF WireInv
<1>1. /\ server \in {"retired", "closing"} /\ server' \in {"closing", "stopped"}
      /\ UNCHANGED <<clientVars, requests, replies, last, serving, outcome, executed>>
  BY DEF Retire
<1>2. Kinds' /\ Locked'
  BY <1>1 DEF Kinds, Locked, clientVars
<1>3. Exchanged'
  BY <1>1 DEF Exchanged, Awaited, clientVars
<1>4. Recorded'
  BY <1>1 DEF Recorded, Over, InOrderOnce, clientVars
<1>5. QED
  BY <1>2, <1>3, <1>4

LEMMA DispatchKeeps ==
  ASSUME WireInv, Dispatch
  PROVE  WireInv'
<1>1. outcome' \in {"ok", "error"} /\ (outcome' = "ok" => executed' = Append(executed, serving.id))
  BY DEF Dispatch
<1>2. QED
  BY <1>1, AnswerKeeps DEF Dispatch, Results

LEMMA TimesOutKeeps ==
  ASSUME WireInv, DispatchTimesOut
  PROVE  WireInv'
BY AnswerKeeps DEF DispatchTimesOut, Results

LEMMA WireInvNext == WireInv /\ [Next]_vars => WireInv'
<1>. SUFFICES ASSUME WireInv, [Next]_vars PROVE WireInv'
  OBVIOUS
<1>1. ASSUME NEW t \in Threads, NEW o \in Operations, Call(t, o) PROVE WireInv'
  BY <1>1, CallKeeps
<1>2. ASSUME NEW t \in Threads, ClientStep(t) PROVE WireInv'
  BY <1>2, AcquireKeeps, RefuseKeeps, WriteKeeps, WriteFailsKeeps, ReadKeeps, ReadFailsKeeps
  DEF ClientStep
<1>3. CASE ServerStep
  BY <1>3, ReadRequestKeeps, DispatchKeeps, TimesOutKeeps, ReplyKeeps, RetireKeeps DEF ServerStep
<1>4. CASE PipeFails
  BY <1>4, PipeFailsKeeps
<1>5. CASE UNCHANGED vars
  <2>1. UNCHANGED <<lock, closed, next, pc, call, result, requests, replies,
                    server, last, serving, outcome, executed>>
    BY <1>5 DEF vars, clientVars, serveVars
  <2>2. Kinds' /\ Locked' /\ Exchanged'
    BY <2>1 DEF WireInv, Kinds, Locked, Exchanged, Awaited
  <2>3. Recorded'
    BY <2>1 DEF WireInv, Recorded, InOrderOnce, Over
  <2>4. QED
    BY <2>2, <2>3 DEF WireInv
<1>6. QED
  BY <1>1, <1>2, <1>3, <1>4, <1>5 DEF Next

\* The invariant of the exchange between Client::call and Server::serve holds.
THEOREM WireInvAlways == Spec => []WireInv
<1>1. QED
  BY WireInvInit, WireInvNext, PTL DEF Spec

(***************************************************************************)
(* Theorems.                                                               *)
(***************************************************************************)
\* The reply a thread reads is the one to its request, and the server meets no
\* identity out of sequence (Client::call, Server::serve), for any number of
\* threads.
THEOREM FramesAlwaysMatch == Spec => []FramesMatch
<1>1. WireInv => FramesMatch
  BY NoneIsNone DEF WireInv, Locked, Exchanged, FramesMatch
<1>2. QED
  BY <1>1, WireInvAlways, PTL

\* The provider acts at most once on a request, and in the order of the calls
\* (Server::serve), for any number of threads and calls.
THEOREM AlwaysInOrderOnce == Spec => []InOrderOnce
<1>1. WireInv => InOrderOnce
  BY DEF WireInv, Recorded
<1>2. QED
  BY <1>1, WireInvAlways, PTL

\* A call returns success only for what the provider has done.
THEOREM SuccessAlwaysReal == Spec => SuccessIsReal
<1>. DEFINE Real == \A t \in Threads :
              result'[t] = "ok" /\ pc[t] = "reading" /\ pc'[t] = "idle"
                => Contains(executed, call[t].id)
<1>1. WireInv /\ [Next]_vars => [Real]_vars
  <2>. SUFFICES ASSUME WireInv, Next, NEW t \in Threads,
                       result'[t] = "ok", pc[t] = "reading", pc'[t] = "idle"
                PROVE  Contains(executed, call[t].id)
    OBVIOUS
  <2>1. pc' # pc
    OBVIOUS
  <2>2. PICK u \in Threads : (\E o \in Operations : Call(u, o)) \/ ClientStep(u)
    BY <2>1 DEF Next, ServerStep, ReadRequest, Dispatch, DispatchTimesOut, Reply, Retire,
                PipeFails, clientVars
  <2>3. lock = t /\ lock # None
    BY NoneIsNone DEF WireInv, Locked
  <2>4. Read(u) \/ ReadFails(u)
    <3>1. ASSUME NEW w \in {"waiting", "reading"}, pc' = [pc EXCEPT ![u] = w]
          PROVE  FALSE
      BY <3>1 DEF WireInv, Kinds
    <3>2. ~Write(u) /\ ~\E o \in Operations : Call(u, o)
      BY <3>1 DEF Write, Call
    <3>3. ~WriteFails(u)
      BY <2>3 DEF WireInv, Locked, WriteFails
    <3>4. ~Acquire(u) /\ ~Refuse(u)
      BY <2>3 DEF Acquire, Refuse
    <3>5. QED
      BY <2>2, <3>2, <3>3, <3>4 DEF ClientStep
  <2>5. u = t
    BY <2>3, <2>4 DEF WireInv, Locked, Read, ReadFails
  <2>6. Read(t)
    BY <2>4, <2>5 DEF ReadFails, Fails, Return, WireInv, Kinds
  <2>7. Head(replies).id = call[t].id /\ replies # <<>>
    BY <2>6, ReadKeeps DEF Read
  <2>8. Return(t, Head(replies).result)
    BY <2>6, <2>7 DEF Read
  <2>9. Head(replies).result = "ok"
    BY <2>8 DEF Return, WireInv, Kinds
  <2>10. QED
    BY <2>7, <2>9 DEF WireInv, Recorded
<1>2. QED
  BY <1>1, WireInvAlways, PTL DEF Spec, SuccessIsReal

\* Once a timeout has been decided nothing is acted on (Server::serve retires).
THEOREM TimedOutAlwaysLast == Spec => TimedOutIsLast
<1>. DEFINE Told == \/ outcome = "TimedOut"
                    \/ \E i \in DOMAIN replies : replies[i].result = "TimedOut"
                    \/ \E t \in Threads : result[t] = "TimedOut"
<1>1. WireInv /\ Told => server # "dispatching"
  <2>1. ASSUME WireInv, NEW i \in DOMAIN replies, replies[i].result = "TimedOut"
        PROVE  server # "dispatching"
    <3>1. replies # <<>>
      BY <2>1
    <3>2. QED
      BY <3>1, <2>1 DEF WireInv, Exchanged
  <2>2. QED
    BY <2>1, NoneIsNone DEF WireInv, Exchanged, Recorded, Over
<1>2. WireInv /\ [Next]_vars => [Told => executed' = executed]_vars
  <2>. SUFFICES ASSUME WireInv, Next, Told PROVE executed' = executed
    OBVIOUS
  <2>1. server # "dispatching"
    BY <1>1
  <2>2. QED
    BY <2>1 DEF Next, ClientStep, ServerStep, Call, Acquire, Refuse, Write, WriteFails, Read,
                ReadFails, Fails, ReadRequest, Dispatch, DispatchTimesOut, Reply, Retire,
                PipeFails, serveVars
<1>3. QED
  BY <1>2, WireInvAlways, PTL DEF Spec, TimedOutIsLast
==============================================================================
