-------------------------------- MODULE Wire --------------------------------
(***************************************************************************)
(* The exchange over the inherited pipes (vendor/filesystem-sdk/src/wire.rs*)
(* Client::call and Server::serve), with its frames, identities and locks. *)
(*                                                                         *)
(* A frame is a record; how it is encoded is left out, except that a frame *)
(* may exceed its bound, which the sender finds out before writing it.  A  *)
(* pipe that breaks within a frame reads as one that ended before it.      *)
(***************************************************************************)
EXTENDS Naturals, Sequences, SequencesExt

CONSTANTS
  Threads,      (* threads that call the one client                        *)
  Operations,   (* requests                                                *)
  Oversized,    (* those whose frame exceeds MAX_FRAME                     *)
  MaxId,        (* bound: calls that are made                              *)
  None

ASSUME WireAssumption ==
  /\ Oversized \subseteq Operations
  /\ None \notin Threads \cup Operations \cup {"ok", "error", "TimedOut"}
  /\ MaxId \in Nat

VARIABLES
  lock,         (* the holder of Client.io, or None                        *)
  closed,       (* Client.io.2                                             *)
  next,         (* Client.next                                             *)
  pc,           (* per thread: "idle", "waiting", "writing" or "reading"   *)
  call,         (* per thread: its operation and, once it has one, its id  *)
  result,       (* per thread: what its last call returned                 *)
  requests,     (* frames in the pipe to the server                        *)
  replies,      (* frames in the pipe to the client                        *)
  server,       (* where serve is                                          *)
  last,         (* serve: the last identity it accepted                    *)
  serving,      (* serve: the request it works on                          *)
  outcome,      (* serve: the result it is about to reply, or None         *)
  executed      (* history: the identities the provider acted on, in order *)

clientVars == <<lock, closed, next, pc, call, result>>
serveVars  == <<server, last, serving, outcome, executed>>
vars       == <<clientVars, requests, replies, serveVars>>

Results == {"ok", "error", "TimedOut"}
NoCall  == [id |-> 0, operation |-> None]
Calls   == [id : 0 .. MaxId, operation : Operations \cup {None}]

TypeOK ==
  /\ lock \in Threads \cup {None}
  /\ closed \in BOOLEAN
  /\ next \in 0 .. MaxId
  /\ pc \in [Threads -> {"idle", "waiting", "writing", "reading"}]
  /\ call \in [Threads -> Calls]
  /\ result \in [Threads -> Results \cup {"none", "Offline"}]
  /\ requests \in Seq(Calls)
  /\ replies \in Seq([id : 0 .. MaxId, result : Results])
  /\ server \in {"reading", "dispatching", "replying", "retired", "closing",
                 "stopped"}
  /\ last \in 0 .. MaxId
  /\ serving \in Calls
  /\ outcome \in Results \cup {None}
  /\ executed \in Seq(0 .. MaxId)

Init ==
  /\ lock = None
  /\ closed = FALSE
  /\ next = 0
  /\ pc = [t \in Threads |-> "idle"]
  /\ call = [t \in Threads |-> NoCall]
  /\ result = [t \in Threads |-> "none"]
  /\ requests = <<>>
  /\ replies = <<>>
  /\ server = "reading"
  /\ last = 0
  /\ serving = NoCall
  /\ outcome = None
  /\ executed = <<>>

(***************************************************************************)
(* Client::call.                                                           *)
(***************************************************************************)
Call(t, operation) ==
  /\ pc[t] = "idle"
  /\ pc' = [pc EXCEPT ![t] = "waiting"]
  /\ call' = [call EXCEPT ![t] = [id |-> 0, operation |-> operation]]
  /\ UNCHANGED <<lock, closed, next, result, requests, replies, serveVars>>

\* The call returns r and, with the guard going out of scope, frees the lock.
Return(t, r) ==
  /\ pc' = [pc EXCEPT ![t] = "idle"]
  /\ call' = [call EXCEPT ![t] = NoCall]
  /\ result' = [result EXCEPT ![t] = r]
  /\ lock' = None

\* Under the lock: the transport is open and the call gets its identity.
Acquire(t) ==
  /\ pc[t] = "waiting"
  /\ lock = None
  /\ ~closed
  /\ next < MaxId
  /\ lock' = t
  /\ next' = next + 1
  /\ call' = [call EXCEPT ![t].id = next + 1]
  /\ pc' = [pc EXCEPT ![t] = "writing"]
  /\ UNCHANGED <<closed, result, requests, replies, serveVars>>

Refuse(t) ==
  /\ pc[t] = "waiting"
  /\ lock = None
  /\ closed
  /\ Return(t, "Offline")
  /\ UNCHANGED <<closed, next, requests, replies, serveVars>>

\* Fault: the lock covers the request but not its reply.
WriteAndUnlock(t) ==
  /\ pc[t] = "writing"
  /\ call[t].operation \notin Oversized
  /\ server # "stopped"
  /\ requests' = Append(requests, call[t])
  /\ pc' = [pc EXCEPT ![t] = "reading"]
  /\ lock' = None
  /\ UNCHANGED <<closed, next, call, result, replies, serveVars>>

Write(t) ==
  /\ pc[t] = "writing"
  /\ call[t].operation \notin Oversized
  /\ server # "stopped"
  /\ requests' = Append(requests, call[t])
  /\ pc' = [pc EXCEPT ![t] = "reading"]
  /\ UNCHANGED <<lock, closed, next, call, result, replies, serveVars>>

\* Fault: a failed exchange leaves the transport open.
FailsOpen(t) ==
  /\ Return(t, "Offline")
  /\ UNCHANGED <<closed, next, requests, serveVars>>

\* Any error of the exchange retires the transport.
Fails(t) ==
  /\ closed' = TRUE
  /\ Return(t, "Offline")
  /\ UNCHANGED <<next, requests, serveVars>>

WriteFails(t) ==
  /\ pc[t] = "writing"
  /\ call[t].operation \in Oversized \/ server = "stopped"
  /\ Fails(t)
  /\ UNCHANGED replies

Read(t) ==
  /\ pc[t] = "reading"
  /\ replies # <<>>
  /\ replies' = Tail(replies)
  /\ IF Head(replies).id = call[t].id
       THEN /\ Return(t, Head(replies).result)
            /\ UNCHANGED <<closed, next, requests, serveVars>>
       ELSE Fails(t)

ReadFails(t) ==
  /\ pc[t] = "reading"
  /\ replies = <<>>
  /\ server = "stopped"
  /\ Fails(t)
  /\ UNCHANGED replies

(***************************************************************************)
(* Server::serve.                                                          *)
(***************************************************************************)
ReadRequest ==
  /\ server = "reading"
  /\ requests # <<>>
  /\ requests' = Tail(requests)
  /\ IF Head(requests).id > last
       THEN /\ last' = Head(requests).id
            /\ serving' = Head(requests)
            /\ server' = "dispatching"
       ELSE /\ server' = "retired"
            /\ UNCHANGED <<last, serving>>
  /\ UNCHANGED <<clientVars, replies, outcome, executed>>

\* dispatch returns; what it did is one entry of the history.  An error may
\* be that of an operation that took effect.
Dispatch ==
  /\ server = "dispatching"
  /\ outcome' \in {"ok", "error"}
  /\ executed' \in {Append(executed, serving.id)}
                     \cup IF outcome' = "error" THEN {executed} ELSE {}
  /\ server' = "replying"
  /\ UNCHANGED <<clientVars, requests, replies, last, serving>>

\* Faults: what ran into the deadline is tried again; it counts as done.
DispatchRetries ==
  /\ server = "dispatching"
  /\ executed' = Append(executed, serving.id)
  /\ Len(executed) < MaxId
  /\ UNCHANGED <<clientVars, requests, replies, server, last, serving, outcome>>
DispatchPresumesDone ==
  /\ server = "dispatching"
  /\ outcome' = "ok"
  /\ server' = "replying"
  /\ UNCHANGED <<clientVars, requests, replies, last, serving, executed>>

\* The deadline cancels dispatch, before or after its effect.
DispatchTimesOut ==
  /\ server = "dispatching"
  /\ outcome' = "TimedOut"
  /\ executed' \in {executed, Append(executed, serving.id)}
  /\ server' = "replying"
  /\ UNCHANGED <<clientVars, requests, replies, last, serving>>

\* Fault: serving goes on after a timeout.
ReplyAndGoOn ==
  /\ server = "replying"
  /\ replies' = Append(replies, [id |-> serving.id, result |-> outcome])
  /\ server' = "reading"
  /\ outcome' = None
  /\ serving' = NoCall
  /\ UNCHANGED <<clientVars, requests, last, executed>>

Reply ==
  /\ server = "replying"
  /\ replies' = Append(replies, [id |-> serving.id, result |-> outcome])
  /\ server' = IF outcome = "TimedOut" THEN "retired" ELSE "reading"
  /\ outcome' = None
  /\ serving' = NoCall
  /\ UNCHANGED <<clientVars, requests, last, executed>>

\* The pipe fails while serve reads or replies; a reply that is too large or
\* that the client does not take in time is lost in the same way.
PipeFails ==
  /\ server \in {"reading", "replying"}
  /\ server' = "retired"
  /\ outcome' = None
  /\ serving' = NoCall
  /\ UNCHANGED <<clientVars, requests, replies, last, executed>>

\* Fault: closing waits for every handle, without a deadline.
RetireUnbounded ==
  /\ server = "retired"
  /\ server' = "closing"
  /\ UNCHANGED <<clientVars, requests, replies, last, serving, outcome, executed>>

\* control.fail and close(); dropping the pipe ends is the last thing.
Retire ==
  /\ server \in {"retired", "closing"}
  /\ server' = IF server = "retired" THEN "closing" ELSE "stopped"
  /\ UNCHANGED <<clientVars, requests, replies, last, serving, outcome, executed>>

ClientStep(t) ==
  Acquire(t) \/ Refuse(t) \/ Write(t) \/ WriteFails(t) \/ Read(t) \/ ReadFails(t)

ServerStep ==
  ReadRequest \/ Dispatch \/ DispatchTimesOut \/ Reply \/ Retire

Next ==
  \/ \E t \in Threads :
       \/ \E o \in Operations : Call(t, o)
       \/ ClientStep(t)
  \/ ServerStep
  \/ PipeFails

Spec == Init /\ [][Next]_vars

\* A thread that holds the lock runs, and so does the server, whose every
\* wait on the provider or the pipe has a deadline.
FairSpec ==
  /\ Spec
  /\ \A t \in Threads : WF_vars(ClientStep(t))
  /\ WF_vars(ServerStep)

(***************************************************************************)
(* Properties.                                                             *)
(***************************************************************************)
\* Neither end refuses a frame of the other: the reply a thread reads is the
\* one to its own request, whichever threads called before it, and the server
\* meets no identity out of sequence.
FramesMatch ==
  /\ \A t \in Threads :
       pc[t] = "reading" /\ replies # <<>> => Head(replies).id = call[t].id
  /\ requests # <<>> => Head(requests).id > last

\* The provider acts on each request at most once and in the order of the
\* identities, which is the order in which the threads took the lock.
InOrderOnce ==
  \A i \in 1 .. Len(executed) - 1 : executed[i] < executed[i + 1]

\* A call that succeeds was acted on before it returned.
SuccessIsReal ==
  [][\A t \in Threads :
       result'[t] = "ok" /\ pc[t] = "reading" /\ pc'[t] = "idle"
         => Contains(executed, call[t].id)]_vars

\* After a timeout has been answered nothing is acted on any more, although
\* other threads keep calling.
TimedOutIsLast ==
  [][(\/ outcome = "TimedOut"
      \/ \E i \in DOMAIN replies : replies[i].result = "TimedOut"
      \/ \E t \in Threads : result[t] = "TimedOut")
       => executed' = executed]_vars

\* The exchange implements Channel: the caller is the thread that has written
\* its request; a reply counts from the moment it has been decided.
Caller == IF lock # None /\ pc[lock] = "reading" THEN lock ELSE None
Asked ==
  IF requests # <<>> /\ Caller # None THEN Head(requests).operation
  ELSE IF server = "dispatching" THEN serving.operation
  ELSE None
Decided == IF replies # <<>> THEN Head(replies).result ELSE outcome
Serving ==
  IF server \in {"retired", "closing", "stopped"} THEN server
  ELSE IF outcome = "TimedOut" THEN "retired"
  ELSE "serving"

Channel == INSTANCE ChannelSpec WITH
  caller <- Caller, request <- Asked, reply <- Decided, server <- Serving

ImplementsChannel == Channel!Spec

\* Whoever holds the client's lock gives it back, whatever the server does:
\* no callback hangs on the pipe.
LockReturned ==
  \A t \in Threads : lock = t ~> lock # t
=============================================================================
