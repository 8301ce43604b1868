------------------------------- MODULE Channel -------------------------------
(***************************************************************************)
(* What a request/reply exchange over the inherited pipes promises to the  *)
(* code above it.  At most one exchange is open at a time, whichever       *)
(* thread starts it; the server answers each request at most once; a       *)
(* request that ran into the server's deadline is answered and nothing     *)
(* after it is; and once an exchange has failed every later call fails     *)
(* without being sent.                                                     *)
(*                                                                         *)
(* Wire implements it (as ChannelSpec).  The mounts extend it through      *)
(* BridgeServer, which conjoins to Answer what a request does.             *)
(***************************************************************************)
CONSTANT
  None        (* no thread, no request, no reply                           *)

VARIABLES
  caller,     (* the thread between its request and its reply, or None     *)
  request,    (* the operation that waits for the server, or None          *)
  reply,      (* the result that waits for the caller, or None             *)
  closed,     (* the client refuses further calls                          *)
  server      (* "serving", then "retired", "closing" and "stopped"        *)

channelVars == <<caller, request, reply, closed, server>>

ServerStates == {"serving", "retired", "closing", "stopped"}

ChannelInit ==
  /\ caller = None
  /\ request = None
  /\ reply = None
  /\ closed = FALSE
  /\ server = "serving"

(***************************************************************************)
(* The client side of Client::call.                                        *)
(***************************************************************************)

\* The mutex is free, the transport is not retired, the request is written.
Send(thread, operation) ==
  /\ caller = None
  /\ ~closed
  /\ caller' = thread
  /\ request' = operation
  /\ reply' = None
  /\ UNCHANGED <<closed, server>>

Receive(thread, result) ==
  /\ caller = thread
  /\ result # None
  /\ reply = result
  /\ caller' = None
  /\ reply' = None
  /\ UNCHANGED <<request, closed, server>>

\* The pipes are gone before a reply: the transport is retired for good.
Lose(thread) ==
  /\ caller = thread
  /\ reply = None
  /\ server = "stopped"
  /\ caller' = None
  /\ request' = None
  /\ closed' = TRUE
  /\ UNCHANGED <<reply, server>>

\* The request is not written: the pipe is gone, or the frame would exceed its
\* bound.  Either retires the transport, although nothing was sent.
CannotWrite ==
  /\ caller = None
  /\ ~closed
  /\ closed' = TRUE
  /\ UNCHANGED <<caller, request, reply, server>>

\* A call on a retired transport returns Offline without writing anything.
Refused ==
  /\ closed
  /\ caller = None
  /\ UNCHANGED channelVars

\* The ways in which a call of the mounts comes back with this result.  Their
\* requests are paths, names and chunks, far below the bound of a frame.
Returns(thread, result) ==
  \/ Receive(thread, result)
  \/ /\ result = "Offline"
     /\ \/ Lose(thread)
        \/ Refused
        \/ server = "stopped" /\ CannotWrite

(***************************************************************************)
(* The server side, Server::serve.                                         *)
(***************************************************************************)

Answer(result) ==
  /\ server = "serving"
  /\ request # None
  /\ reply' = result
  /\ request' = None
  /\ UNCHANGED <<caller, closed, server>>

\* Fault: the request is dropped without an answer, and serving goes on.
TimeOutSilently ==
  /\ server = "serving"
  /\ request # None
  /\ request' = None
  /\ UNCHANGED <<caller, reply, closed, server>>

\* The deadline passed: the caller is told, and this is the last answer.
AnswerTimedOut ==
  /\ server = "serving"
  /\ request # None
  /\ reply' = "TimedOut"
  /\ request' = None
  /\ server' = "retired"
  /\ UNCHANGED <<caller, closed>>

\* A pipe error ends the loop.  A reply may be lost with it, and a request
\* that was not read stays unread.
Break ==
  /\ server \in {"serving", "retired"}
  /\ server' = "retired"
  /\ request' \in {request, None}
  /\ reply' \in {reply, None}
  /\ UNCHANGED <<caller, closed>>

\* control.fail, then the handles are taken out of the tables ...
Retire ==
  /\ server = "retired"
  /\ server' = "closing"
  /\ UNCHANGED <<caller, request, reply, closed>>

\* ... and closed within one deadline, after which the pipe ends are dropped.
Stop ==
  /\ server = "closing"
  /\ server' = "stopped"
  /\ UNCHANGED <<caller, request, reply, closed>>
==============================================================================
