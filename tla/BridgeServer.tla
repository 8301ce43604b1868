---------------------------- MODULE BridgeServer ----------------------------
(***************************************************************************)
(* The desktop's end of the pipes: Server::dispatch, Server::close and the *)
(* end of Server::serve (vendor/filesystem-sdk/src/wire.rs), with the      *)
(* BridgeControl they act on.  The provider behind it answers anything: a  *)
(* request succeeds, fails, or runs into the deadline.                     *)
(*                                                                         *)
(* A request is known by its method.  The handle it names, or the one an   *)
(* open will be given, is an argument: identities are never reused, and    *)
(* only one exchange is open, so the caller's current handle stands for it.*)
(* The action of a mount conjoins what it leaves unchanged itself.         *)
(***************************************************************************)
EXTENDS BridgeControl, Channel

VARIABLE
  remote      (* the keys of Server.files and Server.directories           *)

serverVars == <<remote, controlVars, channelVars>>

Opens    == {"Open", "OpenDirectory"}
Closes   == {"Close", "CloseDirectory"}
\* Requests that leave the tables and the control alone.  "Use" stands for
\* those on one path or handle: Read, Write, Flush, SetMetadata, Rename, ...
Neutral  == {"Capabilities", "Metadata", "Use", "Mkdir", "Remove",
             "ReadDirectory"}
FileRequests == Opens \cup Closes \cup Neutral
Requests == FileRequests \cup {"Poll"} \cup Events
Results  == {"ok", "error", "TimedOut", "Continue", "Detach"}

ServerInit ==
  /\ ControlInit
  /\ ChannelInit
  /\ remote = {}

\* Fault: a handle that the provider fails to close stays in the table.
TablesKeepUnclosed(handle, succeeds) ==
  remote' = CASE request \in Opens /\ succeeds  -> remote \cup {handle}
              [] request \in Closes /\ succeeds -> remote \ {handle}
              [] OTHER                          -> remote

(***************************************************************************)
(* What dispatch does to the tables: an opened handle enters only after    *)
(* the provider succeeds, a closed one leaves before the provider is asked.*)
(***************************************************************************)
Tables(handle, succeeds) ==
  remote' = CASE request \in Opens /\ succeeds -> remote \cup {handle}
              [] request \in Closes            -> remote \ {handle}
              [] OTHER                         -> remote

DispatchFile(handle, succeeds) ==
  /\ request \in FileRequests
  /\ Answer(IF succeeds THEN "ok" ELSE "error")
  /\ Tables(handle, succeeds)
  /\ UNCHANGED controlVars

\* The deadline cancels the dispatch; the provider may or may not have acted.
DispatchTimedOut(handle) ==
  /\ request \in FileRequests
  /\ AnswerTimedOut
  /\ Tables(handle, FALSE)
  /\ UNCHANGED controlVars

\* Poll fails without taking the directive when the provider is unavailable
\* (check_available); a retired attachment makes it fail as well.
DispatchPoll ==
  /\ request = "Poll"
  /\ \/ Answer(Directive) /\ TakeDirective
     \/ Answer("error") /\ UNCHANGED controlVars
  /\ UNCHANGED remote

DispatchReport ==
  /\ request \in Events
  /\ IF Accepts(request)
       THEN Answer("ok") /\ Report(request)
       ELSE Answer("error") /\ UNCHANGED controlVars
  /\ UNCHANGED remote

Dispatch(handle) ==
  \/ \E succeeds \in BOOLEAN : DispatchFile(handle, succeeds)
  \/ DispatchTimedOut(handle)
  \/ DispatchPoll
  \/ DispatchReport

PipeBreaks ==
  /\ Break
  /\ UNCHANGED <<remote, controlVars>>

\* Fault: the handles are not taken out of the tables and closed.
ServerRetiresKeeping ==
  /\ Retire
  /\ Fail
  /\ UNCHANGED remote

\* serve has failed: control.fail, and close() empties the tables.
ServerRetires ==
  /\ Retire
  /\ Fail
  /\ remote' = {}

ServerStops ==
  /\ Stop
  /\ UNCHANGED <<remote, controlVars>>
=============================================================================
