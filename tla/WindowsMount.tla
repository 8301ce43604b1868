---------------------------- MODULE WindowsMount ----------------------------
(***************************************************************************)
(* The Windows attachment process (src/main.rs, src/windows.rs and         *)
(* src/mount_gate.rs) with the server it talks to over the pipes.          *)
(*                                                                         *)
(* Three actors run concurrently.  The dispatcher runs WinFsp callbacks,   *)
(* one at a time under WinFsp's coarse guard; the lifecycle thread polls   *)
(* for a detach request and tears the mount down; the server answers the   *)
(* one exchange that is open on the pipes.                                 *)
(*                                                                         *)
(* A callback is the program counter `step' on the context `current'.      *)
(* Steps in Exchange make one call on the pipe: while caller = Dispatcher  *)
(* the call is in flight, otherwise it is about to be made.  File contents,*)
(* paths and metadata are abstracted away; who holds which local guard and *)
(* which remote handle is not.                                             *)
(***************************************************************************)
EXTENDS BridgeServer, FiniteSets, Integers

CONSTANTS
  Contexts,     (* slots for the FileContexts that WinFsp holds at a time  *)
  Dispatcher,   (* the thread of the callbacks                             *)
  Lifecycle     (* the thread of run()                                     *)

VARIABLES
  handles,      (* MountGate State.handles                                 *)
  detaching,    (* MountGate State.detaching                               *)
  guard,        (* the contexts whose OpenGuard has not been dropped       *)
  kind,         (* what was opened in each slot, "none" if it is free      *)
  held,         (* the remote handles the contexts hold                    *)
  step,         (* the step of the callback that runs, or "idle"           *)
  current,      (* its context                                             *)
  host,         (* the WinFsp host                                         *)
  life          (* the step of run()                                       *)

gateVars     == <<handles, detaching, guard>>
contextVars  == <<kind, held>>
callbackVars == <<step, current>>
runVars      == <<host, life>>
mountVars    == <<gateVars, contextVars, callbackVars, runVars>>
vars         == <<mountVars, serverVars>>

(***************************************************************************)
(* Kinds of contexts.  A file opened for metadata only has no remote       *)
(* handle; a directory opened for browsing only does not block a detach.   *)
(***************************************************************************)
Kinds == {"file", "pathOnly", "mutator", "passive"}

BlocksDetach(k) == k # "passive"

\* The remote handles of a context: its file, its directory scan, and the scan
\* set_delete makes to see whether a directory is empty.
Handles      == Contexts \X {"file", "scan", "probe"}
RemoteFiles  == {h \in remote : h[2] = "file"}

(***************************************************************************)
(* The request each step of a callback makes.  Calls in a row that leave   *)
(* handles and guards alone, like the chunks of a read, are one step.      *)
(***************************************************************************)
Exchange ==
  [ stat       |-> "Metadata",       \* open: the entry's metadata
    open       |-> "Open",           \* open: a handle of its own
    mkdir      |-> "Mkdir",          \* create: a directory
    createFile |-> "Open",           \* create: a file
    describe   |-> "Metadata",       \* create: the new entry's metadata
    warnCreate |-> "Warning",
    closeFile  |-> "Close",          \* dropping the context
    warnFile   |-> "Warning",
    closeScan  |-> "CloseDirectory",
    warnScan   |-> "Warning",
    use        |-> "Use",            \* read, write, flush, rename, set_*, get_*
    inspect    |-> "Use",            \* get_security_by_name, get_volume_info
    remove     |-> "Remove",         \* cleanup with the delete flag
    warnRemove |-> "Warning",
    rewind     |-> "CloseDirectory", \* read_directory: seek elsewhere
    scan       |-> "OpenDirectory",
    list       |-> "ReadDirectory",
    probe      |-> "OpenDirectory",  \* set_delete on a directory
    probeList  |-> "ReadDirectory",
    probeClose |-> "CloseDirectory" ]

CallSteps == DOMAIN Exchange
Steps     == CallSteps \cup {"idle", "release"}

\* The remote handle that each step opens, takes or uses.
HandleAt ==
  <<current, CASE step \in {"open", "createFile", "closeFile"} -> "file"
               [] step \in {"probe", "probeList", "probeClose"} -> "probe"
               [] OTHER -> "scan">>

Hosts == {"down", "up", "unmounted", "stopping", "stopped"}
Lives == {"negotiate", "mount", "ready", "poll", "gate", "unmount", "reportDetached",
          "reportBusy", "lost", "success", "failure"}

LifeExchange ==
  [ negotiate      |-> "Capabilities",
    ready          |-> "Ready",
    poll           |-> "Poll",
    reportDetached |-> "Detached",
    reportBusy     |-> "DetachFailed" ]

Threads == {Dispatcher, Lifecycle}

ASSUME DistinctAssumption ==
  /\ IsFiniteSet(Contexts)
  /\ Dispatcher # Lifecycle
  /\ None \notin Requests \cup Results \cup Threads \cup Contexts
  /\ Contexts # {}

TypeOK ==
  /\ ControlTypeOK
  /\ caller \in Threads \cup {None}
  /\ request \in Requests \cup {None}
  /\ reply \in Results \cup {None}
  /\ closed \in BOOLEAN
  /\ server \in ServerStates
  /\ handles \in Nat
  /\ detaching \in BOOLEAN
  /\ guard \in SUBSET Contexts
  /\ kind \in [Contexts -> Kinds \cup {"none"}]
  /\ held \in SUBSET Handles
  /\ remote \in SUBSET Handles
  /\ step \in Steps
  /\ current \in Contexts
  /\ host \in Hosts
  /\ life \in Lives

Init ==
  /\ ServerInit
  /\ handles = 0
  /\ detaching = FALSE
  /\ guard = {}
  /\ kind = [c \in Contexts |-> "none"]
  /\ held = {}
  /\ step = "idle"
  /\ current \in Contexts
  /\ host = "down"
  /\ life = "negotiate"

(***************************************************************************)
(* MountGate.                                                              *)
(***************************************************************************)
\* Fault: an open passes although a detach has been accepted.
EnterGateUnchecked(c) ==
  /\ handles' = handles + 1
  /\ guard' = guard \cup {c}
  /\ UNCHANGED detaching

\* MountGate::enter, whose guard goes to the context being opened.
EnterGate(c) ==
  /\ ~detaching
  /\ handles' = handles + 1
  /\ guard' = guard \cup {c}
  /\ UNCHANGED detaching

\* Fault: a passive context counts down again when it is closed.
DropGuardTwice(c) ==
  /\ handles' = handles - 1
  /\ guard' = guard \ {c}
  /\ UNCHANGED detaching

\* Drop for OpenGuard; a context that keeps no guard has nothing to drop.
DropGuard(c) ==
  /\ IF c \in guard /\ handles > 0
       THEN handles' = handles - 1
       ELSE UNCHANGED handles
  /\ guard' = guard \ {c}
  /\ UNCHANGED detaching

\* Fault: a detach is accepted whatever is open.
CloseGateUnchecked ==
  /\ detaching' = TRUE
  /\ UNCHANGED <<handles, guard>>

\* MountGate::begin_detach when it succeeds.
CloseGate ==
  /\ handles = 0
  /\ detaching' = TRUE
  /\ UNCHANGED <<handles, guard>>

(***************************************************************************)
(* Callbacks begin.  The host delivers them while it is up, and those that *)
(* were under way when the mount point was removed.                        *)
(***************************************************************************)
Begin(c, s) ==
  /\ host \in {"up", "unmounted"}
  /\ step = "idle"
  /\ current' = c
  /\ step' = s
  /\ UNCHANGED <<runVars, serverVars>>

Open(c, k) ==
  /\ kind[c] = "none"
  /\ Begin(c, "stat")
  /\ EnterGate(c)
  /\ kind' = [kind EXCEPT ![c] = k]
  /\ UNCHANGED held

Create(c, k) ==
  /\ kind[c] = "none"
  /\ k # "pathOnly"
  /\ Begin(c, IF k = "file" THEN "createFile" ELSE "mkdir")
  /\ EnterGate(c)
  /\ kind' = [kind EXCEPT ![c] = k]
  /\ UNCHANGED held

Use(c) ==
  /\ kind[c] # "none"
  /\ Begin(c, "use")
  /\ UNCHANGED <<gateVars, contextVars>>

\* A callback without a context.
Inspect ==
  /\ Begin(current, "inspect")
  /\ UNCHANGED <<gateVars, contextVars>>

\* Deleting needs DELETE access, which a passive context was not granted.
Cleanup(c) ==
  /\ kind[c] \notin {"none", "passive"}
  /\ Begin(c, "remove")
  /\ UNCHANGED <<gateVars, contextVars>>

SetDelete(c) ==
  /\ kind[c] = "mutator"
  /\ Begin(c, "probe")
  /\ UNCHANGED <<gateVars, contextVars>>

\* read_directory continues its scan, restarts it elsewhere, or opens one.
ReadDirectory(c) ==
  /\ kind[c] \in {"mutator", "passive"}
  /\ \E s \in IF <<c, "scan">> \in held THEN {"list", "rewind"} ELSE {"scan"} :
       Begin(c, s)
  /\ UNCHANGED <<gateVars, contextVars>>

\* Where the drop of a context goes on when it holds the handles h.
DropFrom(c, h) ==
  IF <<c, "file">> \in h THEN "closeFile"
  ELSE IF <<c, "scan">> \in h THEN "closeScan"
  ELSE "release"

Close(c) ==
  /\ kind[c] # "none"
  /\ Begin(c, DropFrom(c, held))
  /\ UNCHANGED <<gateVars, contextVars>>

(***************************************************************************)
(* Callbacks call the server ...                                           *)
(***************************************************************************)
DispatcherSend ==
  /\ step \in CallSteps
  /\ Send(Dispatcher, Exchange[step])
  /\ UNCHANGED <<gateVars, contextVars, callbackVars, runVars, remote,
                 controlVars>>

(***************************************************************************)
(* ... and go on with its result.                                          *)
(***************************************************************************)
\* The end of open_context: a passive context drops the guard here.
Admit(next) ==
  /\ step' = next
  /\ IF BlocksDetach(kind[current])
       THEN UNCHANGED gateVars
       ELSE DropGuard(current)

Opening(result) ==
  \/ /\ step = "stat"
     /\ IF result # "ok" THEN step' = "release" /\ UNCHANGED gateVars
        ELSE IF kind[current] = "file" THEN step' = "open" /\ UNCHANGED gateVars
        ELSE Admit("idle")
  \/ /\ step = "mkdir"
     /\ IF result = "ok" THEN Admit("describe")
                         ELSE step' = "release" /\ UNCHANGED gateVars
  \/ /\ step \in {"open", "createFile"}
     /\ step' = CASE result # "ok"   -> "release"
                  [] step = "open"   -> "idle"
                  [] OTHER           -> "describe"
     /\ UNCHANGED gateVars
  \/ /\ step = "describe"
     /\ step' = IF result = "ok" THEN "idle" ELSE "warnCreate"
     /\ UNCHANGED gateVars

\* A closed handle is taken out of its context before the call, and so is
\* gone from it whatever the call returns.
Closing == step \in {"closeFile", "closeScan", "rewind", "probeClose"}
HeldAfter(result) ==
  IF Closing THEN held \ {HandleAt}
  ELSE IF step \in {"open", "createFile", "scan", "probe"} /\ result = "ok"
    THEN held \cup {HandleAt}
  ELSE held

\* Drop for Context; also reached when the entry just created is unusable.
Dropping(result) ==
  /\ \/ /\ step = "closeFile"
        /\ step' = IF result = "ok"
                     THEN DropFrom(current, held \ {HandleAt}) ELSE "warnFile"
     \/ /\ step \in {"warnCreate", "warnFile"}
        /\ step' = DropFrom(current, held)
     \/ /\ step = "closeScan"
        /\ step' = IF result = "ok" THEN "release" ELSE "warnScan"
     \/ /\ step = "warnScan"
        /\ step' = "release"
  /\ UNCHANGED gateVars

Operating(result) ==
  /\ \/ /\ step \in {"use", "inspect", "warnRemove"}
        /\ step' = "idle"
     \/ /\ step = "remove"
        /\ step' = IF result = "ok" THEN "idle" ELSE "warnRemove"
  /\ UNCHANGED gateVars

Scanning(result) ==
  /\ \/ /\ step = "rewind"
        /\ step' = IF result = "ok" THEN "scan" ELSE "idle"
     \/ /\ step \in {"scan", "probe"}
        /\ step' = CASE result # "ok" -> "idle"
                     [] step = "scan" -> "list"
                     [] OTHER -> "probeList"
     \/ /\ step = "probeList"
        /\ step' = "probeClose"
     \/ /\ step \in {"list", "probeClose"}
        /\ step' = "idle"
  /\ UNCHANGED gateVars

\* The result of the step's call; Offline when it could not be made.
DispatcherReturn(result) ==
  /\ step \in CallSteps
  /\ Returns(Dispatcher, result)
  /\ \/ Opening(result)
     \/ Dropping(result)
     \/ Operating(result)
     \/ Scanning(result)
  /\ held' = HeldAfter(result)
  /\ UNCHANGED <<kind, current, runVars, remote, controlVars>>

\* The last field of the context, its guard, is dropped; the slot is free.
Release ==
  /\ step = "release"
  /\ step' = "idle"
  /\ kind' = [kind EXCEPT ![current] = "none"]
  /\ DropGuard(current)
  /\ UNCHANGED <<held, current, runVars, remote, controlVars, channelVars>>

(***************************************************************************)
(* The lifecycle thread.                                                   *)
(***************************************************************************)
LifeUnchanged == UNCHANGED <<contextVars, callbackVars, remote, controlVars>>

\* The runtime may be missing or the drive letter taken; otherwise the drive
\* is mounted and callbacks start, before Ready is reported.
Mount ==
  /\ life = "mount"
  /\ \/ life' = "ready" /\ host' = "up"
     \/ life' = "failure" /\ UNCHANGED host
  /\ LifeUnchanged
  /\ UNCHANGED <<gateVars, channelVars>>

LifecycleSend ==
  /\ life \in DOMAIN LifeExchange
  /\ Send(Lifecycle, LifeExchange[life])
  /\ LifeUnchanged
  /\ UNCHANGED <<gateVars, runVars>>

\* Fault: a failed poll is tried again, for ever.
AfterPollPatient(result) ==
  IF result = "Detach" THEN "gate" ELSE "poll"

AfterPoll(result) ==
  CASE result = "Continue" -> "poll"
    [] result = "Detach"   -> "gate"
    [] OTHER               -> "lost"

AfterDetached(result) == IF result = "ok" THEN "success" ELSE "failure"

\* Any other reply than the expected one ends run(), and with it the host.
LifecycleReturn(result) ==
  /\ Returns(Lifecycle, result)
  /\ \/ /\ life = "negotiate"
        /\ life' = IF result = "ok" THEN "mount" ELSE "failure"
     \/ /\ life \in {"ready", "reportBusy"}
        /\ life' = IF result = "ok" THEN "poll" ELSE "lost"
     \/ /\ life = "poll"
        /\ life' = AfterPoll(result)
     \/ /\ life = "reportDetached"
        /\ life' = AfterDetached(result)
  /\ LifeUnchanged
  /\ UNCHANGED <<gateVars, host>>

\* Fault: a busy mount is kept without telling the desktop.
BeginDetachSilently ==
  /\ life = "gate"
  /\ \/ CloseGate /\ life' = "unmount"
     \/ handles # 0 /\ life' = "poll" /\ UNCHANGED gateVars
  /\ LifeUnchanged
  /\ UNCHANGED <<host, channelVars>>

BeginDetach ==
  /\ life = "gate"
  /\ \/ CloseGate /\ life' = "unmount"
     \/ handles # 0 /\ life' = "reportBusy" /\ UNCHANGED gateVars
  /\ LifeUnchanged
  /\ UNCHANGED <<host, channelVars>>

\* Fault: stopping does not wait for the callback that runs.
TearDownAtOnce ==
  /\ life \in {"unmount", "lost"}
  /\ host' = "stopped"
  /\ life' = IF life = "unmount" THEN "reportDetached" ELSE "failure"
  /\ LifeUnchanged
  /\ UNCHANGED <<gateVars, channelVars>>

\* host.unmount(), host.stop(), then the wait for the running callback.
TearDown ==
  /\ life \in {"unmount", "lost"}
  /\ \/ host = "up" /\ host' = "unmounted" /\ UNCHANGED life
     \/ host = "unmounted" /\ host' = "stopping" /\ UNCHANGED life
     \/ /\ host = "stopping"
        /\ step = "idle"
        /\ host' = "stopped"
        /\ life' = IF life = "unmount" THEN "reportDetached" ELSE "failure"
  /\ LifeUnchanged
  /\ UNCHANGED <<gateVars, channelVars>>

Exited == life \in {"success", "failure"}

(***************************************************************************)
(* The server and the desktop.                                             *)
(***************************************************************************)
Serve ==
  /\ Dispatch(HandleAt)
  /\ UNCHANGED mountVars

PipeFails ==
  /\ PipeBreaks
  /\ UNCHANGED mountVars

Retirement ==
  /\ ServerRetires \/ ServerStops
  /\ UNCHANGED mountVars

DesktopRequestsDetach ==
  /\ RequestDetach
  /\ UNCHANGED <<mountVars, remote, channelVars>>

Callback ==
  \/ \E c \in Contexts :
       \/ \E k \in Kinds : Open(c, k) \/ Create(c, k)
       \/ Use(c) \/ Cleanup(c) \/ SetDelete(c) \/ ReadDirectory(c) \/ Close(c)
  \/ Inspect

DispatcherStep ==
  \/ \E result \in Results \cup {"Offline"} : DispatcherReturn(result)
  \/ Release

LifecycleStep ==
  \/ Mount
  \/ LifecycleSend
  \/ \E result \in Results \cup {"Offline"} : LifecycleReturn(result)
  \/ BeginDetach
  \/ TearDown

Next ==
  \/ Callback
  \/ DispatcherSend
  \/ DispatcherStep
  \/ LifecycleStep
  \/ Serve
  \/ PipeFails
  \/ Retirement
  \/ DesktopRequestsDetach

Spec == Init /\ [][Next]_vars

(***************************************************************************)
(* Fairness.  Both threads and the server keep running; the server answers *)
(* or times out; once the process is gone its pipe reads as ended.  The    *)
(* dispatcher gets the client's mutex because the lifecycle thread sleeps  *)
(* for a second between two calls.  Applications, the desktop and pipe     *)
(* failures owe nothing.                                                   *)
(***************************************************************************)
FairSpec ==
  /\ Spec
  /\ WF_vars(DispatcherStep)
  /\ SF_vars(DispatcherSend)
  /\ WF_vars(LifecycleStep)
  /\ WF_vars(Serve)
  /\ WF_vars(Exited /\ PipeFails)
  /\ WF_vars(Retirement)

(***************************************************************************)
(* Safety.                                                                 *)
(***************************************************************************)
\* A detach that was accepted found no file open: from then on no guard is
\* alive and the server keeps no file handle of the bridge, even while a
\* callback that began before it still waits for its answer.
NothingOpenAtDetach ==
  detaching => guard = {} /\ RemoteFiles = {}

\* Once a detach is accepted the only callbacks that run or start are those of
\* directories opened for browsing and those that look at a path: nothing that
\* could change the remote side.
OnlyBrowsingAfterDetach ==
  detaching => \/ step \in {"idle", "inspect"}
               \/ kind[current] = "passive" /\ step \notin {"stat", "mkdir"}

\* The desktop shows Detached only when the host has stopped, no callback
\* runs and no file is open on either side; and the process exits with success
\* only if the desktop shows that.
DetachedMeansGone ==
  /\ phase = "Detached" =>
       /\ host = "stopped"
       /\ step = "idle"
       /\ guard = {}
       /\ RemoteFiles = {}
  /\ life = "success" => phase = "Detached"

\* run() tries the gate only for a request the desktop made and that nobody
\* else has answered: a directive is used once, and after a refusal the mount
\* stays until the desktop asks again.
DetachOnlyOnRequest ==
  /\ pending => phase = "Detaching"
  /\ life \in {"gate", "unmount", "reportDetached"} =>
       /\ \/ phase \in {"Detaching", "Failed"}
          \/ life = "reportDetached" /\ phase = "Detached"
       /\ ~pending

\* Between two calls of the dispatcher the bridge and the server agree on
\* the open handles: none leaks on the server, none that the bridge would
\* still use is gone, and none outlives its context.
HandlesAgree ==
  server = "serving" /\ caller # Dispatcher =>
    /\ remote = held
    /\ \A h \in held :
         /\ kind[h[1]] # "none"
         /\ h[2] = "probe" => step \in {"probeList", "probeClose"}

\* No report of run() meets a phase that rejects it: a rejection would make
\* run() tear the mount down.
ReportsExpected ==
  server = "serving" /\ caller = Lifecycle /\ request \in Events =>
    Accepts(request)

\* The mount implements Attachment.  The gate is where the drive is given
\* up; a context that keeps its guard is what "in use" means here.
Promise == INSTANCE Attachment WITH
  Ejectable <- FALSE,
  status <- phase,
  inUse  <- guard # {},
  drive  <- IF detaching THEN "givenUp"
            ELSE IF host = "down" THEN "absent"
            ELSE IF host = "up" THEN "present"
            ELSE "torn"

KeepsPromise == Promise!Spec

(***************************************************************************)
(* Liveness.                                                               *)
(***************************************************************************)
\* Every callback returns to its application, whatever the server does.
CallbacksReturn ==
  step # "idle" ~> step = "idle"

\* Once the applications are quiet, a detach request gets an answer: the
\* mount is detached, kept, or lost.  (While callbacks keep coming, the
\* lifecycle thread has no claim to the client's mutex.)
DetachResolves ==
  <>[](step = "idle") => (phase = "Detaching" ~> phase # "Detaching")

\* When the server is gone the process unmounts and exits by itself.
ServerLossEndsMount ==
  server = "stopped" ~> Exited

(***************************************************************************)
(* README.md:119 says that Windows cleanup failures reach ShellCanvas.     *)
(***************************************************************************)
\* A warning that the server reads is accepted.  It is not before Ready has
\* been processed, although callbacks run from host.start() on.
WarningsReachParent ==
  server = "serving" /\ request = "Warning" => Accepts("Warning")
=============================================================================
