----------------------------- MODULE FuseMount -----------------------------
(***************************************************************************)
(* The Linux and macOS attachment process (src/main.rs, src/fuse.rs) with  *)
(* the server it talks to over the pipes.                                  *)
(*                                                                         *)
(* The FUSE session runs one callback at a time on its own thread; the     *)
(* lifecycle thread polls for a detach request and runs the system's       *)
(* unmount helper, a process that a timeout leaves behind.  Whether the    *)
(* drive is busy is the kernel's knowledge, not the bridge's: the kernel,  *)
(* the helper and the session loop are external and modelled by what the   *)
(* code relies on.                                                         *)
(***************************************************************************)
EXTENDS BridgeServer, FiniteSets

CONSTANTS
  Opened,       (* slots for the files and directories open at a time      *)
  Session,      (* the thread of the callbacks                             *)
  Lifecycle     (* the thread of run()                                     *)

VARIABLES
  mounted,      (* the kernel's mount: "no", "yes", "gone" or "forced"     *)
  using,        (* slots with an open call or an open descriptor           *)
  releasing,    (* closed descriptors whose release is not delivered yet   *)
  kind,         (* "file" or "dir" for a slot in use, else "none"          *)
  held,         (* the remote handles in State.files and State.dirs        *)
  step,         (* the step of the callback that runs, or "idle"           *)
  current,      (* its slot                                                *)
  session,      (* "none", "running", then "ended" or "broken"             *)
  helper,       (* the unmount helper that run() waits for                 *)
  orphans,      (* a helper that run() gave up on may still act            *)
  life          (* the step of run()                                       *)

kernelVars   == <<mounted, using, releasing>>
callbackVars == <<kind, held, step, current>>
helperVars   == <<helper, orphans>>
mountVars    == <<kernelVars, callbackVars, session, helperVars, life>>
vars         == <<mountVars, serverVars>>

(***************************************************************************)
(* The request each step of a callback makes.                              *)
(***************************************************************************)
Exchange ==
  [ open       |-> "Open",
    create     |-> "Open",
    chmod      |-> "Use",            \* create: the requested mode
    stat       |-> "Metadata",       \* create: the new file's attributes
    undo       |-> "Close",          \* create: one of them failed
    opendir    |-> "OpenDirectory",
    use        |-> "Use",
    inspect    |-> "Use",            \* lookup, mkdir, rename, statfs, ...
    rewind     |-> "CloseDirectory", \* readdir at an earlier offset
    reopen     |-> "OpenDirectory",
    list       |-> "ReadDirectory",
    release    |-> "Close",
    releasedir |-> "CloseDirectory" ]

CallSteps == DOMAIN Exchange

\* A slot has one remote handle at a time: a rewound directory closes its
\* old one before it asks for the next.
HandleAt == current

Lives == {"negotiate", "mount", "ready", "check", "poll", "helper", "join",
          "reportDetached", "reportBusy", "lost", "success", "failure"}

LifeExchange ==
  [ negotiate      |-> "Capabilities",
    ready          |-> "Ready",
    poll           |-> "Poll",
    reportDetached |-> "Detached",
    reportBusy     |-> "DetachFailed" ]

Threads == {Session, Lifecycle}

ASSUME DistinctAssumption ==
  /\ Session # Lifecycle
  /\ None \notin Requests \cup Results \cup Threads \cup Opened
  /\ Opened # {}

TypeOK ==
  /\ ControlTypeOK
  /\ caller \in Threads \cup {None}
  /\ request \in Requests \cup {None}
  /\ reply \in Results \cup {None}
  /\ closed \in BOOLEAN
  /\ server \in ServerStates
  /\ mounted \in {"no", "yes", "gone", "forced"}
  /\ using \in SUBSET Opened
  /\ releasing \in SUBSET Opened
  /\ kind \in [Opened -> {"file", "dir", "none"}]
  /\ held \in SUBSET Opened
  /\ remote \in SUBSET Opened
  /\ step \in CallSteps \cup {"idle"}
  /\ current \in Opened
  /\ session \in {"none", "running", "ended", "broken"}
  /\ helper \in {"none", "running", "done", "refused"}
  /\ orphans \in BOOLEAN
  /\ life \in Lives

Init ==
  /\ ServerInit
  /\ mounted = "no"
  /\ using = {}
  /\ releasing = {}
  /\ kind = [o \in Opened |-> "none"]
  /\ held = {}
  /\ step = "idle"
  /\ current \in Opened
  /\ session = "none"
  /\ helper = "none"
  /\ orphans = FALSE
  /\ life = "negotiate"

Exited == life \in {"success", "failure"}

(***************************************************************************)
(* Callbacks begin: the kernel sends a request, the session takes it up.   *)
(***************************************************************************)
Begin(o, s) ==
  /\ session = "running"
  /\ ~Exited
  /\ step = "idle"
  /\ current' = o
  /\ step' = s
  /\ UNCHANGED <<session, helperVars, life, serverVars>>

\* An application opens; from here to its close the kernel counts the slot.
Open(o) ==
  /\ mounted = "yes"
  /\ kind[o] = "none"
  /\ \E s \in {"open", "create", "opendir"} :
       /\ Begin(o, s)
       /\ kind' = [kind EXCEPT ![o] = IF s = "opendir" THEN "dir" ELSE "file"]
  /\ using' = using \cup {o}
  /\ UNCHANGED <<mounted, releasing, held>>

\* A call on a path, for whose time the kernel keeps the mount.
Inspect(o) ==
  /\ mounted = "yes"
  /\ kind[o] = "none"
  /\ Begin(o, "inspect")
  /\ using' = using \cup {o}
  /\ UNCHANGED <<mounted, releasing, kind, held>>

Use(o) ==
  /\ o \in using
  /\ Begin(o, "use")
  /\ UNCHANGED <<kernelVars, kind, held>>

\* readdir; a cursor whose reopening failed has no handle and opens one.
ReadDir(o) ==
  /\ o \in using
  /\ kind[o] = "dir"
  /\ \E s \in IF o \in held THEN {"list", "rewind"} ELSE {"reopen"} : Begin(o, s)
  /\ UNCHANGED <<kernelVars, kind, held>>

\* The last descriptor is closed, which a call in progress prevents: the
\* kernel sends release without waiting for it.
CloseDescriptor(o) ==
  /\ o \in using
  /\ ~(step # "idle" /\ current = o)
  /\ using' = using \ {o}
  /\ releasing' = releasing \cup {o}
  /\ UNCHANGED <<mounted, callbackVars, session, helperVars, life, serverVars>>

\* release, or releasedir of a directory.  A directory that has no handle
\* left needs no call.
Release(o) ==
  /\ o \in releasing
  /\ releasing' = releasing \ {o}
  /\ IF kind[o] = "dir" /\ o \notin held
       THEN /\ kind' = [kind EXCEPT ![o] = "none"]
            /\ session = "running" /\ ~Exited /\ step = "idle"
            /\ UNCHANGED <<step, current, session, helperVars, life, serverVars>>
       ELSE /\ Begin(o, IF kind[o] = "dir" THEN "releasedir" ELSE "release")
            /\ UNCHANGED kind
  /\ UNCHANGED <<mounted, using, held>>

(***************************************************************************)
(* Callbacks call the server and go on with its result.                    *)
(***************************************************************************)
SessionSend ==
  /\ ~Exited
  /\ step \in CallSteps
  /\ Send(Session, Exchange[step])
  /\ UNCHANGED <<mountVars, remote, controlVars>>

\* The call ends without a descriptor.
EndsWithout ==
  /\ step' = "idle"
  /\ kind' = [kind EXCEPT ![current] = "none"]
  /\ using' = using \ {current}

Continue(next) ==
  /\ step' = next
  /\ UNCHANGED <<kind, using>>

\* create calls Close itself when a later step fails.
Opening(result) ==
  \/ /\ step \in {"open", "opendir"}
     /\ IF result = "ok" THEN Continue("idle") ELSE EndsWithout
  \/ /\ step = "create"
     /\ IF result = "ok" THEN Continue("chmod") ELSE EndsWithout
  \/ /\ step = "chmod"
     /\ Continue(IF result = "ok" THEN "stat" ELSE "undo")
  \/ /\ step = "stat"
     /\ Continue(IF result = "ok" THEN "idle" ELSE "undo")
  \/ /\ step \in {"undo", "inspect"}
     /\ EndsWithout

Operating(result) ==
  \/ /\ step \in {"use", "list"}
     /\ Continue("idle")
  \/ /\ step = "rewind"
     /\ Continue(IF result = "ok" THEN "reopen" ELSE "idle")
  \/ /\ step = "reopen"
     /\ Continue(IF result = "ok" THEN "list" ELSE "idle")
  \/ /\ step \in {"release", "releasedir"}
     /\ step' = "idle"
     /\ kind' = [kind EXCEPT ![current] = "none"]
     /\ UNCHANGED using

\* Fault: a handle whose close fails is kept.
HeldUnlessClosed(result) ==
  CASE step \in {"undo", "rewind", "release", "releasedir"} /\ result = "ok" ->
         held \ {HandleAt}
    [] step \in {"open", "create", "opendir", "reopen"} /\ result = "ok" ->
         held \cup {HandleAt}
    [] OTHER -> held

\* A handle is taken out of the state whatever its close returns.
HeldAfter(result) ==
  CASE step \in {"undo", "rewind", "release", "releasedir"} -> held \ {HandleAt}
    [] step \in {"open", "create", "opendir", "reopen"} /\ result = "ok" ->
         held \cup {HandleAt}
    [] OTHER -> held

SessionReturn(result) ==
  /\ ~Exited
  /\ step \in CallSteps
  /\ Returns(Session, result)
  /\ Opening(result) \/ Operating(result)
  /\ held' = HeldAfter(result)
  /\ UNCHANGED <<mounted, releasing, current, session, helperVars, life, remote,
                 controlVars>>

(***************************************************************************)
(* The kernel removes the mount: asked by a helper, or by someone else     *)
(* with an ordinary unmount.  It refuses while the mount is in use.        *)
(***************************************************************************)
KernelUnmounts ==
  /\ mounted = "yes"
  /\ using = {}
  /\ mounted' = "gone"
  /\ UNCHANGED <<using, releasing>>

\* ordinary_unmount's helper, also one that a timeout left behind.
HelperUnmounts ==
  /\ \/ helper = "running" /\ helper' = "done" /\ UNCHANGED orphans
     \/ orphans /\ orphans' = FALSE /\ UNCHANGED helper
  /\ KernelUnmounts
  /\ UNCHANGED <<callbackVars, session, life, serverVars>>

HelperGivesUp ==
  /\ \/ helper = "running" /\ helper' = "refused" /\ UNCHANGED orphans
     \/ orphans /\ orphans' = FALSE /\ UNCHANGED helper
  /\ UNCHANGED <<kernelVars, callbackVars, session, life, serverVars>>

UserUnmounts ==
  /\ KernelUnmounts
  /\ UNCHANGED <<callbackVars, session, helperVars, life, serverVars>>

\* The session loop ends after its mount is gone, and drops the requests it
\* has not read; it may also break off with an error at any time.
SessionLeaves(how) ==
  /\ session = "running"
  /\ ~Exited
  /\ step = "idle"
  /\ session' = how
  /\ UNCHANGED <<kernelVars, callbackVars, helperVars, life, serverVars>>

SessionEnds   == mounted = "gone" /\ SessionLeaves("ended")
SessionBreaks == SessionLeaves("broken")

(***************************************************************************)
(* The lifecycle thread.                                                   *)
(***************************************************************************)
LifeUnchanged == UNCHANGED <<callbackVars, remote, controlVars>>

\* The target is not an empty directory, or spawn_mount fails or succeeds.
Mount ==
  /\ life = "mount"
  /\ \/ life' = "ready" /\ mounted' = "yes" /\ session' = "running"
     \/ life' = "failure" /\ UNCHANGED <<mounted, session>>
  /\ LifeUnchanged
  /\ UNCHANGED <<using, releasing, helperVars, channelVars>>

LifecycleSend ==
  /\ life \in DOMAIN LifeExchange
  /\ Send(Lifecycle, LifeExchange[life])
  /\ UNCHANGED <<mountVars, remote, controlVars>>

\* Fault: a failed poll is tried again, for ever.
AfterPollPatient(result) ==
  IF result = "Detach" THEN "helper" ELSE "check"

AfterPoll(result) ==
  CASE result = "Continue" -> "check"
    [] result = "Detach"   -> "helper"
    [] OTHER               -> "lost"

\* Fault: the answer to the last report is ignored.
AfterDetachedAnyway(result) == "success"

AfterDetached(result) == IF result = "ok" THEN "success" ELSE "failure"

\* A failed report ends run(), which drops the session.
LifecycleReturn(result) ==
  /\ Returns(Lifecycle, result)
  /\ \/ /\ life = "negotiate"
        /\ life' = IF result = "ok" THEN "mount" ELSE "failure"
     \/ /\ life \in {"ready", "reportBusy"}
        /\ life' = IF result = "ok" THEN "check" ELSE "lost"
     \/ /\ life = "poll"
        /\ life' = AfterPoll(result)
     \/ /\ life = "reportDetached"
        /\ life' = AfterDetached(result)
  /\ LifeUnchanged
  /\ UNCHANGED <<kernelVars, session, helperVars>>

\* Fault: a finished session is not noticed.
CheckNothing ==
  /\ life = "check"
  /\ life' = "poll"
  /\ LifeUnchanged
  /\ UNCHANGED <<kernelVars, session, helperVars, channelVars>>

\* Each second: has the session thread finished?
Check ==
  /\ life = "check"
  /\ life' = IF session \in {"ended", "broken"} THEN "join" ELSE "poll"
  /\ LifeUnchanged
  /\ UNCHANGED <<kernelVars, session, helperVars, channelVars>>

\* Fault: run() waits for its helper for ever.
UnmountWithoutDeadline ==
  /\ life = "helper"
  /\ \/ helper = "none" /\ helper' = "running" /\ UNCHANGED life
     \/ helper = "done" /\ helper' = "none" /\ life' = "join"
     \/ helper = "refused" /\ helper' = "none" /\ life' = "reportBusy"
  /\ LifeUnchanged
  /\ UNCHANGED <<kernelVars, session, orphans, channelVars>>

\* ordinary_unmount: no helper or no process; then its exit status, or the
\* deadline, after which it is killed but not waited for.
OrdinaryUnmount ==
  /\ life = "helper"
  /\ \/ /\ helper = "none"
        /\ \/ helper' = "running" /\ UNCHANGED life
           \/ life' = "reportBusy" /\ UNCHANGED helper
        /\ UNCHANGED orphans
     \/ /\ helper = "done"
        /\ helper' = "none"
        /\ life' = "join"
        /\ UNCHANGED orphans
     \/ /\ helper = "refused"
        /\ helper' = "none"
        /\ life' = "reportBusy"
        /\ UNCHANGED orphans
     \/ /\ helper = "running"
        /\ helper' = "none"
        /\ orphans' = TRUE
        /\ life' = "reportBusy"
  /\ LifeUnchanged
  /\ UNCHANGED <<kernelVars, session, channelVars>>

\* Fault: a forced removal passes for an orderly one.
ForceOffUnseen == mounted' = IF mounted = "yes" THEN "gone" ELSE mounted

\* Dropping the session removes the mount at once, busy or not.
ForceOff == mounted' = IF mounted = "yes" THEN "forced" ELSE mounted

\* session.join(), which passes on the error of a session that broke off.
Join ==
  /\ life = "join"
  /\ \/ session = "ended" /\ life' = "reportDetached" /\ UNCHANGED mounted
     \/ session = "broken" /\ life' = "failure" /\ ForceOff
  /\ LifeUnchanged
  /\ UNCHANGED <<using, releasing, session, helperVars, channelVars>>

\* The process exits under whatever callback still runs.
DropSession ==
  /\ life = "lost"
  /\ life' = "failure"
  /\ ForceOff
  /\ LifeUnchanged
  /\ UNCHANGED <<using, releasing, session, helperVars, channelVars>>

(***************************************************************************)
(* The server and the desktop.                                             *)
(***************************************************************************)
Serve ==
  /\ Dispatch(HandleAt)
  /\ UNCHANGED mountVars

PipeFails ==
  /\ PipeBreaks
  /\ UNCHANGED mountVars

Retirement ==
  /\ ServerRetires \/ ServerStops
  /\ UNCHANGED mountVars

DesktopRequestsDetach ==
  /\ RequestDetach
  /\ UNCHANGED <<mountVars, remote, channelVars>>

Callback ==
  \E o \in Opened : Open(o) \/ Inspect(o) \/ Use(o) \/ ReadDir(o)

SessionStep ==
  \E result \in Results \cup {"Offline"} : SessionReturn(result)

LifecycleStep ==
  \/ Mount \/ LifecycleSend \/ Check \/ OrdinaryUnmount \/ Join \/ DropSession
  \/ \E result \in Results \cup {"Offline"} : LifecycleReturn(result)

Next ==
  \/ Callback
  \/ \E o \in Opened : CloseDescriptor(o) \/ Release(o)
  \/ SessionSend
  \/ SessionStep
  \/ HelperUnmounts \/ HelperGivesUp \/ UserUnmounts
  \/ SessionEnds \/ SessionBreaks
  \/ LifecycleStep
  \/ Serve
  \/ PipeFails
  \/ Retirement
  \/ DesktopRequestsDetach

Spec == Init /\ [][Next]_vars

(***************************************************************************)
(* Fairness.  Both threads, the session loop and the server keep running;  *)
(* run() gives up on its helper at a deadline; once the process is gone    *)
(* its pipe reads as ended.  The session gets the client's mutex because   *)
(* the lifecycle thread sleeps for a second between two polls.             *)
(***************************************************************************)
FairSpec ==
  /\ Spec
  /\ WF_vars(SessionStep)
  /\ SF_vars(SessionSend)
  /\ WF_vars(SessionEnds)
  /\ WF_vars(LifecycleStep)
  /\ WF_vars(Serve)
  /\ WF_vars(Exited /\ PipeFails)
  /\ WF_vars(Retirement)

(***************************************************************************)
(* Safety.                                                                 *)
(***************************************************************************)
\* The desktop shows Detached only when the kernel has let go of the mount
\* in order, nothing on it is in use and the session has ended well, even if
\* a helper that was given up, or somebody else, unmounted it.  The process
\* exits with success only if the desktop shows that.
DetachedMeansGone ==
  /\ phase = "Detached" =>
       /\ mounted = "gone"
       /\ session = "ended"
       /\ using = {}
       /\ step = "idle"
  /\ life = "success" => phase = "Detached"

\* run() starts a helper only for a request of the desktop that nobody has
\* answered yet, and has no second helper to wait for.
DetachOnlyOnRequest ==
  /\ pending => phase = "Detaching"
  /\ life = "helper" => phase \in {"Detaching", "Failed"} /\ ~pending
  /\ helper # "none" => life = "helper"

\* Between two calls of the session the bridge and the server agree on the
\* open handles.  Handles outlive the session only where the kernel had not
\* yet delivered the release of a closed descriptor.
HandlesAgree ==
  /\ server = "serving" /\ caller # Session => remote = held
  /\ session = "ended" => held \subseteq releasing

\* No report of run() meets a phase that rejects it: a rejection would end
\* run() and force the mount off.
ReportsExpected ==
  server = "serving" /\ caller = Lifecycle /\ request \in Events =>
    Accepts(request)

\* The mount implements Attachment.  Here the drive is given up when the
\* kernel unmounts it, and torn when dropping the session forces it off.
Promise == INSTANCE Attachment WITH
  Ejectable <- TRUE,
  status <- phase,
  inUse  <- using # {},
  drive  <- CASE mounted = "no"   -> "absent"
              [] mounted = "yes"  -> "present"
              [] mounted = "gone" -> "givenUp"
              [] OTHER            -> "torn"

KeepsPromise == Promise!Spec

(***************************************************************************)
(* Liveness.                                                               *)
(***************************************************************************)
\* Every callback returns to its application unless the process exits.
CallbacksReturn ==
  step # "idle" ~> step = "idle" \/ Exited

\* Once the applications are quiet, a detach request gets an answer, also
\* when the helper hangs.
DetachResolves ==
  <>[](step = "idle") => (phase = "Detaching" ~> phase # "Detaching")

\* A mount that is gone, for whatever reason, ends the process and is not
\* shown as attached for ever.
UnmountNoticed ==
  mounted = "gone" ~> Exited /\ phase \in {"Detached", "Failed"}

\* When the server is gone the process ends by itself.
ServerLossEndsMount ==
  server = "stopped" ~> Exited

\* Whatever the bridge left open, also after an orderly detach, the server
\* gives back.
HandlesReturned ==
  Exited ~> remote = {}
=============================================================================
