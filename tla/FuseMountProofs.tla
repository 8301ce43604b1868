--------------------------- MODULE FuseMountProofs ---------------------------
(***************************************************************************)
(* Proofs about FuseMount for any number of open files and directories.    *)
(***************************************************************************)
EXTENDS FuseMount, TLAPS

USE DEF Threads

(***************************************************************************)
(* The tables of requests, spelled out once for the provers.               *)
(***************************************************************************)
LEMMA CallStepsAre ==
  /\ CallSteps = {"open", "create", "chmod", "stat", "undo", "opendir", "use", "inspect",
                  "rewind", "reopen", "list", "release", "releasedir"}
  /\ DOMAIN LifeExchange = {"negotiate", "ready", "poll", "reportDetached", "reportBusy"}
BY DEF CallSteps, Exchange, LifeExchange

\* What the session asks: which steps open and close a handle, and that it sends
\* no lifecycle request.
LEMMA ExchangeTable ==
  ASSUME NEW s \in CallSteps
  PROVE  /\ Exchange[s] \in FileRequests
         /\ Exchange[s] \in Opens <=> s \in {"open", "create", "opendir", "reopen"}
         /\ Exchange[s] \in Closes <=> s \in {"undo", "rewind", "release", "releasedir"}
BY CallStepsAre DEF Exchange, FileRequests, Opens, Closes, Neutral

LEMMA LifeExchangeTable ==
  ASSUME NEW l \in DOMAIN LifeExchange
  PROVE  /\ LifeExchange[l] \in {"Capabilities", "Poll", "Ready", "Detached",
                                 "DetachFailed"}
         /\ LifeExchange[l] = "Poll" <=> l = "poll"
         /\ LifeExchange[l] = "Ready" <=> l = "ready"
         /\ LifeExchange[l] = "Detached" <=> l = "reportDetached"
         /\ LifeExchange[l] = "DetachFailed" <=> l = "reportBusy"
BY CallStepsAre DEF LifeExchange

LEMMA RequestTypes ==
  /\ \A s \in CallSteps : Exchange[s] \in Requests
  /\ \A l \in DOMAIN LifeExchange : LifeExchange[l] \in Requests
BY ExchangeTable, LifeExchangeTable DEF Requests, FileRequests, Neutral, Events

LEMMA NoneIsOther ==
  /\ Session # None /\ Lifecycle # None /\ Session # Lifecycle
  /\ None \notin Requests /\ None \notin Results
  /\ None # "ok" /\ None # "error" /\ None # "Detach"
BY DistinctAssumption DEF Results

(***************************************************************************)
(* What the groups of actions leave alone.                                 *)
(***************************************************************************)
LEMMA BeginLeaves ==
  ASSUME NEW o, NEW s, Begin(o, s)
  PROVE  /\ session = "running" /\ step = "idle" /\ step' = s /\ current' = o
         /\ UNCHANGED <<session, helperVars, life, serverVars>>
BY DEF Begin

LEMMA ServerLeaves ==
  ASSUME Serve \/ PipeFails \/ Retirement \/ DesktopRequestsDetach
  PROVE  UNCHANGED mountVars
BY DEF Serve, PipeFails, Retirement, DesktopRequestsDetach

LEMMA KernelLeaves ==
  ASSUME HelperUnmounts \/ HelperGivesUp \/ UserUnmounts \/ SessionEnds \/ SessionBreaks
  PROVE  UNCHANGED <<callbackVars, life, serverVars, using, releasing>>
BY DEF HelperUnmounts, HelperGivesUp, UserUnmounts, SessionEnds, SessionBreaks,
       SessionLeaves, KernelUnmounts, kernelVars

\* The steps of run() that make no call.
LocalStep == Mount \/ Check \/ OrdinaryUnmount \/ Join \/ DropSession

LEMMA LocalLeaves ==
  ASSUME LocalStep
  PROVE  /\ UNCHANGED <<callbackVars, serverVars, using, releasing>>
         /\ life \in {"mount", "check", "helper", "join", "lost"}
BY DEF LocalStep, Mount, Check, OrdinaryUnmount, Join, DropSession, LifeUnchanged,
       kernelVars, serverVars

LEMMA LifecycleReturnLeaves ==
  ASSUME NEW r, LifecycleReturn(r)
  PROVE  UNCHANGED <<callbackVars, remote, controlVars, kernelVars, session, helperVars>>
BY DEF LifecycleReturn, LifeUnchanged

LEMMA NextCases ==
  ASSUME [Next]_vars
  PROVE  \/ \E o \in Opened : Open(o) \/ Inspect(o) \/ Use(o) \/ ReadDir(o)
                                \/ CloseDescriptor(o) \/ Release(o)
         \/ SessionSend \/ LifecycleSend
         \/ \E r \in Results \cup {"Offline"} : SessionReturn(r) \/ LifecycleReturn(r)
         \/ HelperUnmounts \/ HelperGivesUp \/ UserUnmounts \/ SessionEnds \/ SessionBreaks
         \/ LocalStep
         \/ Serve \/ PipeFails \/ Retirement \/ DesktopRequestsDetach
         \/ UNCHANGED vars
BY DEF Next, Callback, SessionStep, LifecycleStep, LocalStep

(***************************************************************************)
(* Type correctness.                                                       *)
(***************************************************************************)
MountTypeOK ==
  /\ mounted \in {"no", "yes", "gone", "forced"}
  /\ using \in SUBSET Opened
  /\ releasing \in SUBSET Opened
  /\ kind \in [Opened -> {"file", "dir", "none"}]
  /\ held \in SUBSET Opened
  /\ step \in CallSteps \cup {"idle"}
  /\ current \in Opened
  /\ session \in {"none", "running", "ended", "broken"}
  /\ helper \in {"none", "running", "done", "refused"}
  /\ orphans \in BOOLEAN
  /\ life \in Lives

ServerTypeOK ==
  /\ ControlTypeOK
  /\ caller \in Threads \cup {None}
  /\ request \in Requests \cup {None}
  /\ reply \in Results \cup {None}
  /\ closed \in BOOLEAN
  /\ server \in ServerStates
  /\ remote \in SUBSET Opened

LEMMA TypeParts == TypeOK <=> MountTypeOK /\ ServerTypeOK
BY DEF TypeOK, MountTypeOK, ServerTypeOK

LEMMA TypeInit == Init => TypeOK
<1> SUFFICES ASSUME Init PROVE TypeOK
  OBVIOUS
<1>1. ServerTypeOK
  BY DEF Init, ServerInit, ControlInit, ChannelInit, ControlTypeOK, Phases, Messages,
         ServerStates, ServerTypeOK
<1>2. MountTypeOK
  BY DEF Init, MountTypeOK, Lives
<1> QED BY <1>1, <1>2, TypeParts

LEMMA CallbackTypes ==
  ASSUME MountTypeOK, ServerTypeOK, NEW o \in Opened,
         Open(o) \/ Inspect(o) \/ Use(o) \/ ReadDir(o) \/ CloseDescriptor(o) \/ Release(o)
  PROVE  MountTypeOK' /\ UNCHANGED serverVars
<1> USE DEF MountTypeOK, helperVars, kernelVars
<1>1. CASE Open(o)
  BY <1>1, BeginLeaves, CallStepsAre DEF Open
<1>2. CASE Inspect(o) \/ Use(o) \/ ReadDir(o)
  BY <1>2, BeginLeaves, CallStepsAre DEF Inspect, Use, ReadDir
<1>3. CASE CloseDescriptor(o)
  BY <1>3 DEF CloseDescriptor, callbackVars
<1>4. CASE Release(o)
  BY <1>4, BeginLeaves, CallStepsAre DEF Release
<1> QED BY <1>1, <1>2, <1>3, <1>4

LEMMA ReturnsTypes ==
  ASSUME ServerTypeOK, NEW t, NEW r, Returns(t, r), UNCHANGED <<remote, controlVars>>
  PROVE  ServerTypeOK'
BY DEF ServerTypeOK, ControlTypeOK, controlVars, Returns, Receive, Lose, Refused,
       CannotWrite, channelVars

LEMMA SessionReturnTypes ==
  ASSUME MountTypeOK, ServerTypeOK, NEW r, SessionReturn(r)
  PROVE  MountTypeOK' /\ ServerTypeOK'
<1>1. ServerTypeOK'
  BY ReturnsTypes DEF SessionReturn
<1>2. held' \in SUBSET Opened
  BY DEF SessionReturn, HeldAfter, HandleAt, MountTypeOK
<1>3. /\ step' \in CallSteps \cup {"idle"} /\ using' \in SUBSET Opened
      /\ kind' \in [Opened -> {"file", "dir", "none"}]
  BY CallStepsAre DEF SessionReturn, Opening, Operating, Continue, EndsWithout, MountTypeOK
<1> QED BY <1>1, <1>2, <1>3 DEF SessionReturn, MountTypeOK, helperVars

LEMMA SendTypes ==
  ASSUME MountTypeOK, ServerTypeOK, SessionSend \/ LifecycleSend
  PROVE  MountTypeOK' /\ ServerTypeOK'
<1>1. ServerTypeOK'
  BY RequestTypes
  DEF SessionSend, LifecycleSend, Send, ServerTypeOK, ControlTypeOK, controlVars
<1>2. UNCHANGED mountVars
  BY DEF SessionSend, LifecycleSend
<1> QED BY <1>1, <1>2 DEF MountTypeOK, mountVars, kernelVars, callbackVars, helperVars

LEMMA RunTypes ==
  ASSUME MountTypeOK,
         LocalStep \/ HelperUnmounts \/ HelperGivesUp \/ UserUnmounts \/ SessionEnds
           \/ SessionBreaks
  PROVE  MountTypeOK' /\ UNCHANGED serverVars
<1> USE DEF MountTypeOK, callbackVars, kernelVars, helperVars
<1>1. CASE LocalStep
  <2>1. UNCHANGED <<callbackVars, serverVars, using, releasing>>
    BY <1>1, LocalLeaves
  <2>2. /\ mounted' \in {"no", "yes", "gone", "forced"} /\ life' \in Lives
        /\ session' \in {"none", "running", "ended", "broken"}
        /\ helper' \in {"none", "running", "done", "refused"} /\ orphans' \in BOOLEAN
    BY <1>1 DEF LocalStep, Mount, Check, OrdinaryUnmount, Join, DropSession, ForceOff, Lives
  <2> QED BY <2>1, <2>2
<1>2. CASE HelperUnmounts \/ HelperGivesUp \/ UserUnmounts \/ SessionEnds \/ SessionBreaks
  BY <1>2, KernelLeaves
  DEF HelperUnmounts, HelperGivesUp, UserUnmounts, SessionEnds, SessionBreaks,
      SessionLeaves, KernelUnmounts
<1> QED BY <1>1, <1>2

LEMMA LifecycleReturnTypes ==
  ASSUME MountTypeOK, ServerTypeOK, NEW r, LifecycleReturn(r)
  PROVE  MountTypeOK' /\ ServerTypeOK'
<1>1. life' \in Lives
  BY DEF LifecycleReturn, AfterPoll, AfterDetached, Lives
<1>2. ServerTypeOK'
  BY ReturnsTypes, LifecycleReturnLeaves DEF LifecycleReturn
<1> QED
  BY <1>1, <1>2, LifecycleReturnLeaves
  DEF MountTypeOK, kernelVars, callbackVars, helperVars

LEMMA ServerTypes ==
  ASSUME MountTypeOK, ServerTypeOK, Serve \/ PipeFails \/ Retirement \/ DesktopRequestsDetach
  PROVE  ServerTypeOK'
<1> USE DEF ServerTypeOK, ControlTypeOK, controlVars
<1>1. CASE \E succeeds \in BOOLEAN : DispatchFile(HandleAt, succeeds)
  BY <1>1 DEF DispatchFile, Answer, Tables, Results, HandleAt, MountTypeOK
<1>2. CASE DispatchTimedOut(HandleAt)
  BY <1>2 DEF DispatchTimedOut, AnswerTimedOut, Tables, Results, ServerStates, HandleAt,
              MountTypeOK
<1>3. CASE DispatchPoll
  BY <1>3 DEF DispatchPoll, Answer, Directive, TakeDirective, Results
<1>4. CASE DispatchReport
  BY <1>4 DEF DispatchReport, Answer, Report, Results, Phases, Messages
<1>5. CASE PipeFails
  BY <1>5 DEF PipeFails, PipeBreaks, Break, ServerStates
<1>6. CASE Retirement
  BY <1>6 DEF Retirement, ServerRetires, ServerStops, Retire, Stop, Fail, ServerStates,
              Phases, Messages
<1>7. CASE DesktopRequestsDetach
  BY <1>7 DEF DesktopRequestsDetach, RequestDetach, Phases, Messages, channelVars
<1> QED BY <1>1, <1>2, <1>3, <1>4, <1>5, <1>6, <1>7 DEF Serve, Dispatch

LEMMA TypeStep == TypeOK /\ [Next]_vars => TypeOK'
<1> SUFFICES ASSUME MountTypeOK, ServerTypeOK, [Next]_vars
             PROVE  MountTypeOK' /\ ServerTypeOK'
  BY TypeParts DEF TypeOK, MountTypeOK, ServerTypeOK
<1>1. UNCHANGED mountVars => MountTypeOK'
  BY DEF MountTypeOK, mountVars, kernelVars, callbackVars, helperVars
<1>2. UNCHANGED serverVars => ServerTypeOK'
  BY DEF ServerTypeOK, ControlTypeOK, serverVars, controlVars, channelVars
<1>3. UNCHANGED vars => UNCHANGED mountVars /\ UNCHANGED serverVars
  BY DEF vars
<1> QED
  BY <1>1, <1>2, <1>3, NextCases, CallbackTypes, SessionReturnTypes, SendTypes, RunTypes,
     LifecycleReturnTypes, ServerTypes, ServerLeaves

\* Every variable of the process, the pipes and the server keeps to its type, for
\* any number of open files and directories.
THEOREM TypeCorrect == Spec => []TypeOK
BY TypeInit, TypeStep, PTL DEF Spec

(***************************************************************************)
(* The inductive invariant, in parts.                                      *)
(***************************************************************************)
\* The exchange on the pipes belongs to the thread that waits for it.
ExchangeInv ==
  /\ closed => server = "stopped"
  /\ caller = Session => step \in CallSteps
  /\ caller = Lifecycle => life \in DOMAIN LifeExchange
  /\ request # None => caller # None
  /\ request # None /\ caller = Session => request = Exchange[step]
  /\ request # None /\ caller = Lifecycle => request = LifeExchange[life]
  /\ reply # None => caller # None /\ request = None

\* The session serves a mount; the kernel lets go of it only when it is not in
\* use, and the session ends well only after that.
SessionInv ==
  /\ mounted = "no" <=> session = "none"
  /\ life \in {"negotiate", "mount"} => session = "none"
  /\ session = "none" => life \in {"negotiate", "mount", "failure"}
  /\ life = "reportDetached" => session = "ended"
  /\ session = "ended" => mounted = "gone"
  /\ session # "running" => step = "idle"
  /\ mounted \in {"no", "gone"} => using = {}

\* A slot is in use while a call runs on it, unless the call is its release; a
\* handle belongs to a slot that is in use, or whose release is still to come.
SlotInv ==
  /\ step \notin {"idle", "release", "releasedir"} => current \in using
  /\ step \in {"open", "create", "opendir", "inspect"} => current \notin held
  /\ step \in {"open", "create", "opendir", "rewind", "reopen"} => kind[current] # "none"
  /\ \A o \in Opened : kind[o] = "none" => o \notin held
  /\ \A o \in held : \/ o \in using \cup releasing
                     \/ o = current /\ step \in {"release", "releasedir"}

\* The handles that the server keeps, until it retires: those of the bridge, or
\* those that the bridge will have when it takes the reply that waits for it.
AgreeInv ==
  server = "serving" =>
    IF caller = Session /\ request = None
      THEN reply # None /\ remote = HeldAfter(reply)
      ELSE remote = held

\* A report that has not been answered yet, or a step that leads to one.
Unanswered == caller # Lifecycle \/ request # None

\* What run() knows of the phase: it follows a directive that was taken from the
\* desktop, and its reports are those that the phase expects.
PhaseInv ==
  /\ DetachOnlyOnRequest
  /\ phase = "Failed" => server \in {"closing", "stopped"}
  /\ life \in {"negotiate", "mount"} \/ (life = "ready" /\ Unanswered)
     => phase \in {"Starting", "Failed"}
  /\ \/ life \in {"check", "poll", "helper", "join"}
     \/ life = "reportDetached" /\ Unanswered
     \/ caller = Lifecycle /\ life \in {"ready", "reportBusy"} /\ reply = "ok"
     => phase \in {"Attached", "Detaching", "Failed"}
  /\ \/ caller = Lifecycle /\ life = "poll" /\ reply = "Detach"
     \/ life = "reportBusy" /\ Unanswered
     => phase \in {"Detaching", "Failed"} /\ ~pending
  /\ phase = "Detached" => session = "ended"
  /\ caller = Lifecycle /\ life = "reportDetached" /\ reply = "ok"
     => phase = "Detached"
  /\ life = "success" => phase = "Detached"

IInv ==
  TypeOK /\ ExchangeInv /\ SessionInv /\ SlotInv /\ AgreeInv /\ PhaseInv

LEMMA InitIInv == Init => IInv
<1> SUFFICES ASSUME Init PROVE IInv
  OBVIOUS
<1>1. TypeOK
  BY TypeInit
<1>2. ExchangeInv /\ AgreeInv
  BY NoneIsOther DEF Init, ServerInit, ChannelInit, ExchangeInv, AgreeInv
<1>3. SessionInv /\ SlotInv
  BY DEF Init, SessionInv, SlotInv
<1>4. PhaseInv
  BY NoneIsOther
  DEF Init, ServerInit, ControlInit, ChannelInit, PhaseInv, DetachOnlyOnRequest
<1> QED BY <1>1, <1>2, <1>3, <1>4 DEF IInv

(***************************************************************************)
(* The exchange on the pipes.                                              *)
(***************************************************************************)
\* A call comes back: nothing is left on the pipes, and what it returns is
\* Offline only once the server has stopped.
LEMMA ReturnsIdle ==
  ASSUME ExchangeInv, NEW t \in Threads, NEW r, Returns(t, r)
  PROVE  /\ caller' = None /\ request' = None /\ reply' = None
         /\ closed' => server' = "stopped"
         /\ server' = server /\ caller \in {t, None}
         /\ \/ caller = t /\ reply = r /\ r # None
            \/ r = "Offline" /\ server = "stopped"
BY NoneIsOther
DEF ExchangeInv, Returns, Receive, Lose, Refused, CannotWrite, channelVars

\* The server takes the request that is on the pipe and leaves the caller its
\* answer.
LEMMA ServeAnswers ==
  ASSUME Serve
  PROVE  /\ server = "serving" /\ request # None /\ request' = None
         /\ \/ server' = "serving"
            \/ server' = "retired" /\ UNCHANGED controlVars
         /\ UNCHANGED <<caller, closed>>
BY DEF Serve, Dispatch, DispatchFile, DispatchTimedOut, DispatchPoll, DispatchReport,
       Answer, AnswerTimedOut

LEMMA CallbackExchange ==
  ASSUME ExchangeInv, TypeOK, NEW o \in Opened,
         Open(o) \/ Inspect(o) \/ Use(o) \/ ReadDir(o) \/ CloseDescriptor(o) \/ Release(o)
  PROVE  ExchangeInv'
<1>1. /\ UNCHANGED <<life, serverVars>>
      /\ step = "idle" \/ step' = step
  BY BeginLeaves
  DEF Open, Inspect, Use, ReadDir, CloseDescriptor, Release, callbackVars
<1>2. step = "idle" => caller # Session
  BY CallStepsAre DEF ExchangeInv
<1> QED BY <1>1, <1>2 DEF ExchangeInv, serverVars, channelVars

LEMMA ExchangeStep == TypeOK /\ ExchangeInv /\ [Next]_vars => ExchangeInv'
<1> SUFFICES ASSUME TypeOK, ExchangeInv, [Next]_vars PROVE ExchangeInv'
  OBVIOUS
<1>1. CASE SessionSend
  BY <1>1, NoneIsOther DEF SessionSend, Send, ExchangeInv, mountVars, callbackVars
<1>2. CASE LifecycleSend
  BY <1>2, NoneIsOther DEF LifecycleSend, Send, ExchangeInv, mountVars, callbackVars
<1>3. ASSUME NEW r, SessionReturn(r) PROVE ExchangeInv'
  BY <1>3, ReturnsIdle, NoneIsOther DEF SessionReturn, ExchangeInv
<1>4. ASSUME NEW r, LifecycleReturn(r) PROVE ExchangeInv'
  BY <1>4, ReturnsIdle, NoneIsOther, LifecycleReturnLeaves
  DEF LifecycleReturn, ExchangeInv, callbackVars
<1>5. CASE LocalStep
  BY <1>5, LocalLeaves, CallStepsAre, NoneIsOther
  DEF ExchangeInv, callbackVars, serverVars, channelVars
<1>6. CASE HelperUnmounts \/ HelperGivesUp \/ UserUnmounts \/ SessionEnds \/ SessionBreaks
             \/ UNCHANGED vars
  BY <1>6, KernelLeaves
  DEF ExchangeInv, vars, mountVars, callbackVars, serverVars, channelVars
<1>7. CASE Serve
  BY <1>7, ServeAnswers, ServerLeaves DEF ExchangeInv, mountVars, callbackVars
<1>8. CASE PipeFails
  BY <1>8, ServerLeaves DEF PipeFails, PipeBreaks, Break, ExchangeInv, mountVars, callbackVars
<1>9. CASE Retirement
  BY <1>9, ServerLeaves
  DEF Retirement, ServerRetires, ServerStops, Retire, Stop, ExchangeInv, mountVars,
      callbackVars
<1>10. CASE DesktopRequestsDetach
  BY <1>10, ServerLeaves
  DEF DesktopRequestsDetach, ExchangeInv, mountVars, callbackVars, channelVars
<1> QED
  BY <1>1, <1>2, <1>3, <1>4, <1>5, <1>6, <1>7, <1>8, <1>9, <1>10, NextCases,
     CallbackExchange

(***************************************************************************)
(* The mount and its session.                                              *)
(***************************************************************************)
LEMMA CallbackSession ==
  ASSUME SessionInv, NEW o \in Opened,
         Open(o) \/ Inspect(o) \/ Use(o) \/ ReadDir(o) \/ CloseDescriptor(o) \/ Release(o)
  PROVE  SessionInv'
<1>1. UNCHANGED <<mounted, session, life>>
  BY BeginLeaves
  DEF Open, Inspect, Use, ReadDir, CloseDescriptor, Release, kernelVars
<1>2. session # "running" => step' = step
  BY BeginLeaves
  DEF Open, Inspect, Use, ReadDir, CloseDescriptor, Release, callbackVars
<1>3. mounted = "yes" \/ using' \subseteq using
  BY BeginLeaves
  DEF Open, Inspect, Use, ReadDir, CloseDescriptor, Release, kernelVars
<1> QED BY <1>1, <1>2, <1>3 DEF SessionInv

LEMMA KernelSession ==
  ASSUME SessionInv,
         HelperUnmounts \/ HelperGivesUp \/ UserUnmounts \/ SessionEnds \/ SessionBreaks
  PROVE  SessionInv'
<1>1. UNCHANGED <<using, step, life>>
  BY KernelLeaves DEF callbackVars
<1>2. CASE HelperUnmounts \/ UserUnmounts
  BY <1>1, <1>2 DEF HelperUnmounts, UserUnmounts, KernelUnmounts, SessionInv
<1>3. CASE HelperGivesUp
  BY <1>1, <1>3 DEF HelperGivesUp, kernelVars, SessionInv
<1>4. CASE SessionEnds \/ SessionBreaks
  BY <1>1, <1>4 DEF SessionEnds, SessionBreaks, SessionLeaves, kernelVars, SessionInv
<1> QED BY <1>2, <1>3, <1>4

LEMMA LocalSession ==
  ASSUME TypeOK, SessionInv, LocalStep
  PROVE  SessionInv'
<1>1. UNCHANGED <<using, step>>
  BY LocalLeaves DEF callbackVars
<1>2. CASE Mount
  BY <1>1, <1>2 DEF Mount, SessionInv
<1>3. CASE Check \/ OrdinaryUnmount
  BY <1>1, <1>3 DEF Check, OrdinaryUnmount, kernelVars, SessionInv
<1>4. CASE Join \/ DropSession
  BY <1>1, <1>4 DEF Join, DropSession, ForceOff, SessionInv, TypeOK
<1> QED BY <1>2, <1>3, <1>4 DEF LocalStep

LEMMA SessionStepKeeps == TypeOK /\ SessionInv /\ [Next]_vars => SessionInv'
<1> SUFFICES ASSUME TypeOK, SessionInv, [Next]_vars PROVE SessionInv'
  OBVIOUS
<1>1. CASE UNCHANGED mountVars
  BY <1>1 DEF mountVars, kernelVars, callbackVars, SessionInv
<1>2. ASSUME NEW r, SessionReturn(r) PROVE SessionInv'
  <2>1. UNCHANGED <<mounted, session, life>> /\ step # "idle" /\ using' \subseteq using
    BY <1>2, CallStepsAre
    DEF SessionReturn, Opening, Operating, Continue, EndsWithout
  <2> QED BY <2>1 DEF SessionInv
<1>3. ASSUME NEW r, LifecycleReturn(r) PROVE SessionInv'
  <2>1. UNCHANGED <<mounted, using, session, step>>
    BY <1>3, LifecycleReturnLeaves DEF kernelVars, callbackVars
  <2>2. life' \in {"mount", "failure", "check", "helper", "lost", "success"}
    BY <1>3 DEF LifecycleReturn, AfterPoll, AfterDetached
  <2>3. life' = "mount" => life = "negotiate"
    BY <1>3 DEF LifecycleReturn, AfterPoll, AfterDetached
  <2>4. life = "negotiate" => life' \in {"mount", "failure"}
    BY <1>3 DEF LifecycleReturn
  <2>5. life # "mount" /\ life # "failure"
    BY <1>3 DEF LifecycleReturn
  <2> QED BY <2>1, <2>2, <2>3, <2>4, <2>5 DEF SessionInv
<1> QED
  BY <1>1, <1>2, <1>3, NextCases, CallbackSession, KernelSession, LocalSession,
     ServerLeaves DEF SessionSend, LifecycleSend, vars

(***************************************************************************)
(* Slots and their handles.                                                *)
(***************************************************************************)
LEMMA CallbackSlot ==
  ASSUME TypeOK, SlotInv, NEW o \in Opened,
         Open(o) \/ Inspect(o) \/ Use(o) \/ ReadDir(o) \/ CloseDescriptor(o) \/ Release(o)
  PROVE  SlotInv'
<1>1. CASE Open(o) \/ Inspect(o)
  <2>1. /\ step = "idle" /\ step' \in {"open", "create", "opendir", "inspect"}
        /\ current' = o /\ using' = using \cup {o} /\ kind[o] = "none"
        /\ step' # "inspect" => kind'[o] # "none"
        /\ UNCHANGED <<releasing, held>>
        /\ \A p \in Opened : kind'[p] = "none" => kind[p] = "none"
    BY <1>1, BeginLeaves DEF Open, Inspect, TypeOK
  <2> QED BY <2>1 DEF SlotInv
<1>2. CASE Use(o) \/ ReadDir(o)
  <2>1. /\ o \in using /\ step = "idle" /\ current' = o
        /\ step' \in {"use", "list", "rewind", "reopen"}
        /\ step' # "use" => kind[o] # "none"
        /\ UNCHANGED <<using, releasing, kind, held>>
    BY <1>2, BeginLeaves DEF Use, ReadDir, kernelVars
  <2> QED BY <2>1 DEF SlotInv
<1>3. CASE CloseDescriptor(o)
  BY <1>3 DEF CloseDescriptor, callbackVars, SlotInv
<1>4. CASE Release(o)
  <2>1. /\ step = "idle" /\ releasing' = releasing \ {o} /\ UNCHANGED <<using, held>>
        /\ \/ step' = step /\ o \notin held /\ kind' = [kind EXCEPT ![o] = "none"]
           \/ step' \in {"release", "releasedir"} /\ current' = o /\ kind' = kind
    BY <1>4, BeginLeaves DEF Release
  <2> QED BY <2>1 DEF SlotInv, TypeOK
<1> QED BY <1>1, <1>2, <1>3, <1>4

\* A call that goes on keeps its slot in use; one that ends without a descriptor
\* leaves no handle behind.
LEMMA ReturnSlot ==
  ASSUME TypeOK, SlotInv, NEW r, SessionReturn(r)
  PROVE  SlotInv'
<1>1. /\ step \in CallSteps /\ held' = HeldAfter(r)
      /\ UNCHANGED <<current, releasing>>
  BY DEF SessionReturn
<1>2. /\ held' \subseteq held \cup {current}
      /\ current \in held' /\ current \notin held => step \in {"open", "create", "opendir", "reopen"}
                                                      /\ r = "ok"
      /\ step \in {"undo", "rewind", "release", "releasedir"} => current \notin held'
  BY <1>1 DEF HeldAfter, HandleAt
<1> DEFINE ends == \/ step \in {"open", "create", "opendir"} /\ r # "ok"
                   \/ step \in {"undo", "inspect"}
           goes == /\ step \notin {"undo", "inspect", "release", "releasedir"}
                   /\ step \in {"open", "create", "opendir"} => r = "ok"
<1>3. CASE ends
  <2>1. EndsWithout
    BY <1>1, <1>3, CallStepsAre DEF SessionReturn, Opening, Operating
  <2>2. current \notin held'
    BY <1>2, <1>3 DEF SlotInv
  <2> QED BY <1>1, <1>2, <2>1, <2>2 DEF EndsWithout, SlotInv, TypeOK
<1>4. CASE goes
  <2>1. /\ UNCHANGED <<kind, using>> /\ current \in using
        /\ step' \notin {"open", "create", "opendir", "inspect", "rewind", "release", "releasedir"}
        /\ step' = "reopen" => step = "rewind"
    BY <1>1, <1>4, CallStepsAre DEF SessionReturn, Opening, Operating, Continue, SlotInv
  <2>2. kind[current] = "none" => current \notin held'
    BY <1>2 DEF SlotInv, TypeOK
  <2> QED BY <1>1, <1>2, <1>4, <2>1, <2>2 DEF SlotInv
<1>5. CASE step \in {"release", "releasedir"}
  <2>1. /\ step' = "idle" /\ UNCHANGED using /\ kind' = [kind EXCEPT ![current] = "none"]
    BY <1>5, CallStepsAre DEF SessionReturn, Opening, Operating
  <2> QED BY <1>1, <1>2, <1>5, <2>1 DEF SlotInv, TypeOK
<1> QED BY <1>3, <1>4, <1>5

LEMMA SlotStep == TypeOK /\ SlotInv /\ [Next]_vars => SlotInv'
<1> SUFFICES ASSUME TypeOK, SlotInv, [Next]_vars PROVE SlotInv'
  OBVIOUS
<1>1. CASE UNCHANGED <<using, releasing, callbackVars>>
  BY <1>1 DEF callbackVars, SlotInv
<1> QED
  BY <1>1, NextCases, CallbackSlot, ReturnSlot, ServerLeaves, KernelLeaves, LocalLeaves,
     LifecycleReturnLeaves
  DEF SessionSend, LifecycleSend, vars, mountVars, kernelVars

(***************************************************************************)
(* The handles on both sides.                                              *)
(***************************************************************************)
\* The server does to its table what the session will do to its own when it
\* takes the answer.
LEMMA ServeAgrees ==
  ASSUME TypeOK, ExchangeInv, AgreeInv, Serve
  PROVE  AgreeInv'
<1> SUFFICES ASSUME server' = "serving"
             PROVE  IF caller = Session THEN reply' # None /\ remote' = HeldAfter(reply')
                                        ELSE remote' = held
  BY ServeAnswers, ServerLeaves
  DEF AgreeInv, HeldAfter, HandleAt, mountVars, callbackVars
<1>1. /\ server = "serving" /\ request # None /\ remote = held
      /\ ~DispatchTimedOut(HandleAt)
  BY ServeAnswers DEF AgreeInv, DispatchTimedOut, AnswerTimedOut
<1>2. CASE caller = Session
  <2>1. request = Exchange[step] /\ step \in CallSteps
    BY <1>1, <1>2 DEF ExchangeInv
  <2>2. request \in FileRequests
    BY <2>1, ExchangeTable
  <2>3. PICK succeeds \in BOOLEAN : DispatchFile(HandleAt, succeeds)
    BY <1>1, <2>2
    DEF Serve, Dispatch, DispatchPoll, DispatchReport, FileRequests, Opens, Closes,
        Neutral, Events
  <2>4. reply' = IF succeeds THEN "ok" ELSE "error"
    BY <2>3 DEF DispatchFile, Answer
  <2>5. remote' = HeldAfter(reply')
    BY <1>1, <2>1, <2>3, <2>4, ExchangeTable DEF DispatchFile, Tables, HeldAfter
  <2> QED BY <1>2, <2>4, <2>5, NoneIsOther
<1>3. CASE caller = Lifecycle
  <2>1. request \notin Opens \cup Closes
    BY <1>1, <1>3, LifeExchangeTable DEF ExchangeInv, Opens, Closes
  <2>2. remote' = remote
    BY <1>1, <2>1
    DEF Serve, Dispatch, DispatchFile, DispatchPoll, DispatchReport, Tables
  <2> QED BY <1>1, <1>3, <2>2, NoneIsOther
<1> QED BY <1>1, <1>2, <1>3 DEF ExchangeInv, TypeOK

LEMMA AgreeStep ==
  TypeOK /\ ExchangeInv /\ AgreeInv /\ [Next]_vars => AgreeInv'
<1> SUFFICES ASSUME TypeOK, ExchangeInv, AgreeInv, [Next]_vars PROVE AgreeInv'
  OBVIOUS
<1>1. ASSUME NEW o \in Opened,
             Open(o) \/ Inspect(o) \/ Use(o) \/ ReadDir(o) \/ CloseDescriptor(o) \/ Release(o)
      PROVE  AgreeInv'
  <2>1. /\ UNCHANGED serverVars /\ held' = held
        /\ step = "idle" \/ UNCHANGED <<step, current>>
    BY <1>1, BeginLeaves
    DEF Open, Inspect, Use, ReadDir, CloseDescriptor, Release, callbackVars
  <2>2. step = "idle" => caller # Session
    BY CallStepsAre DEF ExchangeInv
  <2> QED
    BY <2>1, <2>2 DEF AgreeInv, HeldAfter, HandleAt, serverVars, channelVars
<1>2. CASE SessionSend \/ LifecycleSend
  BY <1>2, RequestTypes, NoneIsOther
  DEF SessionSend, LifecycleSend, Send, AgreeInv, mountVars, callbackVars
<1>3. ASSUME NEW r, SessionReturn(r) PROVE AgreeInv'
  <2>1. /\ caller' = None /\ server' = server /\ remote' = remote /\ held' = HeldAfter(r)
        /\ \/ caller = Session /\ reply = r /\ r # None
           \/ server = "stopped"
    BY <1>3, ReturnsIdle DEF SessionReturn
  <2>2. reply # None => request = None
    BY DEF ExchangeInv
  <2> QED BY <2>1, <2>2, NoneIsOther DEF AgreeInv
<1>4. ASSUME NEW r, LifecycleReturn(r) PROVE AgreeInv'
  <2>1. caller' = None /\ server' = server /\ caller \in {Lifecycle, None}
    BY <1>4, ReturnsIdle DEF LifecycleReturn
  <2>2. UNCHANGED <<remote, held>>
    BY <1>4, LifecycleReturnLeaves DEF callbackVars
  <2> QED BY <2>1, <2>2, NoneIsOther DEF AgreeInv
<1>5. CASE UNCHANGED <<callbackVars, serverVars>>
  BY <1>5 DEF AgreeInv, HeldAfter, HandleAt, callbackVars, serverVars, channelVars
<1>6. CASE Serve
  BY <1>6, ServeAgrees
<1>7. CASE PipeFails \/ Retirement
  BY <1>7
  DEF PipeFails, PipeBreaks, Break, Retirement, ServerRetires, ServerStops, Retire, Stop,
      AgreeInv
<1>8. CASE DesktopRequestsDetach
  BY <1>8, ServerLeaves
  DEF DesktopRequestsDetach, AgreeInv, HeldAfter, HandleAt, mountVars, callbackVars,
      channelVars
<1> QED
  BY <1>1, <1>2, <1>3, <1>4, <1>5, <1>6, <1>7, <1>8, NextCases, KernelLeaves, LocalLeaves
  DEF vars, mountVars

(***************************************************************************)
(* The phase and what run() does about it.                                 *)
(***************************************************************************)
\* Which requests change the control, and how the answer tells of it.
LEMMA ServeControl ==
  ASSUME TypeOK, ExchangeInv, Serve
  PROVE  \/ caller = Session /\ UNCHANGED <<phase, pending>>
         \/ /\ caller = Lifecycle /\ life \in DOMAIN LifeExchange
            /\ request = LifeExchange[life]
            /\ \/ /\ UNCHANGED <<phase, pending>>
                  /\ life = "poll" => reply' # "Detach"
                  /\ life \in {"ready", "reportDetached", "reportBusy"} => reply' # "ok"
               \/ /\ life = "poll" /\ phase' = phase /\ ~pending'
                  /\ reply' = IF pending THEN "Detach" ELSE "Continue"
               \/ /\ life \in {"ready", "reportDetached", "reportBusy"}
                  /\ Report(request)
<1>1. request # None
  BY ServeAnswers
<1>2. CASE caller = Session
  <2>1. request \in FileRequests
    BY <1>1, <1>2, ExchangeTable DEF ExchangeInv
  <2>2. request # "Poll" /\ request \notin Events
    BY <2>1 DEF FileRequests, Opens, Closes, Neutral, Events
  <2> QED
    BY <1>2, <2>2
    DEF Serve, Dispatch, DispatchFile, DispatchTimedOut, DispatchPoll, DispatchReport,
        controlVars
<1>3. CASE caller = Lifecycle
  <2>1. life \in DOMAIN LifeExchange /\ request = LifeExchange[life]
    BY <1>1, <1>3, NoneIsOther DEF ExchangeInv
  <2>2. /\ request = "Poll" <=> life = "poll"
        /\ request \in Events <=> life \in {"ready", "reportDetached", "reportBusy"}
        /\ request \in FileRequests => life = "negotiate"
    BY <2>1, LifeExchangeTable, CallStepsAre
    DEF Events, LifeExchange, FileRequests, Opens, Closes, Neutral
  <2>3. CASE \/ \E succeeds \in BOOLEAN : DispatchFile(HandleAt, succeeds)
             \/ DispatchTimedOut(HandleAt)
    BY <1>3, <2>1, <2>2, <2>3 DEF DispatchFile, DispatchTimedOut, controlVars
  <2>4. CASE DispatchPoll
    BY <1>3, <2>1, <2>2, <2>4
    DEF DispatchPoll, Answer, TakeDirective, Directive, controlVars
  <2>5. CASE DispatchReport
    BY <1>3, <2>1, <2>2, <2>5 DEF DispatchReport, Answer, controlVars
  <2> QED BY <2>3, <2>4, <2>5 DEF Serve, Dispatch
<1> QED BY <1>1, <1>2, <1>3 DEF ExchangeInv, TypeOK

LEMMA ServePhase ==
  ASSUME TypeOK, ExchangeInv, SessionInv, PhaseInv, Serve
  PROVE  PhaseInv'
<1> USE DEF PhaseInv, DetachOnlyOnRequest, Unanswered
<1>1. /\ UNCHANGED <<caller, life, session, helper>>
      /\ server = "serving" /\ request # None /\ request' = None
      /\ phase' = "Failed" => phase' = phase
  BY ServeAnswers, ServerLeaves
  DEF mountVars, helperVars, Serve, Dispatch, DispatchFile, DispatchTimedOut, DispatchPoll,
      DispatchReport, TakeDirective, Report, controlVars
<1>2. CASE caller = Session /\ UNCHANGED <<phase, pending>>
  BY <1>1, <1>2, NoneIsOther
<1>3. CASE caller = Lifecycle /\ life \in DOMAIN LifeExchange /\ request = LifeExchange[life]
  <2>1. /\ life = "ready" => request = "Ready"
        /\ life = "reportBusy" => request = "DetachFailed"
        /\ life = "reportDetached" => request = "Detached"
    BY <1>3, LifeExchangeTable
  <2>2. CASE /\ UNCHANGED <<phase, pending>>
             /\ life = "poll" => reply' # "Detach"
             /\ life \in {"ready", "reportDetached", "reportBusy"} => reply' # "ok"
    BY <1>1, <1>3, <2>2
  <2>3. CASE /\ life = "poll" /\ phase' = phase /\ ~pending'
             /\ reply' = IF pending THEN "Detach" ELSE "Continue"
    BY <1>1, <1>3, <2>3
  <2>4. CASE life \in {"ready", "reportDetached", "reportBusy"} /\ Report(request)
    BY <1>1, <1>3, <2>1, <2>4 DEF Report, Accepts, SessionInv
  <2> QED BY <1>3, <2>2, <2>3, <2>4, ServeControl, NoneIsOther
<1> QED BY <1>2, <1>3, ServeControl

LEMMA LocalPhase ==
  ASSUME TypeOK, ExchangeInv, SessionInv, PhaseInv, LocalStep
  PROVE  PhaseInv'
<1> USE DEF PhaseInv, DetachOnlyOnRequest, Unanswered
<1>1. /\ UNCHANGED <<phase, pending, caller, request, reply, server>>
      /\ life \notin DOMAIN LifeExchange
  BY LocalLeaves, CallStepsAre DEF serverVars, controlVars, channelVars
<1>2. caller # Lifecycle
  BY <1>1 DEF ExchangeInv
<1>3. CASE Mount
  BY <1>1, <1>2, <1>3 DEF Mount, helperVars, SessionInv
<1>4. CASE Check
  BY <1>1, <1>2, <1>4 DEF Check, helperVars
<1>5. CASE OrdinaryUnmount
  BY <1>1, <1>2, <1>5 DEF OrdinaryUnmount
<1>6. CASE Join \/ DropSession
  BY <1>1, <1>2, <1>6 DEF Join, DropSession, helperVars
<1> QED BY <1>3, <1>4, <1>5, <1>6 DEF LocalStep

\* Only an orderly answer takes run() on to a step that relies on it.
LEMMA ReturnPhase ==
  ASSUME TypeOK, ExchangeInv, PhaseInv, NEW r, LifecycleReturn(r)
  PROVE  PhaseInv'
<1> USE DEF PhaseInv, DetachOnlyOnRequest, Unanswered
<1>1. UNCHANGED <<phase, pending, session, helper, server>> /\ caller' = None
  BY LifecycleReturnLeaves, ReturnsIdle DEF controlVars, helperVars, LifecycleReturn
<1>2. \/ caller = Lifecycle /\ reply = r
      \/ r = "Offline"
  BY ReturnsIdle DEF LifecycleReturn
<1>3. helper = "none"
  BY DEF LifecycleReturn
<1>4. \/ life = "negotiate" /\ life' \in {"mount", "failure"}
      \/ life \in {"ready", "reportBusy"} /\ life' = "check" /\ r = "ok"
      \/ life = "poll" /\ life' = "check"
      \/ life = "poll" /\ life' = "helper" /\ r = "Detach"
      \/ life = "reportDetached" /\ life' = "success" /\ r = "ok"
      \/ life' \in {"lost", "failure"} /\ life # "mount"
  BY DEF LifecycleReturn, AfterPoll, AfterDetached
<1> QED BY <1>1, <1>2, <1>3, <1>4, NoneIsOther

LEMMA PhaseStep ==
  TypeOK /\ ExchangeInv /\ SessionInv /\ PhaseInv /\ [Next]_vars => PhaseInv'
<1> SUFFICES ASSUME TypeOK, ExchangeInv, SessionInv, PhaseInv, [Next]_vars
             PROVE  PhaseInv'
  OBVIOUS
<1> USE DEF PhaseInv, DetachOnlyOnRequest, Unanswered
<1>1. ASSUME NEW o \in Opened,
             Open(o) \/ Inspect(o) \/ Use(o) \/ ReadDir(o) \/ CloseDescriptor(o) \/ Release(o)
      PROVE  PhaseInv'
  <2>1. UNCHANGED <<session, helperVars, life, serverVars>>
    BY <1>1, BeginLeaves
    DEF Open, Inspect, Use, ReadDir, CloseDescriptor, Release
  <2> QED BY <2>1 DEF helperVars, serverVars, controlVars, channelVars
<1>2. CASE SessionSend
  BY <1>2, NoneIsOther DEF SessionSend, Send, mountVars, helperVars, controlVars
<1>3. CASE LifecycleSend
  BY <1>3, RequestTypes, NoneIsOther
  DEF LifecycleSend, Send, mountVars, helperVars, controlVars
<1>4. ASSUME NEW r, SessionReturn(r) PROVE PhaseInv'
  <2>1. /\ UNCHANGED <<session, helperVars, life, controlVars, server>>
        /\ caller' = None /\ caller # Lifecycle
    BY <1>4, ReturnsIdle, NoneIsOther DEF SessionReturn
  <2> QED BY <2>1, NoneIsOther DEF helperVars, controlVars
<1>5. CASE HelperUnmounts \/ HelperGivesUp \/ UserUnmounts \/ SessionEnds \/ SessionBreaks
  <2>1. /\ UNCHANGED <<life, serverVars>>
        /\ helper' # "none" => helper # "none"
        /\ session = "ended" => session' = "ended"
    BY <1>5, KernelLeaves
    DEF HelperUnmounts, HelperGivesUp, UserUnmounts, SessionEnds, SessionBreaks,
        SessionLeaves, helperVars
  <2> QED BY <2>1 DEF serverVars, controlVars, channelVars
<1>6. CASE PipeFails
  BY <1>6, ServerLeaves, NoneIsOther
  DEF PipeFails, PipeBreaks, Break, mountVars, helperVars, controlVars
<1>7. CASE Retirement
  BY <1>7, ServerLeaves
  DEF Retirement, ServerRetires, ServerStops, Retire, Stop, Fail, mountVars, helperVars,
      controlVars
<1>8. CASE DesktopRequestsDetach
  BY <1>8, ServerLeaves
  DEF DesktopRequestsDetach, RequestDetach, mountVars, helperVars, channelVars
<1>9. CASE UNCHANGED vars
  BY <1>9 DEF vars, mountVars, helperVars, serverVars, controlVars, channelVars
<1> QED
  BY <1>1, <1>2, <1>3, <1>4, <1>5, <1>6, <1>7, <1>8, <1>9, NextCases, ServePhase,
     LocalPhase, ReturnPhase

(***************************************************************************)
(* The invariant and what follows from it.                                 *)
(***************************************************************************)
LEMMA StepIInv == IInv /\ [Next]_vars => IInv'
BY TypeStep, ExchangeStep, SessionStepKeeps, SlotStep, AgreeStep, PhaseStep DEF IInv

LEMMA Invariance == Spec => []IInv
BY InitIInv, StepIInv, PTL DEF Spec

\* What the desktop shows as detached is gone, and gone in order: the kernel has
\* let go of the mount, nothing on it is in use and the session has ended well,
\* whoever unmounted it.  Success of the process means this.
THEOREM DetachedAlwaysGone == Spec => []DetachedMeansGone
<1>1. IInv => DetachedMeansGone
  BY DEF IInv, PhaseInv, SessionInv, DetachedMeansGone
<1> QED BY <1>1, Invariance, PTL

\* run() starts a helper only for a detach request that it has taken from the
\* desktop and that nobody has answered, one helper at a time.
THEOREM DetachAlwaysRequested == Spec => []DetachOnlyOnRequest
<1>1. IInv => DetachOnlyOnRequest
  BY DEF IInv, PhaseInv
<1> QED BY <1>1, Invariance, PTL

\* Whatever steps fail in whatever order, between two calls of the session the
\* bridge and the server have the same handles; after an orderly end only handles
\* are left whose release the kernel had not delivered.
THEOREM HandlesAlwaysAgree == Spec => []HandlesAgree
<1>1. IInv => HandlesAgree
  <2> SUFFICES ASSUME IInv PROVE HandlesAgree
    OBVIOUS
  <2>1. server = "serving" /\ caller # Session => remote = held
    BY DEF IInv, AgreeInv
  <2>2. session = "ended" => using = {} /\ step = "idle"
    BY DEF IInv, SessionInv
  <2>3. session = "ended" => held \subseteq releasing
    BY <2>2 DEF IInv, SlotInv
  <2> QED BY <2>1, <2>3 DEF HandlesAgree
<1> QED BY <1>1, Invariance, PTL

\* A report of run() never meets a phase that rejects it, which would force the
\* mount off.
THEOREM ReportsAlwaysExpected == Spec => []ReportsExpected
<1>1. IInv => ReportsExpected
  <2> SUFFICES ASSUME IInv, server = "serving", caller = Lifecycle, request \in Events
               PROVE  Accepts(request)
    BY DEF ReportsExpected
  <2>1. /\ request # None /\ life \in DOMAIN LifeExchange /\ request = LifeExchange[life]
        /\ phase # "Failed"
    BY NoneIsOther DEF IInv, ExchangeInv, PhaseInv, Requests
  <2>2. \/ life = "ready" /\ request = "Ready"
        \/ life = "reportDetached" /\ request = "Detached"
        \/ life = "reportBusy" /\ request = "DetachFailed"
    BY <2>1, LifeExchangeTable, CallStepsAre DEF Events, LifeExchange
  <2> QED BY <2>1, <2>2 DEF IInv, PhaseInv, Unanswered, Accepts
<1> QED BY <1>1, Invariance, PTL

(***************************************************************************)
(* FuseMount implements Attachment: its initial states map to initial      *)
(* ones, and every step from a state of the invariant maps to a step of    *)
(* Attachment or to none.                                                  *)
(***************************************************************************)
LEMMA PromiseInit == Init => Promise!Init
BY DEF Init, ServerInit, ControlInit, Promise!Init

\* A step that leaves these alone does not show.
LEMMA PromiseStutter ==
  ASSUME phase' = phase, using' = using, mounted' = mounted
  PROVE  UNCHANGED Promise!vars
BY DEF Promise!vars

\* An application that opens or inspects begins a use of the drive; the last one
\* that closes ends it.
LEMMA CallbackPromise ==
  ASSUME NEW o \in Opened,
         Open(o) \/ Inspect(o) \/ Use(o) \/ ReadDir(o) \/ CloseDescriptor(o) \/ Release(o)
  PROVE  [Promise!Next]_Promise!vars
<1>1. UNCHANGED <<phase, mounted>>
  BY BeginLeaves
  DEF Open, Inspect, Use, ReadDir, CloseDescriptor, Release, kernelVars, serverVars,
      controlVars
<1>2. CASE Open(o) \/ Inspect(o)
  <2>1. mounted = "yes" /\ using' # {}
    BY <1>2 DEF Open, Inspect
  <2>2. Promise!BeginUse
    BY <1>1, <2>1 DEF Promise!BeginUse
  <2> QED BY <2>2 DEF Promise!Next
<1>3. CASE Use(o) \/ ReadDir(o) \/ Release(o)
  BY <1>1, <1>3, PromiseStutter DEF Use, ReadDir, Release, kernelVars
<1>4. CASE CloseDescriptor(o)
  <2>1. o \in using /\ using' = using \ {o}
    BY <1>4 DEF CloseDescriptor
  <2>2. CASE using' = {}
    <3>1. Promise!EndUse
      BY <1>1, <2>1, <2>2 DEF Promise!EndUse
    <3> QED BY <3>1 DEF Promise!Next
  <2>3. CASE using' # {}
    BY <1>1, <2>1, <2>3 DEF Promise!vars
  <2> QED BY <2>2, <2>3
<1> QED BY <1>2, <1>3, <1>4

LEMMA ReturnPromise ==
  ASSUME NEW r, SessionReturn(r)
  PROVE  [Promise!Next]_Promise!vars
<1>1. UNCHANGED <<phase, mounted>> /\ (using' = using \/ using' = using \ {current})
  BY DEF SessionReturn, Opening, Operating, Continue, EndsWithout, controlVars
<1>2. CASE (using' = {}) <=> (using = {})
  BY <1>1, <1>2 DEF Promise!vars
<1>3. CASE using' = {} /\ using # {}
  <2>1. Promise!EndUse
    BY <1>1, <1>3 DEF Promise!EndUse
  <2> QED BY <2>1 DEF Promise!Next
<1> QED BY <1>1, <1>2, <1>3

\* The kernel gives the drive up when it unmounts it, asked by whomever; dropping
\* the session tears it.
LEMMA MountPromise ==
  ASSUME IInv,
         LocalStep \/ HelperUnmounts \/ HelperGivesUp \/ UserUnmounts \/ SessionEnds
           \/ SessionBreaks
  PROVE  [Promise!Next]_Promise!vars
<1>1. UNCHANGED <<phase, using>>
  BY LocalLeaves, KernelLeaves DEF serverVars, controlVars
<1>2. CASE mounted' = mounted
  BY <1>1, <1>2, PromiseStutter
<1>3. CASE mounted = "no" /\ mounted' = "yes"
  <2>1. Promise!Appear
    BY <1>1, <1>3 DEF Promise!Appear
  <2> QED BY <2>1 DEF Promise!Next
<1>4. CASE mounted = "yes" /\ using = {} /\ mounted' = "gone"
  <2>1. Promise!GiveUp
    BY <1>1, <1>4 DEF Promise!GiveUp
  <2> QED BY <2>1 DEF Promise!Next
<1>5. CASE mounted = "yes" /\ mounted' = "forced"
  <2>1. Promise!TearDown
    BY <1>1, <1>5 DEF Promise!TearDown
  <2> QED BY <2>1 DEF Promise!Next
<1>6. CASE LocalStep
  <2>1. Mount => mounted = "no"
    BY DEF Mount, IInv, SessionInv
  <2> QED
    BY <1>2, <1>3, <1>5, <1>6, <2>1
    DEF LocalStep, Mount, Check, OrdinaryUnmount, Join, DropSession, ForceOff, kernelVars
<1>7. CASE HelperUnmounts \/ HelperGivesUp \/ UserUnmounts \/ SessionEnds \/ SessionBreaks
  BY <1>2, <1>4, <1>7
  DEF HelperUnmounts, HelperGivesUp, UserUnmounts, SessionEnds, SessionBreaks,
      SessionLeaves, KernelUnmounts, kernelVars
<1> QED BY <1>6, <1>7

\* The desktop's view changes where the server processes a report.
LEMMA ServePromise ==
  ASSUME IInv, Serve
  PROVE  [Promise!Next]_Promise!vars
<1>1. UNCHANGED <<using, mounted>>
  BY ServerLeaves DEF mountVars, kernelVars
<1>2. CASE phase' = phase
  BY <1>1, <1>2, PromiseStutter
<1>3. CASE phase' # phase
  <2>1. /\ caller = Lifecycle /\ life \in {"ready", "reportDetached", "reportBusy"}
        /\ life \in DOMAIN LifeExchange /\ request = LifeExchange[life] /\ Report(request)
    BY <1>3, ServeControl DEF IInv
  <2>2. CASE life = "ready"
    <3>1. request = "Ready" /\ mounted # "no"
      BY <2>1, <2>2, LifeExchangeTable DEF IInv, SessionInv
    <3>2. Promise!Ready
      BY <1>1, <2>1, <3>1 DEF Report, Accepts, Promise!Ready, IInv, TypeOK
    <3> QED BY <3>2 DEF Promise!Next
  <2>3. CASE life = "reportDetached"
    <3>1. request = "Detached" /\ mounted = "gone"
      BY <2>1, <2>3, LifeExchangeTable DEF IInv, SessionInv
    <3>2. Promise!Confirm
      BY <1>1, <2>1, <3>1 DEF Report, Accepts, Promise!Confirm
    <3> QED BY <3>2 DEF Promise!Next
  <2>4. CASE life = "reportBusy"
    <3>1. request = "DetachFailed"
      BY <2>1, <2>4, LifeExchangeTable
    <3>2. Promise!Refuse
      BY <1>1, <2>1, <3>1 DEF Report, Accepts, Promise!Refuse
    <3> QED BY <3>2 DEF Promise!Next
  <2> QED BY <2>1, <2>2, <2>3, <2>4
<1> QED BY <1>2, <1>3

LEMMA ServerPromise ==
  ASSUME PipeFails \/ Retirement \/ DesktopRequestsDetach
  PROVE  [Promise!Next]_Promise!vars
<1>1. UNCHANGED <<using, mounted>>
  BY ServerLeaves DEF mountVars, kernelVars
<1>2. CASE phase' = phase
  BY <1>1, <1>2, PromiseStutter
<1>3. CASE phase' # phase /\ Retirement
  <2>1. phase # "Detached" /\ phase' = "Failed"
    BY <1>3 DEF Retirement, ServerRetires, ServerStops, Fail, controlVars
  <2>2. Promise!Fail
    BY <1>1, <2>1 DEF Promise!Fail
  <2> QED BY <2>2 DEF Promise!Next
<1>4. CASE DesktopRequestsDetach
  <2>1. Promise!RequestDetach
    BY <1>1, <1>4 DEF DesktopRequestsDetach, RequestDetach, Promise!RequestDetach
  <2> QED BY <2>1 DEF Promise!Next
<1>5. CASE PipeFails
  BY <1>1, <1>5, PromiseStutter DEF PipeFails, PipeBreaks, controlVars
<1> QED BY <1>2, <1>3, <1>4, <1>5

LEMMA PromiseStep == IInv /\ [Next]_vars => [Promise!Next]_Promise!vars
<1> SUFFICES ASSUME IInv, [Next]_vars PROVE [Promise!Next]_Promise!vars
  OBVIOUS
<1>1. CASE SessionSend \/ LifecycleSend \/ UNCHANGED vars
  BY <1>1, PromiseStutter
  DEF SessionSend, LifecycleSend, vars, mountVars, kernelVars, serverVars, controlVars
<1>2. ASSUME NEW r, LifecycleReturn(r) PROVE UNCHANGED Promise!vars
  BY <1>2, LifecycleReturnLeaves, PromiseStutter DEF kernelVars, controlVars
<1> QED
  BY <1>1, <1>2, NextCases, CallbackPromise, ReturnPromise, MountPromise, ServePromise,
     ServerPromise

\* What the kernel, run() and the control do together is what an attachment
\* promises, also for a drive that is ejected with the system's own tools: it
\* disappears in order only while unused, and a mount that was forced off is never
\* shown as detached.
THEOREM ImplementsAttachment == Spec => KeepsPromise
BY PromiseInit, PromiseStep, Invariance, PTL DEF Spec, KeepsPromise, Promise!Spec
==============================================================================
