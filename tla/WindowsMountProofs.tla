------------------------- MODULE WindowsMountProofs -------------------------
(***************************************************************************)
(* Proofs about WindowsMount for any number of contexts.                   *)
(***************************************************************************)
EXTENDS WindowsMount, FiniteSetTheorems, TLAPS

USE DEF Threads

(***************************************************************************)
(* The tables of requests, spelled out once for the provers.               *)
(***************************************************************************)
LEMMA CallStepsAre ==
  /\ CallSteps = {"stat", "open", "mkdir", "createFile", "describe",
                  "warnCreate", "closeFile", "warnFile", "closeScan",
                  "warnScan", "use", "inspect", "remove", "warnRemove", "rewind", "scan",
                  "list", "probe", "probeList", "probeClose"}
  /\ DOMAIN LifeExchange = {"negotiate", "ready", "poll", "reportDetached",
                            "reportBusy"}
BY DEF CallSteps, Exchange, LifeExchange

\* What the dispatcher asks: which steps open and close a file, and that it
\* sends no lifecycle request except a warning.
LEMMA ExchangeTable ==
  ASSUME NEW s \in CallSteps
  PROVE  /\ Exchange[s] \in FileRequests \cup {"Warning"}
         /\ Exchange[s] = "Open" <=> s \in {"open", "createFile"}
         /\ Exchange[s] = "Close" <=> s = "closeFile"
BY CallStepsAre DEF Exchange, FileRequests, Opens, Closes, Neutral

LEMMA LifeExchangeTable ==
  ASSUME NEW l \in DOMAIN LifeExchange
  PROVE  /\ LifeExchange[l] \in {"Capabilities", "Poll", "Ready", "Detached",
                                 "DetachFailed"}
         /\ LifeExchange[l] = "Poll" <=> l = "poll"
         /\ LifeExchange[l] = "Ready" <=> l = "ready"
         /\ LifeExchange[l] = "Detached" <=> l = "reportDetached"
         /\ LifeExchange[l] = "DetachFailed" <=> l = "reportBusy"
BY CallStepsAre DEF LifeExchange

(***************************************************************************)
(* Type correctness.                                                       *)
(***************************************************************************)
LEMMA HandleAtType ==
  ASSUME TypeOK
  PROVE  HandleAt \in Handles
BY DEF TypeOK, HandleAt, Handles

LEMMA DropFromType ==
  ASSUME NEW c, NEW h
  PROVE  DropFrom(c, h) \in {"closeFile", "closeScan", "release"}
BY DEF DropFrom

LEMMA RequestTypes ==
  /\ \A s \in CallSteps : Exchange[s] \in Requests
  /\ \A l \in DOMAIN LifeExchange : LifeExchange[l] \in Requests
BY ExchangeTable, LifeExchangeTable DEF Requests, FileRequests, Neutral, Events

LEMMA GateTypes ==
  ASSUME TypeOK, NEW c \in Contexts,
         EnterGate(c) \/ DropGuard(c) \/ CloseGate \/ UNCHANGED gateVars
  PROVE  /\ handles' \in Nat
         /\ detaching' \in BOOLEAN
         /\ guard' \in SUBSET Contexts
<1>1. handles \in Nat /\ detaching \in BOOLEAN /\ guard \in SUBSET Contexts
  BY DEF TypeOK
<1>2. CASE EnterGate(c)
  BY <1>1, <1>2 DEF EnterGate
<1>3. CASE DropGuard(c)
  <2>1. handles' \in Nat
    <3>1. CASE handles > 0 /\ handles' = handles - 1
      BY <1>1, <3>1
    <3>2. CASE handles' = handles
      BY <1>1, <3>2
    <3> QED BY <1>3, <3>1, <3>2 DEF DropGuard
  <2> QED BY <1>1, <1>3, <2>1 DEF DropGuard
<1>4. CASE CloseGate
  BY <1>1, <1>4 DEF CloseGate
<1>5. CASE UNCHANGED gateVars
  BY <1>1, <1>5 DEF gateVars
<1> QED BY <1>2, <1>3, <1>4, <1>5

LEMMA ReturnsTypes ==
  ASSUME TypeOK, NEW t, NEW r, Returns(t, r)
  PROVE  /\ caller' \in Threads \cup {None}
         /\ request' \in Requests \cup {None}
         /\ reply' \in Results \cup {None}
         /\ closed' \in BOOLEAN
         /\ server' \in ServerStates
BY DEF TypeOK, Returns, Receive, Lose, Refused, CannotWrite, channelVars

\* What a step of a callback leaves: the gate by DropGuard or untouched.
LEMMA ContinueTypes ==
  ASSUME TypeOK, step \in CallSteps, NEW r,
         Opening(r) \/ Dropping(r) \/ Operating(r) \/ Scanning(r),
         held' = HeldAfter(r)
  PROVE  /\ step' \in Steps
         /\ DropGuard(current) \/ UNCHANGED gateVars
         /\ held' \in SUBSET Handles
<1>1. step' \in Steps /\ (DropGuard(current) \/ UNCHANGED gateVars)
  <2>1. CASE Opening(r)
    BY <2>1, CallStepsAre DEF Opening, Admit, Steps
  <2>2. CASE Dropping(r)
    BY <2>2, CallStepsAre, DropFromType DEF Dropping, Steps
  <2>3. CASE Operating(r)
    BY <2>3, CallStepsAre DEF Operating, Steps
  <2>4. CASE Scanning(r)
    BY <2>4, CallStepsAre DEF Scanning, Steps
  <2> QED BY <2>1, <2>2, <2>3, <2>4
<1>2. held' \in SUBSET Handles
  BY HandleAtType DEF HeldAfter, TypeOK
<1> QED BY <1>1, <1>2

LEMMA BeginTypes ==
  ASSUME TypeOK, NEW c \in Contexts,
         \/ \E k \in Kinds : Open(c, k) \/ Create(c, k)
         \/ Use(c) \/ Cleanup(c) \/ SetDelete(c) \/ ReadDirectory(c) \/ Close(c)
         \/ Inspect /\ c = current
  PROVE  TypeOK'
<1>1. step' \in Steps /\ current' = c /\ UNCHANGED <<runVars, serverVars>>
  BY CallStepsAre, DropFromType
  DEF Open, Create, Use, Cleanup, SetDelete, ReadDirectory, Inspect,
      Close, Begin, Steps
<1>2. EnterGate(c) \/ UNCHANGED gateVars
  BY DEF Open, Create, Use, Cleanup, SetDelete, ReadDirectory, Inspect, Close
<1>3. kind' \in [Contexts -> Kinds \cup {"none"}] /\ held' = held
  BY DEF Open, Create, Use, Cleanup, SetDelete, ReadDirectory, Inspect,
      Close, TypeOK,
         contextVars
<1> QED
  BY <1>1, <1>2, <1>3, GateTypes
  DEF TypeOK, ControlTypeOK, runVars, serverVars, controlVars, channelVars

LEMMA TypeInit == Init => TypeOK
<1> SUFFICES ASSUME Init PROVE TypeOK
  OBVIOUS
<1>1. /\ ControlTypeOK /\ caller = None /\ request = None /\ reply = None
      /\ closed \in BOOLEAN /\ server \in ServerStates /\ remote = {}
  BY DEF Init, ServerInit, ControlInit, ChannelInit, ControlTypeOK, Phases,
         Messages, ServerStates
<1>2. kind \in [Contexts -> Kinds \cup {"none"}]
  BY DEF Init
<1> QED
  BY <1>1, <1>2 DEF Init, TypeOK, Steps, Hosts, Lives

LEMMA DispatcherReturnTypes ==
  ASSUME TypeOK, NEW r, DispatcherReturn(r)
  PROVE  TypeOK'
<1>1. /\ step' \in Steps
      /\ DropGuard(current) \/ UNCHANGED gateVars
      /\ held' \in SUBSET Handles
  BY ContinueTypes DEF DispatcherReturn
<1>2. current \in Contexts
  BY DEF TypeOK
<1>3. /\ handles' \in Nat /\ detaching' \in BOOLEAN
      /\ guard' \in SUBSET Contexts
  BY <1>1, <1>2, GateTypes
<1>4. Returns(Dispatcher, r)
  BY DEF DispatcherReturn
<1> QED
  BY <1>1, <1>3, <1>4, ReturnsTypes
  DEF DispatcherReturn, TypeOK, ControlTypeOK, controlVars, runVars

LEMMA LifecycleReturnTypes ==
  ASSUME TypeOK, NEW r, LifecycleReturn(r)
  PROVE  TypeOK'
<1>1. life' \in Lives
  BY DEF LifecycleReturn, AfterPoll, AfterDetached, Lives
<1>2. Returns(Lifecycle, r)
  BY DEF LifecycleReturn
<1> QED
  BY <1>1, <1>2, ReturnsTypes
  DEF LifecycleReturn, LifeUnchanged, TypeOK, ControlTypeOK, controlVars,
      gateVars, contextVars, callbackVars

LEMMA ReleaseTypes == TypeOK /\ Release => TypeOK'
<1> SUFFICES ASSUME TypeOK, Release PROVE TypeOK'
  OBVIOUS
<1>1. current \in Contexts /\ DropGuard(current)
  BY DEF TypeOK, Release
<1>2. /\ handles' \in Nat /\ detaching' \in BOOLEAN
      /\ guard' \in SUBSET Contexts
  BY <1>1, GateTypes
<1>3. step' \in Steps /\ kind' \in [Contexts -> Kinds \cup {"none"}]
  BY DEF Release, Steps, TypeOK
<1> QED
  BY <1>2, <1>3
  DEF Release, TypeOK, ControlTypeOK, controlVars, channelVars, runVars

LEMMA LifecycleTypes ==
  TypeOK /\ (Mount \/ LifecycleSend \/ BeginDetach \/ TearDown) => TypeOK'
<1> SUFFICES ASSUME TypeOK, Mount \/ LifecycleSend \/ BeginDetach \/ TearDown
             PROVE  TypeOK'
  OBVIOUS
<1> USE DEF TypeOK, ControlTypeOK, controlVars, channelVars, gateVars, contextVars,
            callbackVars, runVars, LifeUnchanged
<1>1. CASE Mount
  BY <1>1 DEF Mount, Hosts, Lives
<1>2. CASE LifecycleSend
  BY <1>2, RequestTypes DEF LifecycleSend, Send
<1>3. CASE BeginDetach
  BY <1>3 DEF BeginDetach, CloseGate, Lives
<1>4. CASE TearDown
  BY <1>4 DEF TearDown, Hosts, Lives
<1> QED BY <1>1, <1>2, <1>3, <1>4

LEMMA ServeTypes == TypeOK /\ Serve => TypeOK'
<1> SUFFICES ASSUME TypeOK, Serve PROVE TypeOK'
  OBVIOUS
<1> USE DEF TypeOK, ControlTypeOK, controlVars, mountVars, gateVars, contextVars,
            callbackVars, runVars
<1>0. HandleAt \in Handles /\ UNCHANGED mountVars
  BY HandleAtType DEF Serve
<1>1. CASE \E succeeds \in BOOLEAN : DispatchFile(HandleAt, succeeds)
  BY <1>0, <1>1 DEF DispatchFile, Answer, Tables, Results
<1>2. CASE DispatchTimedOut(HandleAt)
  BY <1>0, <1>2 DEF DispatchTimedOut, AnswerTimedOut, Tables, Results, ServerStates
<1>3. CASE DispatchPoll
  BY <1>0, <1>3 DEF DispatchPoll, Answer, Directive, TakeDirective, Results
<1>4. CASE DispatchReport
  BY <1>0, <1>4
  DEF DispatchReport, Answer, Report, Results, Phases, Messages
<1> QED BY <1>1, <1>2, <1>3, <1>4 DEF Serve, Dispatch

LEMMA ServerTypes ==
  TypeOK /\ (PipeFails \/ Retirement \/ DesktopRequestsDetach) => TypeOK'
<1> SUFFICES ASSUME TypeOK, PipeFails \/ Retirement \/ DesktopRequestsDetach
             PROVE  TypeOK'
  OBVIOUS
<1> USE DEF TypeOK, ControlTypeOK, controlVars, mountVars, gateVars, contextVars,
            callbackVars, runVars, channelVars, ServerStates, Phases, Messages
<1>1. CASE PipeFails
  BY <1>1 DEF PipeFails, PipeBreaks, Break
<1>2. CASE Retirement
  BY <1>2 DEF Retirement, ServerRetires, ServerStops, Retire, Stop, Fail
<1>3. CASE DesktopRequestsDetach
  BY <1>3 DEF DesktopRequestsDetach, RequestDetach
<1> QED BY <1>1, <1>2, <1>3

LEMMA TypeStep == TypeOK /\ [Next]_vars => TypeOK'
<1> SUFFICES ASSUME TypeOK, [Next]_vars PROVE TypeOK'
  OBVIOUS
<1>1. CASE Callback
  BY <1>1, BeginTypes DEF Callback, TypeOK
<1>2. CASE DispatcherSend
  BY <1>2, RequestTypes
  DEF DispatcherSend, Send, TypeOK, ControlTypeOK, controlVars, gateVars,
      contextVars, callbackVars, runVars
<1>3. CASE DispatcherStep
  BY <1>3, DispatcherReturnTypes, ReleaseTypes DEF DispatcherStep
<1>4. CASE LifecycleStep
  BY <1>4, LifecycleTypes, LifecycleReturnTypes DEF LifecycleStep
<1>5. CASE Serve \/ PipeFails \/ Retirement \/ DesktopRequestsDetach
  BY <1>5, ServeTypes, ServerTypes
<1>6. CASE UNCHANGED vars
  BY <1>6
  DEF vars, serverVars, TypeOK, ControlTypeOK, controlVars, mountVars, gateVars,
      contextVars, callbackVars, runVars, channelVars
<1> QED BY <1>1, <1>2, <1>3, <1>4, <1>5, <1>6 DEF Next

\* Every variable of the process, the pipes and the server keeps to its type,
\* for any number of contexts; in particular the unsigned counter of the gate
\* never goes below zero, although a passive context drops its guard early.
THEOREM TypeCorrect == Spec => []TypeOK
BY TypeInit, TypeStep, PTL DEF Spec

(***************************************************************************)
(* The inductive invariant, in parts that are proved one after another.    *)
(***************************************************************************)
\* The exchange on the pipes belongs to the thread that waits for it.
ExchangeInv ==
  /\ closed => server = "stopped"
  /\ server \in {"closing", "stopped"} => remote = {}
  /\ caller = Dispatcher => step \in CallSteps
  /\ caller = Lifecycle => life \in DOMAIN LifeExchange
  /\ request # None => caller # None
  /\ request # None /\ caller = Dispatcher => request = Exchange[step]
  /\ request # None /\ caller = Lifecycle => request = LifeExchange[life]
  /\ reply # None => caller # None /\ request = None

\* The gate counts the guards, and every context that can change something
\* remotely, or is being opened, has one.
GateInv ==
  /\ handles = Cardinality(guard)
  /\ detaching => guard = {}
  /\ \A c \in guard : kind[c] # "none"
  /\ \A c \in Contexts : kind[c] \notin {"none", "passive"} => c \in guard
  /\ step \in {"stat", "mkdir"} => current \in guard

\* Only file contexts hold a file, and not before they have opened it or after
\* they have given it up.
ContextInv ==
  /\ step \notin {"idle", "inspect"} => kind[current] # "none"
  /\ step \in {"open", "createFile"} => kind[current] = "file"
  /\ \A c \in Contexts : <<c, "file">> \in held => kind[c] = "file"
  /\ step \in {"stat", "mkdir", "open", "createFile", "warnFile", "closeScan",
               "warnScan", "release"} => <<current, "file">> \notin held

\* A file handle on the server is held by a context, or on its way to one.
RemoteInv ==
  /\ /\ step \in {"open", "createFile"}
     /\ caller # Dispatcher \/ request # None \/ (reply # None /\ reply # "ok")
     => <<current, "file">> \notin remote
  /\ step = "closeFile" /\ caller = Dispatcher /\ reply # None
     => <<current, "file">> \notin remote
  /\ \A c \in Contexts : <<c, "file">> \in remote =>
       \/ <<c, "file">> \in held
       \/ c = current /\ step \in {"open", "createFile"} /\ caller = Dispatcher

\* How far run() has come, and what the desktop has been told of it.
HostInv ==
  /\ life \in {"unmount", "reportDetached"} => detaching
  /\ life \in {"negotiate", "mount", "ready", "poll", "gate", "reportBusy"}
     => ~detaching
  /\ life \in {"negotiate", "mount"} => host = "down"
  /\ life \in {"ready", "poll", "gate", "reportBusy"} => host = "up"
  /\ life = "reportDetached" => host = "stopped"
  /\ host \in {"down", "stopped"} => step = "idle"

\* The directive that run() follows has been taken from the desktop.
DirectiveInv ==
  /\ DetachOnlyOnRequest
  /\ \/ caller = Lifecycle /\ life = "poll" /\ reply = "Detach"
     \/ life = "reportBusy" /\ (caller # Lifecycle \/ request # None)
     => phase \in {"Detaching", "Failed"} /\ ~pending

OutcomeInv ==
  /\ phase = "Detached" => host = "stopped" /\ detaching
  /\ caller = Lifecycle /\ life = "reportDetached" /\ reply = "ok"
     => phase = "Detached"
  /\ life = "success" => phase = "Detached"

IInv ==
  /\ TypeOK /\ ExchangeInv /\ GateInv /\ ContextInv /\ RemoteInv
  /\ HostInv /\ DirectiveInv /\ OutcomeInv

(***************************************************************************)
(* The exchange on the pipes.                                              *)
(***************************************************************************)
LEMMA NoneIsOther ==
  /\ Dispatcher # None /\ Lifecycle # None /\ Dispatcher # Lifecycle
  /\ None \notin Requests /\ None \notin Results
  /\ None # "ok" /\ None # "Detach"
BY DistinctAssumption DEF Results

LEMMA InitIInv == Init => IInv
<1> SUFFICES ASSUME Init PROVE IInv
  OBVIOUS
<1>1. TypeOK
  BY TypeInit
<1>2. ExchangeInv
  BY NoneIsOther DEF Init, ServerInit, ChannelInit, ExchangeInv
<1>3. GateInv
  BY FS_EmptySet DEF Init, GateInv
<1>4. ContextInv /\ RemoteInv
  BY DEF Init, ServerInit, ContextInv, RemoteInv
<1>5. HostInv /\ DirectiveInv /\ OutcomeInv
  BY NoneIsOther
  DEF Init, ServerInit, ControlInit, ChannelInit, HostInv, DirectiveInv,
      DetachOnlyOnRequest, OutcomeInv
<1> QED BY <1>1, <1>2, <1>3, <1>4, <1>5 DEF IInv

\* A call comes back: nothing is left on the pipes, and what it returns is
\* Offline only once the server keeps nothing.
LEMMA ReturnsIdle ==
  ASSUME ExchangeInv, NEW t \in Threads, NEW r, Returns(t, r)
  PROVE  /\ caller' = None /\ request' = None /\ reply' = None
         /\ closed' => server' = "stopped"
         /\ server' = server
         /\ \/ caller = t /\ reply = r /\ r # None
            \/ r = "Offline" /\ server = "stopped"
BY NoneIsOther
DEF ExchangeInv, Returns, Receive, Lose, Refused, CannotWrite, channelVars

LEMMA CallbackExchange == ExchangeInv /\ TypeOK /\ Callback => ExchangeInv'
<1> SUFFICES ASSUME ExchangeInv, TypeOK, Callback PROVE ExchangeInv'
  OBVIOUS
<1>1. step = "idle" /\ UNCHANGED <<life, serverVars>>
  BY DEF Callback, Open, Create, Use, Cleanup, SetDelete, ReadDirectory, Inspect, Close,
         Begin, runVars
<1>2. caller # Dispatcher
  BY <1>1, CallStepsAre DEF ExchangeInv
<1> QED
  BY <1>1, <1>2 DEF ExchangeInv, serverVars, channelVars

LEMMA ServeExchange == ExchangeInv /\ TypeOK /\ Serve => ExchangeInv'
<1> SUFFICES ASSUME ExchangeInv, TypeOK, Serve PROVE ExchangeInv'
  OBVIOUS
<1>1. UNCHANGED <<step, life>>
  BY DEF Serve, mountVars, callbackVars, runVars
<1>2. /\ server = "serving" /\ request # None
      /\ request' = None /\ server' \in {"serving", "retired"}
      /\ UNCHANGED <<caller, closed>>
  BY DEF Serve, Dispatch, DispatchFile, DispatchTimedOut, DispatchPoll,
         DispatchReport, Answer, AnswerTimedOut
<1> QED
  BY <1>1, <1>2 DEF ExchangeInv

LEMMA ExchangeStep ==
  TypeOK /\ ExchangeInv /\ [Next]_vars => ExchangeInv'
<1> SUFFICES ASSUME TypeOK, ExchangeInv, [Next]_vars PROVE ExchangeInv'
  OBVIOUS
<1>1. CASE Callback
  BY <1>1, CallbackExchange
<1>2. CASE DispatcherSend
  BY <1>2, NoneIsOther
  DEF DispatcherSend, Send, ExchangeInv, callbackVars, runVars
<1>3. ASSUME NEW r, DispatcherReturn(r) PROVE ExchangeInv'
  BY <1>3, ReturnsIdle, NoneIsOther DEF DispatcherReturn, ExchangeInv
<1>4. CASE Release
  BY <1>4, CallStepsAre, NoneIsOther DEF Release, ExchangeInv, runVars, channelVars
<1>5. CASE Mount \/ BeginDetach \/ TearDown
  BY <1>5, CallStepsAre, NoneIsOther
  DEF Mount, BeginDetach, TearDown, LifeUnchanged, ExchangeInv, callbackVars,
      channelVars
<1>6. CASE LifecycleSend
  BY <1>6, NoneIsOther
  DEF LifecycleSend, Send, ExchangeInv, callbackVars, runVars, LifeUnchanged
<1>7. ASSUME NEW r, LifecycleReturn(r) PROVE ExchangeInv'
  BY <1>7, ReturnsIdle, NoneIsOther DEF LifecycleReturn, LifeUnchanged, ExchangeInv
<1>8. CASE Serve
  BY <1>8, ServeExchange
<1>9. CASE PipeFails
  BY <1>9 DEF PipeFails, PipeBreaks, Break, ExchangeInv, mountVars, callbackVars,
              runVars
<1>10. CASE Retirement
  BY <1>10
  DEF Retirement, ServerRetires, ServerStops, Retire, Stop, ExchangeInv,
      mountVars, callbackVars, runVars
<1>11. CASE DesktopRequestsDetach
  BY <1>11
  DEF DesktopRequestsDetach, ExchangeInv, mountVars, callbackVars, runVars,
      channelVars
<1>12. CASE UNCHANGED vars
  BY <1>12
  DEF vars, ExchangeInv, mountVars, callbackVars, runVars, serverVars, channelVars
<1> QED
  BY <1>1, <1>2, <1>3, <1>4, <1>5, <1>6, <1>7, <1>8, <1>9, <1>10, <1>11, <1>12
  DEF Next, DispatcherStep, LifecycleStep

(***************************************************************************)
(* The gate and the contexts.                                              *)
(***************************************************************************)
LEMMA GuardIsFinite == TypeOK => IsFiniteSet(guard)
BY DistinctAssumption, FS_Subset DEF TypeOK

\* Counting up for a context that has no guard yet ...
LEMMA EnterCounts ==
  ASSUME TypeOK, handles = Cardinality(guard), NEW c \in Contexts \ guard,
         EnterGate(c)
  PROVE  handles' = Cardinality(guard')
BY GuardIsFinite, FS_AddElement DEF EnterGate

\* ... and down when a guard is dropped, if it was there.
LEMMA DropCounts ==
  ASSUME TypeOK, handles = Cardinality(guard), NEW c \in Contexts, DropGuard(c)
  PROVE  /\ handles' = Cardinality(guard')
         /\ guard' = guard \ {c}
         /\ detaching' = detaching
<1>1. CASE c \in guard
  <2>1. Cardinality(guard) # 0
    BY <1>1, GuardIsFinite, FS_EmptySet
  <2>2. handles > 0
    BY <2>1 DEF TypeOK
  <2>3. Cardinality(guard \ {c}) = handles - 1
    BY <1>1, GuardIsFinite, FS_RemoveElement
  <2> QED BY <1>1, <2>2, <2>3 DEF DropGuard
<1>2. CASE c \notin guard
  <2>1. guard \ {c} = guard
    BY <1>2
  <2> QED BY <1>2, <2>1 DEF DropGuard
<1> QED BY <1>1, <1>2

\* The accepted detach: a count of zero means that no guard is alive.
LEMMA CloseGateEmpties ==
  ASSUME TypeOK, handles = Cardinality(guard), CloseGate
  PROVE  guard = {} /\ guard' = {} /\ handles' = Cardinality(guard')
BY GuardIsFinite, FS_EmptySet DEF CloseGate

LEMMA CallbackGate ==
  ASSUME TypeOK, GateInv, Callback
  PROVE  GateInv'
<1>1. PICK c \in Contexts :
        \/ \E k \in Kinds : Open(c, k) \/ Create(c, k)
        \/ Use(c) \/ Cleanup(c) \/ SetDelete(c) \/ ReadDirectory(c) \/ Close(c)
        \/ Inspect /\ c = current
  BY DEF Callback, TypeOK
<1>2. CASE \E k \in Kinds : Open(c, k) \/ Create(c, k)
  <2>1. PICK k \in Kinds : Open(c, k) \/ Create(c, k)
    BY <1>2
  <2>2. /\ kind[c] = "none" /\ EnterGate(c) /\ current' = c
        /\ kind' = [kind EXCEPT ![c] = k]
    BY <2>1 DEF Open, Create, Begin
  <2>3. c \notin guard
    BY <2>2 DEF GateInv
  <2>4. handles' = Cardinality(guard')
    BY <2>2, <2>3, EnterCounts DEF GateInv
  <2>5. /\ \A d \in guard' : kind'[d] # "none"
        /\ \A d \in Contexts : kind'[d] \notin {"none", "passive"} => d \in guard'
        /\ current' \in guard'
        /\ ~detaching'
    BY <2>2 DEF GateInv, EnterGate, TypeOK, Kinds
  <2> QED BY <2>4, <2>5 DEF GateInv
<1>3. CASE \/ Use(c) \/ Cleanup(c) \/ SetDelete(c) \/ ReadDirectory(c) \/ Close(c)
           \/ Inspect
  <2>1. step' \notin {"stat", "mkdir"} /\ UNCHANGED <<gateVars, contextVars>>
    BY <1>3, DropFromType
    DEF Use, Cleanup, SetDelete, ReadDirectory, Inspect, Close, Begin
  <2> QED BY <2>1 DEF GateInv, gateVars, contextVars
<1> QED BY <1>1, <1>2, <1>3

\* A step that continues leaves the gate, or drops a passive context's guard.
LEMMA ContinueGate ==
  ASSUME TypeOK, GateInv, NEW r, DispatcherReturn(r)
  PROVE  GateInv'
<1>1. /\ step' \notin {"stat", "mkdir"}
      /\ \/ UNCHANGED gateVars
         \/ kind[current] = "passive" /\ DropGuard(current)
  BY DropFromType, CallStepsAre
  DEF DispatcherReturn, Opening, Admit, Dropping, Operating, Scanning,
      BlocksDetach
<1>2. UNCHANGED <<kind, current>>
  BY DEF DispatcherReturn
<1>3. CASE UNCHANGED gateVars
  BY <1>1, <1>2, <1>3 DEF GateInv, gateVars
<1>4. CASE kind[current] = "passive" /\ DropGuard(current)
  <2>1. /\ handles' = Cardinality(guard') /\ guard' = guard \ {current}
        /\ detaching' = detaching
    BY <1>4, DropCounts DEF GateInv, TypeOK
  <2> QED BY <1>1, <1>2, <1>4, <2>1 DEF GateInv
<1> QED BY <1>1, <1>3, <1>4

LEMMA ReleaseGate ==
  ASSUME TypeOK, GateInv, Release
  PROVE  GateInv'
<1>1. /\ handles' = Cardinality(guard') /\ guard' = guard \ {current}
      /\ detaching' = detaching
  BY DropCounts DEF GateInv, TypeOK, Release
<1>2. /\ step' = "idle" /\ kind' = [kind EXCEPT ![current] = "none"]
  BY DEF Release
<1> QED BY <1>1, <1>2 DEF GateInv, TypeOK

LEMMA GateStep == TypeOK /\ GateInv /\ [Next]_vars => GateInv'
<1> SUFFICES ASSUME TypeOK, GateInv, [Next]_vars PROVE GateInv'
  OBVIOUS
<1>1. CASE Callback
  BY <1>1, CallbackGate
<1>2. CASE DispatcherStep
  BY <1>2, ContinueGate, ReleaseGate DEF DispatcherStep
<1>3. CASE BeginDetach
  BY <1>3, CloseGateEmpties
  DEF BeginDetach, LifeUnchanged, GateInv, gateVars, contextVars, callbackVars
<1>4. CASE UNCHANGED <<gateVars, contextVars, callbackVars>>
  BY <1>4 DEF GateInv, gateVars, contextVars, callbackVars
<1> QED
  BY <1>1, <1>2, <1>3, <1>4
  DEF Next, LifecycleStep, DispatcherSend, Mount, LifecycleSend, LifecycleReturn,
      TearDown, LifeUnchanged, Serve, PipeFails, Retirement,
      DesktopRequestsDetach, vars, mountVars, runVars

LEMMA CallbackContext ==
  ASSUME TypeOK, ContextInv, Callback
  PROVE  ContextInv'
<1>1. PICK c \in Contexts :
        \/ \E k \in Kinds : Open(c, k) \/ Create(c, k)
        \/ Use(c) \/ Cleanup(c) \/ SetDelete(c) \/ ReadDirectory(c) \/ Close(c)
        \/ Inspect /\ c = current
  BY DEF Callback, TypeOK
<1>2. CASE \E k \in Kinds : Open(c, k) \/ Create(c, k)
  <2>1. PICK k \in Kinds : Open(c, k) \/ Create(c, k)
    BY <1>2
  <2>2. /\ kind[c] = "none" /\ current' = c /\ held' = held
        /\ kind' = [kind EXCEPT ![c] = k]
        /\ step' \in {"stat", "mkdir", "createFile"}
        /\ step' = "createFile" => k = "file"
    BY <2>1 DEF Open, Create, Begin
  <2>3. <<c, "file">> \notin held
    BY <2>2 DEF ContextInv
  <2> QED BY <2>2, <2>3 DEF ContextInv, TypeOK, Kinds
<1>3. CASE Use(c) \/ Cleanup(c) \/ SetDelete(c) \/ ReadDirectory(c) \/ Inspect
  BY <1>3
  DEF Use, Cleanup, SetDelete, ReadDirectory, Inspect, Begin, ContextInv, contextVars
<1>4. CASE Close(c)
  BY <1>4 DEF Close, Begin, DropFrom, ContextInv, contextVars
<1> QED BY <1>1, <1>2, <1>3, <1>4

\* Where a callback can go on from a step, as far as its file is concerned.
LEMMA ContinueContext ==
  ASSUME TypeOK, ContextInv, NEW r, DispatcherReturn(r)
  PROVE  ContextInv'
<1> DEFINE file == <<current, "file">>
<1>1. /\ UNCHANGED <<kind, current>>
      /\ step' = "idle" \/ kind[current] # "none"
  BY CallStepsAre
  DEF DispatcherReturn, Opening, Dropping, Operating, Scanning, ContextInv
<1>2. held' = HeldAfter(r)
  BY DEF DispatcherReturn
<1>3. \A h \in held' : h \in held \/ (h = HandleAt /\ r = "ok")
  BY <1>2 DEF HeldAfter
<1>4. HandleAt = file => step \in {"open", "createFile", "closeFile"}
  BY DEF HandleAt
<1>5. \A c \in Contexts : <<c, "file">> \in held' => kind[c] = "file"
  <2> SUFFICES ASSUME NEW c \in Contexts, <<c, "file">> \in held'
               PROVE  kind[c] = "file"
    OBVIOUS
  <2>1. CASE <<c, "file">> \in held
    BY <2>1 DEF ContextInv
  <2>2. CASE <<c, "file">> = HandleAt /\ <<c, "file">> \notin held
    <3>1. c = current
      BY <2>2 DEF HandleAt
    <3>2. step \in {"open", "createFile"}
      BY <1>2, <1>4, <2>2, <3>1 DEF HeldAfter, Closing
    <3> QED BY <3>1, <3>2 DEF ContextInv
  <2> QED BY <1>3, <2>1, <2>2
<1>6. step' \in {"open", "createFile"} => kind[current] = "file"
  BY CallStepsAre, DropFromType
  DEF DispatcherReturn, Opening, Admit, Dropping, Operating, Scanning
<1>7. step' \in {"stat", "mkdir", "open", "createFile", "warnFile", "closeScan",
                "warnScan", "release"} => file \notin held'
  <2>1. CASE Opening(r)
    BY <1>2, <1>4, <2>1, CallStepsAre DEF Opening, Admit, ContextInv, HeldAfter, Closing
  <2>2. CASE Dropping(r)
    <3>1. CASE step = "closeFile"
      <4>1. HandleAt = file /\ held' = held \ {file}
        BY <1>2, <3>1 DEF HandleAt, HeldAfter, Closing
      <4> QED BY <4>1
    <3>2. CASE step \in {"warnCreate", "warnFile"}
      <4>1. held' = held
        BY <1>2, <3>2 DEF HeldAfter, Closing
      <4>2. step' = DropFrom(current, held)
        BY <2>2, <3>2 DEF Dropping
      <4> QED BY <4>1, <4>2 DEF DropFrom
    <3>3. CASE step \in {"closeScan", "warnScan"}
      BY <1>3, <1>4, <3>3 DEF ContextInv
    <3> QED BY <2>2, <3>1, <3>2, <3>3 DEF Dropping
  <2>3. CASE Operating(r) \/ Scanning(r)
    BY <2>3 DEF Operating, Scanning
  <2> QED BY <2>1, <2>2, <2>3 DEF DispatcherReturn
<1> QED BY <1>1, <1>5, <1>6, <1>7 DEF ContextInv

LEMMA ReleaseContext ==
  ASSUME TypeOK, ContextInv, Release
  PROVE  ContextInv'
BY DEF Release, ContextInv, TypeOK

LEMMA ContextStep == TypeOK /\ ContextInv /\ [Next]_vars => ContextInv'
<1> SUFFICES ASSUME TypeOK, ContextInv, [Next]_vars PROVE ContextInv'
  OBVIOUS
<1>1. CASE Callback
  BY <1>1, CallbackContext
<1>2. CASE DispatcherStep
  BY <1>2, ContinueContext, ReleaseContext DEF DispatcherStep
<1>3. CASE UNCHANGED <<contextVars, callbackVars>>
  BY <1>3 DEF ContextInv, contextVars, callbackVars
<1> QED
  BY <1>1, <1>2, <1>3
  DEF Next, LifecycleStep, DispatcherSend, Mount, LifecycleSend, LifecycleReturn,
      BeginDetach, TearDown, LifeUnchanged, Serve, PipeFails, Retirement,
      DesktopRequestsDetach, vars, mountVars

(***************************************************************************)
(* The file handles on the server.                                         *)
(***************************************************************************)
\* What the server does to the file handles while a step's call is with it:
\* one may appear only for an open that is answered "ok", and a close removes
\* the handle whatever the answer.
LEMMA ServeFiles ==
  ASSUME TypeOK, ExchangeInv, Serve, NEW c \in Contexts
  PROVE  /\ <<c, "file">> \in remote' /\ <<c, "file">> \notin remote =>
              /\ c = current /\ step \in {"open", "createFile"}
              /\ caller = Dispatcher /\ reply' = "ok"
         /\ step = "closeFile" /\ caller = Dispatcher => <<current, "file">> \notin remote'
<1>1. server = "serving" /\ request # None
  BY DEF Serve, Dispatch, DispatchFile, DispatchTimedOut, DispatchPoll,
         DispatchReport, Answer, AnswerTimedOut
<1>2. \/ caller = Dispatcher /\ step \in CallSteps /\ request = Exchange[step]
      \/ caller = Lifecycle /\ request \notin Opens
  BY <1>1, LifeExchangeTable DEF ExchangeInv, TypeOK, Opens
<1>3. CASE request \in FileRequests
  <2>1. PICK succeeds \in BOOLEAN :
          Tables(HandleAt, succeeds) /\ (succeeds => reply' = "ok")
    BY <1>3, NoneIsOther
    DEF Serve, Dispatch, DispatchFile, DispatchTimedOut, DispatchPoll,
        DispatchReport, Answer, FileRequests, Opens, Closes, Neutral, Events
  <2>2. CASE caller = Dispatcher /\ step \in CallSteps /\ request = Exchange[step]
    <3>1. CASE step \in {"open", "createFile"}
      BY <2>1, <2>2, <3>1 DEF Tables, HandleAt
    <3>2. CASE step = "closeFile"
      <4>1. HandleAt = <<current, "file">> /\ request = "Close"
        BY <2>2, <3>2, ExchangeTable DEF HandleAt
      <4>2. remote' = remote \ {<<current, "file">>}
        BY <2>1, <4>1 DEF Tables, Opens, Closes
      <4> QED BY <3>2, <4>2
    <3>3. CASE step \notin {"open", "createFile", "closeFile"}
      <4>1. HandleAt # <<c, "file">>
        BY <3>3 DEF HandleAt
      <4> QED BY <2>1, <3>3, <4>1 DEF Tables
    <3> QED BY <3>1, <3>2, <3>3
  <2>3. CASE caller = Lifecycle /\ request \notin Opens
    BY <2>1, <2>3, NoneIsOther DEF Tables
  <2> QED BY <1>2, <2>2, <2>3
<1>4. CASE request \notin FileRequests
  <2>1. remote' = remote
    BY <1>4 DEF Serve, Dispatch, DispatchFile, DispatchTimedOut, DispatchPoll,
                DispatchReport
  <2>2. ~(step = "closeFile" /\ caller = Dispatcher)
    BY <1>2, <1>4, NoneIsOther, ExchangeTable DEF FileRequests, Closes
  <2> QED BY <2>1, <2>2
<1> QED BY <1>3, <1>4

LEMMA ServeRemote ==
  ASSUME TypeOK, ExchangeInv, RemoteInv, Serve
  PROVE  RemoteInv'
<1>1. UNCHANGED <<held, current, step, caller>> /\ current \in Contexts
  BY DEF Serve, mountVars, contextVars, callbackVars, Dispatch, DispatchFile,
         DispatchTimedOut, DispatchPoll, DispatchReport, Answer, AnswerTimedOut,
         TypeOK
<1>2. request # None /\ request' = None
  BY DEF Serve, Dispatch, DispatchFile, DispatchTimedOut, DispatchPoll,
         DispatchReport, Answer, AnswerTimedOut
<1> QED BY <1>1, <1>2, ServeFiles DEF RemoteInv

\* A step that continues has put the handle it opened into its context, or
\* knows that there is none.
LEMMA ContinueRemote ==
  ASSUME TypeOK, ExchangeInv, ContextInv, RemoteInv, NEW r, DispatcherReturn(r)
  PROVE  RemoteInv'
<1> DEFINE file == <<current, "file">>
<1>1. /\ current' = current /\ remote' = remote /\ held' = HeldAfter(r)
      /\ current \in Contexts
  BY DEF DispatcherReturn, TypeOK
<1>2. /\ caller' = None /\ request' = None /\ reply' = None
      /\ \/ caller = Dispatcher /\ reply = r /\ r # None
         \/ server = "stopped"
  BY ReturnsIdle DEF DispatcherReturn
<1>3. server = "stopped" => remote = {}
  BY DEF ExchangeInv
<1>4. \A c \in Contexts : <<c, "file">> \in remote => <<c, "file">> \in held'
  <2> SUFFICES ASSUME NEW c \in Contexts, <<c, "file">> \in remote
               PROVE  <<c, "file">> \in held'
    OBVIOUS
  <2>0. server # "stopped" /\ caller = Dispatcher /\ reply = r /\ r # None
    BY <1>2, <1>3
  <2>1. CASE step \in {"open", "createFile"}
    <3>1. HandleAt = file
      BY <2>1 DEF HandleAt
    <3>2. CASE r = "ok"
      BY <1>1, <2>0, <2>1, <3>1, <3>2 DEF HeldAfter, Closing, RemoteInv
    <3>3. CASE r # "ok"
      BY <1>1, <2>0, <2>1, <3>3 DEF HeldAfter, Closing, RemoteInv
    <3> QED BY <3>2, <3>3
  <2>2. CASE step = "closeFile"
    <3>1. HandleAt = file /\ held' = held \ {file}
      BY <1>1, <2>2 DEF HandleAt, HeldAfter, Closing
    <3>2. file \notin remote
      BY <2>0, <2>2 DEF RemoteInv
    <3> QED BY <2>2, <3>1, <3>2 DEF RemoteInv
  <2>3. CASE step \notin {"open", "createFile", "closeFile"}
    <3>1. HandleAt # <<c, "file">>
      BY <2>3 DEF HandleAt
    <3> QED BY <1>1, <2>3, <3>1 DEF HeldAfter, RemoteInv
  <2> QED BY <2>1, <2>2, <2>3
<1>5. step' \in {"open", "createFile"} => step = "stat" /\ held' = held
  BY <1>1, CallStepsAre, DropFromType
  DEF DispatcherReturn, Opening, Admit, Dropping, Operating, Scanning, HeldAfter,
      Closing
<1>6. step' \in {"open", "createFile"} => file \notin remote
  BY <1>1, <1>4, <1>5 DEF ContextInv
<1> QED BY <1>1, <1>2, <1>4, <1>6 DEF RemoteInv

LEMMA CallbackRemote ==
  ASSUME TypeOK, ExchangeInv, ContextInv, RemoteInv, Callback
  PROVE  RemoteInv'
<1>1. step = "idle" /\ caller # Dispatcher /\ UNCHANGED <<caller, remote>>
  BY CallStepsAre
  DEF Callback, Open, Create, Use, Cleanup, SetDelete, ReadDirectory, Inspect,
      Close, Begin, ExchangeInv, serverVars, channelVars
<1>2. /\ current' \in Contexts
      /\ step' \in {"open", "createFile"} => kind[current'] = "none"
      /\ held' = held
  BY DropFromType
  DEF Callback, Open, Create, Use, Cleanup, SetDelete, ReadDirectory, Inspect,
      Close, Begin, contextVars, TypeOK
<1>3. \A c \in Contexts : <<c, "file">> \in remote => <<c, "file">> \in held
  BY <1>1 DEF RemoteInv
<1>4. step' \in {"open", "createFile"} => <<current', "file">> \notin remote
  BY <1>2, <1>3 DEF ContextInv
<1> QED BY <1>1, <1>2, <1>3, <1>4 DEF RemoteInv

LEMMA RemoteStep ==
  TypeOK /\ ExchangeInv /\ ContextInv /\ RemoteInv /\ [Next]_vars => RemoteInv'
<1> SUFFICES ASSUME TypeOK, ExchangeInv, ContextInv, RemoteInv, [Next]_vars
             PROVE  RemoteInv'
  OBVIOUS
<1>1. CASE Callback
  BY <1>1, CallbackRemote
<1>2. CASE DispatcherSend
  BY <1>2, NoneIsOther
  DEF DispatcherSend, Send, RemoteInv, contextVars, callbackVars
<1>3. ASSUME NEW r, DispatcherReturn(r) PROVE RemoteInv'
  BY <1>3, ContinueRemote
<1>4. CASE Release
  BY <1>4 DEF Release, RemoteInv
<1>5. CASE Mount \/ BeginDetach \/ TearDown
  BY <1>5
  DEF Mount, BeginDetach, TearDown, LifeUnchanged, RemoteInv, contextVars,
      callbackVars, channelVars
<1>6. CASE LifecycleSend
  BY <1>6, NoneIsOther
  DEF LifecycleSend, Send, LifeUnchanged, RemoteInv, contextVars, callbackVars
<1>7. ASSUME NEW r, LifecycleReturn(r) PROVE RemoteInv'
  <2>1. UNCHANGED <<contextVars, callbackVars, remote>>
    BY <1>7 DEF LifecycleReturn, LifeUnchanged
  <2>2. /\ caller' = None /\ request' = None /\ reply' = None
        /\ \/ caller = Lifecycle
           \/ server = "stopped"
    BY <1>7, ReturnsIdle DEF LifecycleReturn
  <2> QED BY <2>1, <2>2, NoneIsOther DEF RemoteInv, ExchangeInv, contextVars, callbackVars
<1>8. CASE Serve
  BY <1>8, ServeRemote
<1>9. CASE PipeFails
  BY <1>9, NoneIsOther
  DEF PipeFails, PipeBreaks, Break, RemoteInv, ExchangeInv, mountVars, contextVars,
      callbackVars
<1>10. CASE Retirement
  BY <1>10
  DEF Retirement, ServerRetires, ServerStops, Retire, Stop, RemoteInv, mountVars,
      contextVars, callbackVars
<1>11. CASE DesktopRequestsDetach
  BY <1>11
  DEF DesktopRequestsDetach, RemoteInv, mountVars, contextVars, callbackVars,
      channelVars
<1>12. CASE UNCHANGED vars
  BY <1>12
  DEF vars, RemoteInv, mountVars, contextVars, callbackVars, serverVars, channelVars
<1> QED
  BY <1>1, <1>2, <1>3, <1>4, <1>5, <1>6, <1>7, <1>8, <1>9, <1>10, <1>11, <1>12
  DEF Next, DispatcherStep, LifecycleStep

(***************************************************************************)
(* run(), and what it is told and tells.                                   *)
(***************************************************************************)
LEMMA HostStep == TypeOK /\ HostInv /\ [Next]_vars => HostInv'
<1> SUFFICES ASSUME TypeOK, HostInv, [Next]_vars PROVE HostInv'
  OBVIOUS
<1>1. CASE Callback
  <2>1. host \in {"up", "unmounted"} /\ UNCHANGED runVars
    BY <1>1
    DEF Callback, Open, Create, Use, Cleanup, SetDelete, ReadDirectory, Inspect,
        Close, Begin
  <2>2. (~detaching /\ ~detaching') \/ detaching' = detaching
    BY <1>1
    DEF Callback, Open, Create, Use, Cleanup, SetDelete, ReadDirectory, Inspect, Close,
        EnterGate, gateVars
  <2> QED BY <2>1, <2>2 DEF HostInv, runVars
<1>2. CASE DispatcherStep
  <2>1. step # "idle" /\ UNCHANGED runVars
    BY <1>2, CallStepsAre DEF DispatcherStep, DispatcherReturn, Release
  <2>2. detaching' = detaching
    BY <1>2
    DEF DispatcherStep, DispatcherReturn, Release, Opening, Admit, Dropping,
        Operating, Scanning, DropGuard, gateVars
  <2> QED BY <2>1, <2>2 DEF HostInv, runVars
<1>3. CASE Mount
  BY <1>3 DEF Mount, LifeUnchanged, HostInv, gateVars, callbackVars
<1>4. ASSUME NEW r, LifecycleReturn(r) PROVE HostInv'
  BY <1>4
  DEF LifecycleReturn, AfterPoll, AfterDetached, LifeUnchanged, HostInv, gateVars,
      callbackVars
<1>5. CASE BeginDetach
  BY <1>5 DEF BeginDetach, CloseGate, LifeUnchanged, HostInv, gateVars, callbackVars
<1>6. CASE TearDown
  BY <1>6 DEF TearDown, LifeUnchanged, HostInv, gateVars, callbackVars
<1>7. CASE UNCHANGED <<gateVars, callbackVars, runVars>>
  BY <1>7 DEF HostInv, gateVars, callbackVars, runVars
<1> QED
  BY <1>1, <1>2, <1>3, <1>4, <1>5, <1>6, <1>7
  DEF Next, LifecycleStep, DispatcherSend, LifecycleSend, LifeUnchanged, Serve,
      PipeFails, Retirement, DesktopRequestsDetach, vars, mountVars

\* Which requests of the lifecycle thread change the control, and how the
\* dispatcher's only report leaves it.
LEMMA ServeControl ==
  ASSUME TypeOK, ExchangeInv, Serve
  PROVE  /\ request # None /\ request' = None
         /\ UNCHANGED <<caller, life, host, detaching, step>>
         /\ \/ caller = Dispatcher /\ UNCHANGED <<phase, pending>>
            \/ /\ caller = Lifecycle /\ life \in DOMAIN LifeExchange
               /\ request = LifeExchange[life]
               /\ \/ /\ UNCHANGED <<phase, pending>>
                     /\ reply' # "Detach" \/ life # "poll"
                     /\ life = "reportDetached" => reply' # "ok"
                  \/ /\ life = "poll" /\ phase \notin {"Failed", "Detached"}
                     /\ pending' = FALSE /\ phase' = phase
                     /\ reply' = IF pending THEN "Detach" ELSE "Continue"
                  \/ /\ life \in {"ready", "reportDetached", "reportBusy"}
                     /\ Report(request) /\ reply' = "ok"
<1>1. /\ request # None /\ request' = None
      /\ UNCHANGED <<caller, life, host, detaching, step>>
  BY DEF Serve, Dispatch, DispatchFile, DispatchTimedOut, DispatchPoll,
         DispatchReport, Answer, AnswerTimedOut, mountVars, gateVars,
         callbackVars, runVars
<1>2. CASE caller = Dispatcher
  <2>1. request \in FileRequests \cup {"Warning"}
    BY <1>1, <1>2, ExchangeTable DEF ExchangeInv
  <2>2. UNCHANGED <<phase, pending>>
    BY <2>1
    DEF Serve, Dispatch, DispatchFile, DispatchTimedOut, DispatchPoll,
        DispatchReport, Report, controlVars, FileRequests, Opens, Closes, Neutral
  <2> QED BY <1>1, <1>2, <2>2
<1>3. CASE caller = Lifecycle
  <2>1. life \in DOMAIN LifeExchange /\ request = LifeExchange[life]
    BY <1>1, <1>3, NoneIsOther DEF ExchangeInv
  <2>2. request = "Poll" <=> life = "poll"
    BY <2>1, LifeExchangeTable
  <2>3. /\ request \in Events => life \in {"ready", "reportDetached", "reportBusy"}
        /\ life = "reportDetached" => request = "Detached"
    BY <2>1, LifeExchangeTable, CallStepsAre DEF Events, LifeExchange
  <2>4. CASE \/ \E succeeds \in BOOLEAN : DispatchFile(HandleAt, succeeds)
             \/ DispatchTimedOut(HandleAt)
    <3>1. request \in FileRequests /\ UNCHANGED <<phase, pending>>
      BY <2>4 DEF DispatchFile, DispatchTimedOut, controlVars
    <3>2. request \notin {"Poll", "Detached"}
      BY <3>1 DEF FileRequests, Opens, Closes, Neutral
    <3> QED BY <1>1, <1>3, <2>1, <2>2, <2>3, <3>1, <3>2
  <2>5. CASE DispatchPoll
    BY <1>1, <1>3, <2>1, <2>2, <2>5
    DEF DispatchPoll, Answer, TakeDirective, Directive, Retired, controlVars
  <2>6. CASE DispatchReport
    BY <1>1, <1>3, <2>1, <2>2, <2>3, <2>6
    DEF DispatchReport, Answer, controlVars
  <2> QED BY <2>4, <2>5, <2>6 DEF Serve, Dispatch
<1> QED BY <1>1, <1>2, <1>3 DEF ExchangeInv, TypeOK

\* Only the thread that made the call gets its result.
LEMMA ReturnsTo ==
  ASSUME NEW t \in Threads, NEW r, Returns(t, r)
  PROVE  caller \in {t, None} /\ caller' = None /\ (r # "Offline" => caller = t /\ reply = r)
BY DEF Returns, Receive, Lose, Refused, CannotWrite, channelVars

LEMMA DirectiveStep ==
  TypeOK /\ ExchangeInv /\ DirectiveInv /\ [Next]_vars => DirectiveInv'
<1> SUFFICES ASSUME TypeOK, ExchangeInv, DirectiveInv, [Next]_vars
             PROVE  DirectiveInv'
  OBVIOUS
<1> USE DEF DirectiveInv, DetachOnlyOnRequest
<1>1. CASE Callback
  <2>1. UNCHANGED <<runVars, serverVars>>
    BY <1>1
    DEF Callback, Open, Create, Use, Cleanup, SetDelete, ReadDirectory, Inspect,
        Close, Begin
  <2> QED BY <2>1 DEF runVars, serverVars, controlVars, channelVars
<1>2. CASE DispatcherSend
  BY <1>2, NoneIsOther DEF DispatcherSend, Send, runVars, controlVars
<1>3. ASSUME NEW r, DispatcherReturn(r) PROVE DirectiveInv'
  BY <1>3, ReturnsTo, NoneIsOther DEF DispatcherReturn, runVars, controlVars
<1>4. CASE Release
  BY <1>4 DEF Release, runVars, controlVars, channelVars
<1>5. CASE Mount \/ BeginDetach \/ TearDown
  BY <1>5 DEF Mount, BeginDetach, TearDown, LifeUnchanged, controlVars, channelVars
<1>6. CASE LifecycleSend
  BY <1>6, NoneIsOther DEF LifecycleSend, Send, LifeUnchanged, runVars, controlVars
<1>7. ASSUME NEW r, LifecycleReturn(r) PROVE DirectiveInv'
  <2>1. /\ UNCHANGED controlVars /\ caller' = None
        /\ life' # "reportBusy" /\ life' # "unmount" /\ life' # "reportDetached"
        /\ life' = "gate" => life = "poll" /\ r = "Detach"
    BY <1>7, ReturnsTo DEF LifecycleReturn, LifeUnchanged, AfterPoll, AfterDetached
  <2>2. r = "Detach" => caller = Lifecycle /\ reply = "Detach"
    BY <1>7, ReturnsTo DEF LifecycleReturn
  <2> QED BY <2>1, <2>2, NoneIsOther DEF controlVars
<1>8. CASE Serve
  <2>1. CASE caller = Dispatcher
    <3>1. UNCHANGED <<caller, life, phase, pending>>
      BY <1>8, <2>1, ServeControl, NoneIsOther
    <3> QED BY <2>1, <3>1, NoneIsOther
  <2>2. CASE caller = Lifecycle /\ request = LifeExchange[life]
             /\ life \in DOMAIN LifeExchange
    <3>1. /\ life = "ready" => request = "Ready"
          /\ life = "reportBusy" => request = "DetachFailed"
          /\ life = "reportDetached" => request = "Detached"
      BY <2>2, LifeExchangeTable
    <3>2. CASE UNCHANGED <<phase, pending>> /\ (reply' # "Detach" \/ life # "poll")
      BY <1>8, <2>2, <3>2, ServeControl
    <3>3. CASE /\ life = "poll" /\ phase' = phase /\ pending' = FALSE
               /\ reply' = IF pending THEN "Detach" ELSE "Continue"
      BY <1>8, <2>2, <3>3, ServeControl
    <3>4. CASE life \in {"ready", "reportDetached", "reportBusy"} /\ Report(request)
      BY <1>8, <2>2, <3>1, <3>4, ServeControl DEF Report, Accepts
    <3> QED BY <1>8, <2>2, <3>2, <3>3, <3>4, ServeControl, NoneIsOther
  <2> QED BY <1>8, <2>1, <2>2, ServeControl
<1>9. CASE PipeFails
  BY <1>9, NoneIsOther
  DEF PipeFails, PipeBreaks, Break, mountVars, runVars, controlVars
<1>10. CASE Retirement
  BY <1>10
  DEF Retirement, ServerRetires, ServerStops, Retire, Stop, Fail, mountVars,
      runVars, controlVars
<1>11. CASE DesktopRequestsDetach
  BY <1>11 DEF DesktopRequestsDetach, RequestDetach, mountVars, runVars, channelVars
<1>12. CASE UNCHANGED vars
  BY <1>12 DEF vars, mountVars, runVars, serverVars, controlVars, channelVars
<1> QED
  BY <1>1, <1>2, <1>3, <1>4, <1>5, <1>6, <1>7, <1>8, <1>9, <1>10, <1>11, <1>12
  DEF Next, DispatcherStep, LifecycleStep

LEMMA OutcomeStep ==
  TypeOK /\ ExchangeInv /\ HostInv /\ OutcomeInv /\ [Next]_vars => OutcomeInv'
<1> SUFFICES ASSUME TypeOK, ExchangeInv, HostInv, OutcomeInv, [Next]_vars
             PROVE  OutcomeInv'
  OBVIOUS
<1> USE DEF OutcomeInv
<1>1. CASE Callback
  <2>1. UNCHANGED <<runVars, serverVars>> /\ (detaching => detaching')
    BY <1>1
    DEF Callback, Open, Create, Use, Cleanup, SetDelete, ReadDirectory, Inspect,
        Close, Begin,
        EnterGate, gateVars
  <2> QED BY <2>1 DEF runVars, serverVars, controlVars, channelVars
<1>2. CASE DispatcherSend
  BY <1>2, NoneIsOther DEF DispatcherSend, Send, runVars, controlVars, gateVars
<1>3. CASE DispatcherStep
  <2>1. UNCHANGED <<runVars, controlVars, detaching>>
    BY <1>3
    DEF DispatcherStep, DispatcherReturn, Release, Opening, Admit, Dropping,
        Operating, Scanning, DropGuard, gateVars
  <2>2. UNCHANGED <<caller, reply>> \/ caller' = None
    BY <1>3, ReturnsTo DEF DispatcherStep, DispatcherReturn, Release, channelVars
  <2> QED BY <2>1, <2>2, NoneIsOther DEF runVars, controlVars
<1>4. CASE Mount
  BY <1>4 DEF Mount, HostInv, LifeUnchanged, controlVars, channelVars, gateVars
<1>5. CASE LifecycleSend
  BY <1>5, NoneIsOther
  DEF LifecycleSend, Send, LifeUnchanged, runVars, controlVars, gateVars
<1>6. ASSUME NEW r, LifecycleReturn(r) PROVE OutcomeInv'
  <2>1. /\ UNCHANGED <<controlVars, host, detaching>> /\ caller' = None
        /\ life' = "success" => life = "reportDetached" /\ r = "ok"
    BY <1>6, ReturnsTo
    DEF LifecycleReturn, LifeUnchanged, AfterPoll, AfterDetached, gateVars
  <2>2. r = "ok" => caller = Lifecycle /\ reply = "ok"
    BY <1>6, ReturnsTo DEF LifecycleReturn
  <2> QED BY <2>1, <2>2, NoneIsOther DEF controlVars
<1>7. CASE BeginDetach
  BY <1>7
  DEF BeginDetach, CloseGate, LifeUnchanged, gateVars, controlVars, channelVars
<1>8. CASE TearDown
  <2>1. /\ UNCHANGED <<controlVars, detaching, caller, reply>>
        /\ host = "stopped" => host' = "stopped"
        /\ life' = "success" => life = "success"
        /\ life' = "reportDetached" => life \notin DOMAIN LifeExchange
    BY <1>8, CallStepsAre
    DEF TearDown, LifeUnchanged, gateVars, channelVars
  <2> QED BY <2>1 DEF controlVars, ExchangeInv
<1>9. CASE Serve
  <2>1. CASE caller = Dispatcher
    BY <1>9, <2>1, ServeControl, NoneIsOther
  <2>2. CASE caller = Lifecycle /\ request = LifeExchange[life]
             /\ life \in DOMAIN LifeExchange
    <3>1. /\ life = "ready" => request = "Ready"
          /\ life = "reportBusy" => request = "DetachFailed"
          /\ life = "reportDetached" => request = "Detached"
      BY <2>2, LifeExchangeTable
    <3>2. CASE UNCHANGED <<phase, pending>> /\ (life = "reportDetached" => reply' # "ok")
      BY <1>9, <2>2, <3>2, ServeControl
    <3>3. CASE life = "poll" /\ phase' = phase
      BY <1>9, <2>2, <3>3, ServeControl
    <3>4. CASE life \in {"ready", "reportDetached", "reportBusy"} /\ Report(request)
      BY <1>9, <2>2, <3>1, <3>4, ServeControl DEF Report, HostInv
    <3> QED BY <1>9, <2>2, <3>2, <3>3, <3>4, ServeControl, NoneIsOther
  <2> QED BY <1>9, <2>1, <2>2, ServeControl
<1>10. CASE PipeFails
  BY <1>10, NoneIsOther
  DEF PipeFails, PipeBreaks, Break, mountVars, gateVars, runVars, controlVars
<1>11. CASE Retirement
  BY <1>11
  DEF Retirement, ServerRetires, ServerStops, Retire, Stop, Fail, mountVars,
      gateVars, runVars, controlVars
<1>12. CASE DesktopRequestsDetach
  BY <1>12
  DEF DesktopRequestsDetach, RequestDetach, mountVars, gateVars, runVars, channelVars
<1>13. CASE UNCHANGED vars
  BY <1>13 DEF vars, mountVars, gateVars, runVars, serverVars, controlVars, channelVars
<1> QED
  BY <1>1, <1>2, <1>3, <1>4, <1>5, <1>6, <1>7, <1>8, <1>9, <1>10, <1>11, <1>12, <1>13
  DEF Next, LifecycleStep

(***************************************************************************)
(* The invariant and what follows from it.                                 *)
(***************************************************************************)
LEMMA StepIInv == IInv /\ [Next]_vars => IInv'
BY TypeStep, ExchangeStep, GateStep, ContextStep, RemoteStep, HostStep,
   DirectiveStep, OutcomeStep DEF IInv

LEMMA Invariance == Spec => []IInv
BY InitIInv, StepIInv, PTL DEF Spec

LEMMA NothingOpen == IInv => NothingOpenAtDetach
<1> SUFFICES ASSUME IInv, detaching PROVE guard = {} /\ RemoteFiles = {}
  BY DEF NothingOpenAtDetach
<1>1. guard = {}
  BY DEF IInv, GateInv
<1>2. \A c \in Contexts : kind[c] # "file"
  BY <1>1 DEF IInv, GateInv
<1>3. \A c \in Contexts : <<c, "file">> \notin remote
  <2> SUFFICES ASSUME NEW c \in Contexts, <<c, "file">> \in remote PROVE FALSE
    OBVIOUS
  <2>1. CASE <<c, "file">> \in held
    BY <1>2, <2>1 DEF IInv, ContextInv
  <2>2. CASE c = current /\ step \in {"open", "createFile"}
    BY <1>2, <2>2 DEF IInv, ContextInv
  <2> QED BY <2>1, <2>2 DEF IInv, RemoteInv
<1>4. \A h \in remote : h[2] # "file"
  BY <1>3 DEF IInv, TypeOK, Handles
<1> QED BY <1>1, <1>4 DEF RemoteFiles

\* A detach is never accepted while the user has a file open, however an open
\* or a close interleaves with it: from the moment the gate is shut no context
\* has a guard and the server keeps no file handle of the bridge.
THEOREM NothingOpenAlways == Spec => []NothingOpenAtDetach
BY Invariance, NothingOpen, PTL

\* Behind a gate that is shut only callbacks run that browse a directory or look
\* at a path; none that opens, creates or changes anything.
THEOREM OnlyBrowsingAlways == Spec => []OnlyBrowsingAfterDetach
<1>1. IInv => OnlyBrowsingAfterDetach
  <2> SUFFICES ASSUME IInv, detaching, step \notin {"idle", "inspect"}
               PROVE  kind[current] = "passive" /\ step \notin {"stat", "mkdir"}
    BY DEF OnlyBrowsingAfterDetach
  <2>1. guard = {} /\ current \in Contexts /\ kind[current] # "none"
    BY DEF IInv, GateInv, ContextInv, TypeOK
  <2> QED BY <2>1 DEF IInv, GateInv
<1> QED BY <1>1, Invariance, PTL

\* What the desktop shows as detached is gone: the host has stopped, no
\* callback runs and no file is open on either side.  Success means this.
THEOREM DetachedAlwaysGone == Spec => []DetachedMeansGone
<1>1. IInv => DetachedMeansGone
  BY NothingOpen
  DEF NothingOpenAtDetach, DetachedMeansGone, IInv, OutcomeInv, HostInv
<1> QED BY <1>1, Invariance, PTL

\* A detach request is followed at most once, and only if it was made.
THEOREM DetachAlwaysRequested == Spec => []DetachOnlyOnRequest
<1>1. IInv => DetachOnlyOnRequest
  BY DEF IInv, DirectiveInv
<1> QED BY <1>1, Invariance, PTL

(***************************************************************************)
(* The handles on both sides, and the reports of run(): a second inductive *)
(* invariant, which rests on the first.                                    *)
(***************************************************************************)
\* The handles that the server keeps, until it retires: those of the contexts, or
\* those that they will have when the dispatcher takes the reply that waits for it.
AgreeInv ==
  server = "serving" =>
    IF caller = Dispatcher /\ request = None
      THEN reply # None /\ remote = HeldAfter(reply)
      ELSE remote = held

\* A handle has a context, which keeps it until it is closed; the scan that looks
\* whether a directory is empty does not outlive its callback.
OwnedInv ==
  /\ \A h \in held : kind[h[1]] # "none"
  /\ \A h \in held : h[2] = "probe" => h[1] = current /\ step \in {"probeList", "probeClose"}
  /\ step \in {"stat", "mkdir", "open", "createFile", "warnScan", "release"}
       => <<current, "scan">> \notin held

\* A report that has not been answered yet, or a step that leads to one.
Unanswered == caller # Lifecycle \/ request # None

ReportInv ==
  /\ phase = "Failed" => server \in {"closing", "stopped"}
  /\ life \in {"negotiate", "mount"} \/ (life = "ready" /\ Unanswered)
     => phase \in {"Starting", "Failed"}
  /\ life = "reportDetached" /\ Unanswered => phase # "Detached"

HInv == AgreeInv /\ OwnedInv /\ ReportInv

LEMMA InitHInv == Init => HInv
BY NoneIsOther
DEF Init, ServerInit, ControlInit, ChannelInit, HInv, AgreeInv, OwnedInv, ReportInv

\* What the steps of run() without a call, and those of the server, leave alone.
LEMMA LocalLeaves ==
  ASSUME Mount \/ BeginDetach \/ TearDown
  PROVE  /\ UNCHANGED <<contextVars, callbackVars, serverVars>>
         /\ life \in {"mount", "gate", "unmount", "lost"}
BY DEF Mount, BeginDetach, TearDown, LifeUnchanged, serverVars

LEMMA ServerLeaves ==
  ASSUME Serve \/ PipeFails \/ Retirement \/ DesktopRequestsDetach
  PROVE  UNCHANGED <<contextVars, callbackVars, runVars>>
BY DEF Serve, PipeFails, Retirement, DesktopRequestsDetach, mountVars

LEMMA CallbackLeaves ==
  ASSUME Callback
  PROVE  /\ step = "idle" /\ UNCHANGED <<held, runVars, serverVars>>
BY DEF Callback, Open, Create, Use, Cleanup, SetDelete, ReadDirectory, Inspect, Close,
       Begin, contextVars

LEMMA LifecycleReturnLeaves ==
  ASSUME NEW r, LifecycleReturn(r)
  PROVE  UNCHANGED <<contextVars, callbackVars, remote, controlVars>>
BY DEF LifecycleReturn, LifeUnchanged

LEMMA NextCases ==
  ASSUME [Next]_vars
  PROVE  \/ Callback \/ DispatcherSend \/ LifecycleSend \/ Release
         \/ \E r \in Results \cup {"Offline"} : DispatcherReturn(r) \/ LifecycleReturn(r)
         \/ Mount \/ BeginDetach \/ TearDown
         \/ Serve \/ PipeFails \/ Retirement \/ DesktopRequestsDetach
         \/ UNCHANGED vars
BY DEF Next, DispatcherStep, LifecycleStep

LEMMA HandleSteps ==
  ASSUME NEW s \in CallSteps
  PROVE  /\ Exchange[s] \in Opens <=> s \in {"open", "createFile", "scan", "probe"}
         /\ Exchange[s] \in Closes <=> s \in {"closeFile", "closeScan", "rewind", "probeClose"}
         /\ Exchange[s] \in Events => Exchange[s] = "Warning"
BY CallStepsAre DEF Exchange, Opens, Closes, Events

\* The server does to its tables what the dispatcher will do to the context when
\* it takes the answer.
LEMMA ServeAgrees ==
  ASSUME TypeOK, ExchangeInv, AgreeInv, Serve
  PROVE  AgreeInv'
<1>1. UNCHANGED <<held, step, current, caller>> /\ request' = None
  BY ServerLeaves, ServeControl DEF contextVars, callbackVars
<1> SUFFICES ASSUME server' = "serving"
             PROVE  IF caller = Dispatcher THEN reply' # None /\ remote' = HeldAfter(reply')
                                           ELSE remote' = held
  BY <1>1 DEF AgreeInv, HeldAfter, Closing, HandleAt
<1>2. /\ server = "serving" /\ request # None /\ remote = held
      /\ ~DispatchTimedOut(HandleAt)
  BY DEF AgreeInv, Serve, Dispatch, DispatchFile, DispatchTimedOut, DispatchPoll,
         DispatchReport, Answer, AnswerTimedOut
<1>3. CASE caller = Dispatcher
  <2>1. request = Exchange[step] /\ step \in CallSteps
    BY <1>2, <1>3 DEF ExchangeInv
  <2>2. request # "Poll"
    BY <2>1, ExchangeTable DEF FileRequests, Opens, Closes, Neutral
  <2>3. CASE \E succeeds \in BOOLEAN : DispatchFile(HandleAt, succeeds)
    <3>1. PICK succeeds \in BOOLEAN : DispatchFile(HandleAt, succeeds)
      BY <2>3
    <3>2. reply' = IF succeeds THEN "ok" ELSE "error"
      BY <3>1 DEF DispatchFile, Answer
    <3>3. remote' = HeldAfter(reply')
      BY <1>2, <2>1, <3>1, <3>2, HandleSteps DEF DispatchFile, Tables, HeldAfter, Closing
    <3> QED BY <1>3, <3>2, <3>3, NoneIsOther DEF Results
  <2>4. CASE DispatchReport
    <3>1. step \notin {"open", "createFile", "scan", "probe", "closeFile", "closeScan",
                       "rewind", "probeClose"}
      BY <2>1, <2>4, HandleSteps DEF DispatchReport, Events, Opens, Closes
    <3>2. remote' = held /\ reply' \in {"ok", "error"}
      BY <1>2, <2>4 DEF DispatchReport, Answer
    <3> QED BY <1>3, <3>1, <3>2, NoneIsOther DEF HeldAfter, Closing, Results
  <2> QED BY <1>2, <2>2, <2>3, <2>4 DEF Serve, Dispatch, DispatchPoll
<1>4. CASE caller = Lifecycle
  <2>1. request \notin Opens \cup Closes
    BY <1>2, <1>4, LifeExchangeTable DEF ExchangeInv, Opens, Closes
  <2>2. remote' = remote
    BY <1>2, <2>1
    DEF Serve, Dispatch, DispatchFile, DispatchPoll, DispatchReport, Tables
  <2> QED BY <1>2, <1>4, <2>2, NoneIsOther
<1> QED BY <1>2, <1>3, <1>4 DEF ExchangeInv, TypeOK

LEMMA AgreeStep ==
  TypeOK /\ ExchangeInv /\ AgreeInv /\ [Next]_vars => AgreeInv'
<1> SUFFICES ASSUME TypeOK, ExchangeInv, AgreeInv, [Next]_vars PROVE AgreeInv'
  OBVIOUS
<1>1. CASE Callback
  BY <1>1, CallbackLeaves, CallStepsAre DEF AgreeInv, ExchangeInv, serverVars, channelVars
<1>2. CASE DispatcherSend \/ LifecycleSend
  BY <1>2, RequestTypes, NoneIsOther
  DEF DispatcherSend, LifecycleSend, LifeUnchanged, Send, AgreeInv, contextVars
<1>3. ASSUME NEW r, DispatcherReturn(r) PROVE AgreeInv'
  <2>1. /\ caller' = None /\ server' = server /\ remote' = remote /\ held' = HeldAfter(r)
        /\ \/ caller = Dispatcher /\ reply = r /\ r # None
           \/ server = "stopped"
    BY <1>3, ReturnsIdle DEF DispatcherReturn
  <2>2. reply # None => request = None
    BY DEF ExchangeInv
  <2> QED BY <2>1, <2>2, NoneIsOther DEF AgreeInv
<1>4. ASSUME NEW r, LifecycleReturn(r) PROVE AgreeInv'
  <2>1. caller' = None /\ server' = server /\ caller \in {Lifecycle, None}
    BY <1>4, ReturnsIdle, ReturnsTo DEF LifecycleReturn
  <2>2. UNCHANGED <<remote, held>>
    BY <1>4, LifecycleReturnLeaves DEF contextVars
  <2> QED BY <2>1, <2>2, NoneIsOther DEF AgreeInv
<1>5. CASE Release
  BY <1>5, CallStepsAre DEF Release, ExchangeInv, AgreeInv, channelVars
<1>6. CASE UNCHANGED <<contextVars, callbackVars, serverVars>>
  BY <1>6
  DEF AgreeInv, HeldAfter, Closing, HandleAt, contextVars, callbackVars, serverVars,
      channelVars
<1>7. CASE Serve
  BY <1>7, ServeAgrees
<1>8. CASE PipeFails \/ Retirement
  BY <1>8
  DEF PipeFails, PipeBreaks, Break, Retirement, ServerRetires, ServerStops, Retire, Stop,
      AgreeInv
<1>9. CASE DesktopRequestsDetach
  BY <1>9, ServerLeaves
  DEF DesktopRequestsDetach, AgreeInv, HeldAfter, Closing, HandleAt, contextVars,
      callbackVars, channelVars
<1> QED
  BY <1>1, <1>2, <1>3, <1>4, <1>5, <1>6, <1>7, <1>8, <1>9, NextCases, LocalLeaves
  DEF vars, mountVars

LEMMA CallbackOwned ==
  ASSUME TypeOK, OwnedInv, Callback
  PROVE  OwnedInv'
<1>1. PICK c \in Contexts :
        \/ \E k \in Kinds : Open(c, k) \/ Create(c, k)
        \/ Use(c) \/ Cleanup(c) \/ SetDelete(c) \/ ReadDirectory(c) \/ Close(c)
        \/ Inspect /\ c = current
  BY DEF Callback, TypeOK
<1>2. step = "idle" /\ held' = held
  BY CallbackLeaves
<1>3. \A h \in held : h \in Handles /\ h[2] # "probe"
  BY <1>2 DEF OwnedInv, TypeOK
<1>4. CASE \E k \in Kinds : Open(c, k) \/ Create(c, k)
  <2>1. PICK k \in Kinds : Open(c, k) \/ Create(c, k)
    BY <1>4
  <2>2. kind[c] = "none" /\ current' = c /\ kind' = [kind EXCEPT ![c] = k]
    BY <2>1 DEF Open, Create, Begin
  <2>3. \A h \in held : h[1] # c
    BY <2>2 DEF OwnedInv
  <2>4. \A h \in held : kind'[h[1]] # "none"
    BY <1>3, <2>2, <2>3 DEF OwnedInv, TypeOK, Handles
  <2> QED BY <1>2, <1>3, <2>2, <2>3, <2>4 DEF OwnedInv
<1>5. CASE Use(c) \/ Cleanup(c) \/ SetDelete(c) \/ ReadDirectory(c) \/ Inspect
  <2>1. /\ kind' = kind
        /\ step' \notin {"stat", "mkdir", "open", "createFile", "warnScan", "release"}
    BY <1>5 DEF Use, Cleanup, SetDelete, ReadDirectory, Inspect, Begin, contextVars
  <2> QED BY <1>2, <1>3, <2>1 DEF OwnedInv
<1>6. CASE Close(c)
  <2>1. kind' = kind /\ current' = c /\ step' = DropFrom(c, held)
    BY <1>6 DEF Close, Begin, contextVars
  <2>2. step' \in {"closeFile", "closeScan", "release"}
    BY <2>1, DropFromType
  <2>3. step' = "release" => <<c, "scan">> \notin held
    BY <2>1 DEF DropFrom
  <2> QED BY <1>2, <1>3, <2>1, <2>2, <2>3 DEF OwnedInv
<1> QED BY <1>1, <1>4, <1>5, <1>6

\* A handle that a step opens goes to the context of the callback, and a scan is
\* gone from the context before the context is.
LEMMA ContinueOwned ==
  ASSUME TypeOK, ContextInv, OwnedInv, NEW r, DispatcherReturn(r)
  PROVE  OwnedInv'
<1> DEFINE scan  == <<current, "scan">>
           early == {"stat", "mkdir", "open", "createFile", "warnScan", "release"}
<1>1. /\ UNCHANGED <<kind, current>> /\ held' = HeldAfter(r) /\ step \in CallSteps
      /\ Opening(r) \/ Dropping(r) \/ Operating(r) \/ Scanning(r)
  BY DEF DispatcherReturn
<1>2. \A h \in held' : \/ h \in held
                       \/ h = HandleAt /\ step \in {"open", "createFile", "scan", "probe"}
                            /\ r = "ok"
  BY <1>1 DEF HeldAfter
<1>3. HandleAt[1] = current
  BY DEF HandleAt
<1>4. \A h \in held' : kind'[h[1]] # "none"
  BY <1>1, <1>2, <1>3 DEF OwnedInv, ContextInv
<1>5. ASSUME NEW h \in held', h[2] = "probe"
      PROVE  h[1] = current /\ step' \in {"probeList", "probeClose"}
  <2>1. CASE h \in held
    <3>1. h[1] = current /\ step \in {"probeList", "probeClose"}
      BY <1>5, <2>1 DEF OwnedInv
    <3>2. h = <<current, "probe">>
      BY <1>5, <2>1, <3>1 DEF TypeOK, Handles
    <3>3. step = "probeList"
      BY <1>1, <3>1, <3>2 DEF HeldAfter, Closing, HandleAt
    <3> QED BY <1>1, <3>1, <3>3 DEF Opening, Dropping, Operating, Scanning
  <2>2. CASE h = HandleAt /\ step \in {"open", "createFile", "scan", "probe"} /\ r = "ok"
    <3>1. step = "probe"
      BY <1>5, <2>2 DEF HandleAt
    <3> QED BY <1>1, <1>3, <2>2, <3>1 DEF Opening, Dropping, Operating, Scanning
  <2> QED BY <1>2, <2>1, <2>2
<1>6. step' \in early => scan \notin held'
  <2>1. CASE Opening(r)
    <3>1. step \in {"stat", "mkdir", "open", "createFile", "describe"}
      BY <2>1 DEF Opening
    <3>2. step' \in early => step # "describe"
      BY <2>1 DEF Opening
    <3>3. scan \in held' => scan \in held
      BY <1>2, <3>1 DEF HandleAt
    <3> QED BY <3>1, <3>2, <3>3 DEF OwnedInv
  <2>2. CASE Dropping(r)
    <3>1. CASE step = "closeFile"
      <4>1. held' = held \ {HandleAt} /\ HandleAt = <<current, "file">>
        BY <1>1, <3>1 DEF HeldAfter, Closing, HandleAt
      <4>2. step' = "warnFile" \/ step' = DropFrom(current, held')
        BY <2>2, <3>1, <4>1 DEF Dropping
      <4> QED BY <4>2 DEF DropFrom
    <3>2. CASE step \in {"warnCreate", "warnFile"}
      <4>1. held' = held /\ step' = DropFrom(current, held)
        BY <1>1, <2>2, <3>2 DEF HeldAfter, Closing, Dropping
      <4> QED BY <4>1 DEF DropFrom
    <3>3. CASE step = "closeScan"
      BY <1>1, <3>3 DEF HeldAfter, Closing, HandleAt
    <3>4. CASE step = "warnScan"
      BY <1>1, <3>4 DEF HeldAfter, Closing, OwnedInv
    <3> QED BY <2>2, <3>1, <3>2, <3>3, <3>4 DEF Dropping
  <2>3. CASE Operating(r) \/ Scanning(r)
    BY <2>3 DEF Operating, Scanning
  <2> QED BY <1>1, <2>1, <2>2, <2>3
<1> QED BY <1>1, <1>4, <1>5, <1>6 DEF OwnedInv

\* A context that is given up holds nothing any more.
LEMMA ReleaseOwned ==
  ASSUME TypeOK, ContextInv, OwnedInv, Release
  PROVE  OwnedInv'
<1>1. /\ step = "release" /\ step' = "idle" /\ held' = held /\ current' = current
      /\ kind' = [kind EXCEPT ![current] = "none"]
  BY DEF Release
<1>2. ASSUME NEW h \in held
      PROVE  h[1] # current /\ h[1] \in Contexts /\ h[2] # "probe"
  <2>1. PICK c \in Contexts, w \in {"file", "scan", "probe"} : h = <<c, w>>
    BY DEF TypeOK, Handles
  <2>2. <<current, "file">> \notin held /\ <<current, "scan">> \notin held /\ w # "probe"
    BY <1>1, <2>1 DEF ContextInv, OwnedInv
  <2> QED BY <2>1, <2>2
<1> QED BY <1>1, <1>2 DEF OwnedInv, TypeOK

LEMMA OwnedStep ==
  TypeOK /\ ContextInv /\ OwnedInv /\ [Next]_vars => OwnedInv'
<1> SUFFICES ASSUME TypeOK, ContextInv, OwnedInv, [Next]_vars PROVE OwnedInv'
  OBVIOUS
<1>1. CASE UNCHANGED <<contextVars, callbackVars>>
  BY <1>1 DEF contextVars, callbackVars, OwnedInv
<1> QED
  BY <1>1, NextCases, CallbackOwned, ContinueOwned, ReleaseOwned, LocalLeaves,
     ServerLeaves, LifecycleReturnLeaves
  DEF DispatcherSend, LifecycleSend, LifeUnchanged, vars, mountVars

(***************************************************************************)
(* The reports of run().                                                   *)
(***************************************************************************)
LEMMA ServeReports ==
  ASSUME TypeOK, ExchangeInv, ReportInv, Serve
  PROVE  ReportInv'
<1> USE DEF ReportInv, Unanswered
<1>1. server = "serving" /\ phase # "Failed"
  BY DEF Serve, Dispatch, DispatchFile, DispatchTimedOut, DispatchPoll, DispatchReport,
         Answer, AnswerTimedOut
<1>2. UNCHANGED <<caller, life>> /\ request' = None
  BY ServeControl
<1>3. CASE caller = Dispatcher
  <2>1. UNCHANGED phase
    BY <1>3, ServeControl, NoneIsOther
  <2> QED BY <1>1, <1>2, <1>3, <2>1, NoneIsOther
<1>4. CASE caller = Lifecycle
  <2>1. life \in DOMAIN LifeExchange /\ life # "mount"
    BY <1>4, ServeControl, NoneIsOther, CallStepsAre
  <2>2. phase' # "Failed" /\ (life = "negotiate" => phase' = phase)
    BY <1>1, <1>4, ServeControl, NoneIsOther DEF Report
  <2> QED BY <1>2, <1>4, <2>1, <2>2
<1> QED BY <1>3, <1>4, ServeControl, NoneIsOther

LEMMA LocalReports ==
  ASSUME TypeOK, DirectiveInv, ReportInv, Mount \/ BeginDetach \/ TearDown
  PROVE  ReportInv'
<1>1. UNCHANGED <<phase, caller, request, server>>
  BY LocalLeaves DEF serverVars, controlVars, channelVars
<1>2. /\ life' \notin {"negotiate", "mount"}
      /\ life' = "ready" => life = "mount"
      /\ life' = "reportDetached" => life = "unmount"
  BY DEF Mount, BeginDetach, TearDown
<1>3. life = "unmount" => phase # "Detached"
  BY DEF DirectiveInv, DetachOnlyOnRequest
<1> QED BY <1>1, <1>2, <1>3 DEF ReportInv, Unanswered

LEMMA ReportStep ==
  TypeOK /\ ExchangeInv /\ DirectiveInv /\ ReportInv /\ [Next]_vars => ReportInv'
<1> SUFFICES ASSUME TypeOK, ExchangeInv, DirectiveInv, ReportInv, [Next]_vars
             PROVE  ReportInv'
  OBVIOUS
<1> USE DEF ReportInv, Unanswered
<1>1. CASE Callback \/ UNCHANGED vars
  BY <1>1, CallbackLeaves
  DEF vars, mountVars, runVars, serverVars, controlVars, channelVars
<1>2. CASE DispatcherSend \/ LifecycleSend
  BY <1>2, NoneIsOther, RequestTypes
  DEF DispatcherSend, LifecycleSend, LifeUnchanged, Send, runVars, controlVars
<1>3. ASSUME NEW r, DispatcherReturn(r) PROVE ReportInv'
  <2>1. caller # Lifecycle /\ caller' # Lifecycle /\ server' = server
    BY <1>3, ReturnsIdle, ReturnsTo, NoneIsOther DEF DispatcherReturn
  <2> QED BY <1>3, <2>1 DEF DispatcherReturn, runVars, controlVars
<1>4. ASSUME NEW r, LifecycleReturn(r) PROVE ReportInv'
  <2>1. /\ UNCHANGED <<phase, server>>
        /\ life' \notin {"negotiate", "ready", "reportDetached"}
        /\ life' = "mount" => life = "negotiate"
    BY <1>4, ReturnsIdle, LifecycleReturnLeaves
    DEF LifecycleReturn, AfterPoll, AfterDetached, controlVars
  <2> QED BY <2>1
<1>5. CASE Release
  BY <1>5 DEF Release, runVars, controlVars, channelVars
<1>6. CASE PipeFails
  BY <1>6, ServerLeaves DEF PipeFails, PipeBreaks, Break, runVars, controlVars
<1>7. CASE Retirement
  BY <1>7, ServerLeaves
  DEF Retirement, ServerRetires, ServerStops, Retire, Stop, Fail, runVars, controlVars
<1>8. CASE DesktopRequestsDetach
  BY <1>8, ServerLeaves DEF DesktopRequestsDetach, RequestDetach, runVars, channelVars
<1> QED
  BY <1>1, <1>2, <1>3, <1>4, <1>5, <1>6, <1>7, <1>8, NextCases, ServeReports,
     LocalReports

LEMMA HInvariance == Spec => [](IInv /\ HInv)
<1>1. IInv /\ HInv /\ [Next]_vars => HInv'
  BY AgreeStep, OwnedStep, ReportStep DEF IInv, HInv
<1> QED BY <1>1, InitIInv, InitHInv, StepIInv, PTL DEF Spec

\* Between two calls of the dispatcher the bridge and the server agree on the
\* open handles, however calls fail, contexts are dropped half opened and
\* directories are rewound: none leaks on the server and none that a context
\* still uses is gone.
THEOREM HandlesAlwaysAgree == Spec => []HandlesAgree
<1>1. IInv /\ HInv => HandlesAgree
  BY DEF HInv, AgreeInv, OwnedInv, HandlesAgree
<1> QED BY <1>1, HInvariance, PTL

\* No report of run() meets a phase that rejects it, so that run() never tears
\* the drive down because of its own report.
THEOREM ReportsAlwaysExpected == Spec => []ReportsExpected
<1>1. IInv /\ HInv => ReportsExpected
  <2> SUFFICES ASSUME IInv, HInv, server = "serving", caller = Lifecycle,
                      request \in Events
               PROVE  Accepts(request)
    BY DEF ReportsExpected
  <2>1. request # None /\ phase # "Failed" /\ phase \in Phases
    BY NoneIsOther DEF Requests, HInv, ReportInv, IInv, TypeOK, ControlTypeOK
  <2>2. life \in DOMAIN LifeExchange /\ request = LifeExchange[life]
    BY <2>1 DEF IInv, ExchangeInv
  <2>3. \/ life = "ready" /\ request = "Ready"
        \/ life = "reportBusy" /\ request = "DetachFailed"
        \/ life = "reportDetached" /\ request = "Detached"
    BY <2>2, CallStepsAre DEF LifeExchange, Events
  <2> QED BY <2>1, <2>3
          DEF HInv, ReportInv, Unanswered, IInv, DirectiveInv, DetachOnlyOnRequest, Accepts
<1> QED BY <1>1, HInvariance, PTL

(***************************************************************************)
(* WindowsMount implements Attachment: its initial states map to initial   *)
(* ones, and every step from a state of the invariant maps to a step of    *)
(* Attachment or to none.                                                  *)
(***************************************************************************)
LEMMA PromiseInit == Init => Promise!Init
BY DEF Init, ServerInit, ControlInit, Promise!Init

\* A step that leaves these alone does not show.
LEMMA PromiseStutter ==
  ASSUME phase' = phase, guard' = guard, detaching' = detaching, host' = host
  PROVE  UNCHANGED Promise!vars
BY DEF Promise!vars

\* A callback that enters the gate begins a use of the drive.
LEMMA CallbackPromise ==
  ASSUME IInv, Callback
  PROVE  [Promise!Next]_Promise!vars
<1>1. /\ phase' = phase /\ host' = host /\ host \in {"up", "unmounted"}
      /\ \/ UNCHANGED gateVars
         \/ /\ ~detaching /\ detaching' = detaching
            /\ \E c \in Contexts : guard' = guard \cup {c}
  BY DEF Callback, Open, Create, Use, Cleanup, SetDelete, ReadDirectory, Inspect, Close,
         Begin, EnterGate, runVars, serverVars, controlVars
<1>2. CASE UNCHANGED gateVars
  BY <1>1, <1>2, PromiseStutter DEF gateVars
<1>3. CASE /\ ~detaching /\ detaching' = detaching
           /\ \E c \in Contexts : guard' = guard \cup {c}
  <2>1. Promise!BeginUse
    BY <1>1, <1>3 DEF Promise!BeginUse
  <2> QED BY <2>1 DEF Promise!Next
<1> QED BY <1>1, <1>2, <1>3

LEMMA DispatcherPromise ==
  ASSUME IInv, DispatcherStep
  PROVE  [Promise!Next]_Promise!vars
<1>1. /\ phase' = phase /\ host' = host /\ detaching' = detaching
      /\ guard' = guard \/ guard' = guard \ {current}
  BY DEF DispatcherStep, DispatcherReturn, Release, Opening, Admit, Dropping,
         Operating, Scanning, DropGuard, gateVars, runVars, controlVars
<1>2. CASE guard' # {} \/ guard = {}
  <2>1. (guard' # {}) <=> (guard # {})
    BY <1>1, <1>2
  <2> QED BY <1>1, <2>1 DEF Promise!vars
<1>3. CASE guard' = {} /\ guard # {}
  <2>1. Promise!EndUse
    BY <1>1, <1>3 DEF Promise!EndUse
  <2> QED BY <2>1 DEF Promise!Next
<1> QED BY <1>2, <1>3

LEMMA BeginDetachPromise ==
  ASSUME IInv, BeginDetach
  PROVE  [Promise!Next]_Promise!vars
<1>1. phase' = phase /\ host' = host
  BY DEF BeginDetach, LifeUnchanged, controlVars
<1>2. CASE UNCHANGED gateVars
  BY <1>1, <1>2, PromiseStutter DEF gateVars
<1>3. CASE CloseGate
  <2>1. guard = {} /\ guard' = {}
    BY <1>3, CloseGateEmpties DEF IInv, GateInv
  <2>2. host = "up" /\ ~detaching /\ phase \in {"Detaching", "Failed"}
    BY DEF BeginDetach, IInv, HostInv, DirectiveInv, DetachOnlyOnRequest
  <2>3. Promise!GiveUp
    BY <1>1, <1>3, <2>1, <2>2 DEF Promise!GiveUp, CloseGate
  <2> QED BY <2>3 DEF Promise!Next
<1> QED BY <1>2, <1>3 DEF BeginDetach

LEMMA HostPromise ==
  ASSUME IInv, Mount \/ TearDown
  PROVE  [Promise!Next]_Promise!vars
<1>1. UNCHANGED <<phase, guard, detaching>>
  BY DEF Mount, TearDown, LifeUnchanged, controlVars, gateVars
<1>2. CASE Mount
  <2>1. host = "down" /\ ~detaching
    BY <1>2 DEF Mount, IInv, HostInv
  <2>2. CASE host' = host
    BY <1>1, <2>2, PromiseStutter
  <2>3. CASE host' = "up"
    <3>1. Promise!Appear
      BY <1>1, <2>1, <2>3 DEF Promise!Appear
    <3> QED BY <3>1 DEF Promise!Next
  <2> QED BY <1>2, <2>2, <2>3 DEF Mount
<1>3. CASE TearDown
  <2>1. CASE detaching \/ host # "up"
    BY <1>1, <1>3, <2>1 DEF TearDown, Promise!vars
  <2>2. CASE ~detaching /\ host = "up"
    <3>1. Promise!TearDown
      BY <1>1, <1>3, <2>2 DEF TearDown, Promise!TearDown
    <3> QED BY <3>1 DEF Promise!Next
  <2> QED BY <2>1, <2>2
<1> QED BY <1>2, <1>3

\* The desktop's view changes where the server processes a report.
LEMMA ServePromise ==
  ASSUME IInv, Serve
  PROVE  [Promise!Next]_Promise!vars
<1>1. UNCHANGED <<guard, detaching, host>>
  BY DEF Serve, mountVars, gateVars, runVars
<1>2. CASE phase' = phase
  BY <1>1, <1>2, PromiseStutter
<1>3. CASE phase' # phase
  <2>1. /\ caller = Lifecycle /\ life \in {"ready", "reportDetached", "reportBusy"}
        /\ request # None
        /\ request = LifeExchange[life] /\ Report(request)
    BY <1>3, ServeControl DEF IInv
  <2>2. CASE life = "ready"
    <3>1. request = "Ready" /\ host = "up"
      BY <2>1, <2>2, CallStepsAre, LifeExchangeTable DEF IInv, HostInv
    <3>2. Promise!Ready
      BY <1>1, <2>1, <2>2, <3>1 DEF Report, Accepts, Promise!Ready, IInv, HostInv
    <3> QED BY <3>2 DEF Promise!Next
  <2>3. CASE life = "reportDetached"
    <3>1. request = "Detached" /\ detaching
      BY <2>1, <2>3, CallStepsAre, LifeExchangeTable DEF IInv, HostInv
    <3>2. phase = "Detaching" /\ phase' = "Detached"
      BY <2>1, <2>3, <3>1
      DEF Report, Accepts, IInv, DirectiveInv, DetachOnlyOnRequest
    <3>3. Promise!Confirm
      BY <1>1, <3>1, <3>2 DEF Promise!Confirm
    <3> QED BY <3>3 DEF Promise!Next
  <2>4. CASE life = "reportBusy"
    <3>1. request = "DetachFailed" /\ ~detaching /\ host = "up"
      BY <2>1, <2>4, CallStepsAre, LifeExchangeTable DEF IInv, HostInv
    <3>2. Promise!Refuse
      BY <1>1, <2>1, <3>1 DEF Report, Accepts, Promise!Refuse
    <3> QED BY <3>2 DEF Promise!Next
  <2> QED BY <2>1, <2>2, <2>3, <2>4
<1> QED BY <1>2, <1>3

LEMMA ServerPromise ==
  ASSUME IInv, PipeFails \/ Retirement \/ DesktopRequestsDetach
  PROVE  [Promise!Next]_Promise!vars
<1>1. UNCHANGED <<guard, detaching, host>>
  BY DEF PipeFails, Retirement, DesktopRequestsDetach, mountVars, gateVars, runVars
<1>2. CASE phase' = phase
  BY <1>1, <1>2, PromiseStutter
<1>3. CASE phase' # phase /\ Retirement
  <2>1. phase # "Detached" /\ phase' = "Failed"
    BY <1>3 DEF Retirement, ServerRetires, ServerStops, Fail, controlVars
  <2>2. Promise!Fail
    BY <1>1, <2>1 DEF Promise!Fail
  <2> QED BY <2>2 DEF Promise!Next
<1>4. CASE DesktopRequestsDetach
  <2>1. Promise!RequestDetach
    BY <1>1, <1>4 DEF DesktopRequestsDetach, RequestDetach, Promise!RequestDetach
  <2> QED BY <2>1 DEF Promise!Next
<1>5. CASE PipeFails
  BY <1>1, <1>5, PromiseStutter DEF PipeFails, PipeBreaks, controlVars
<1> QED BY <1>2, <1>3, <1>4, <1>5

LEMMA PromiseStep == IInv /\ [Next]_vars => [Promise!Next]_Promise!vars
<1> SUFFICES ASSUME IInv, [Next]_vars PROVE [Promise!Next]_Promise!vars
  OBVIOUS
<1>1. CASE Callback \/ DispatcherStep
  BY <1>1, CallbackPromise, DispatcherPromise
<1>2. CASE BeginDetach \/ Mount \/ TearDown
  BY <1>2, BeginDetachPromise, HostPromise
<1>3. CASE Serve \/ PipeFails \/ Retirement \/ DesktopRequestsDetach
  BY <1>3, ServePromise, ServerPromise
<1>4. CASE DispatcherSend \/ LifecycleSend \/ UNCHANGED vars
  BY <1>4, PromiseStutter
  DEF DispatcherSend, LifecycleSend, LifeUnchanged, controlVars, gateVars, runVars,
      vars, serverVars, mountVars
<1>5. ASSUME NEW r, LifecycleReturn(r) PROVE UNCHANGED Promise!vars
  BY <1>5, PromiseStutter DEF LifecycleReturn, LifeUnchanged, controlVars, gateVars
<1> QED BY <1>1, <1>2, <1>3, <1>4, <1>5 DEF Next, LifecycleStep

\* What run(), the gate and the control do together is what an attachment
\* promises: the drive is given up only on request and unused, a refusal leaves
\* it, and a drive that was torn down is never shown as detached.
THEOREM ImplementsAttachment == Spec => KeepsPromise
BY PromiseInit, PromiseStep, Invariance, PTL DEF Spec, KeepsPromise, Promise!Spec
==============================================================================
