---------------------------- MODULE BridgeControl ----------------------------
(***************************************************************************)
(* The attachment record that the desktop and the pipe server share behind *)
(* one mutex (vendor/filesystem-sdk/src/bridge_control.rs).  Every public  *)
(* method locks it for its whole body, so each one is an action here.  The *)
(* module has no specification of its own: WindowsMount and FuseMount say  *)
(* who calls it and when.                                                  *)
(*                                                                         *)
(* The message is abstracted to its origin, which is all that a reader of  *)
(* the snapshot can rely on.                                               *)
(***************************************************************************)
VARIABLES
  phase,      (* BridgeSnapshot.phase                                      *)
  pending,    (* State.pending: a detach directive nobody has polled yet   *)
  message     (* BridgeSnapshot.message, by origin                         *)

controlVars == <<phase, pending, message>>

Phases   == {"Starting", "Attached", "Detaching", "Detached", "Failed"}
Messages == {"none", "detachFailed", "warning", "failure"}
Events   == {"Ready", "Detached", "DetachFailed", "Warning"}

ControlTypeOK ==
  /\ phase \in Phases
  /\ pending \in BOOLEAN
  /\ message \in Messages

ControlInit ==
  /\ phase = "Starting"
  /\ pending = FALSE
  /\ message = "none"

(***************************************************************************)
(* request_detach.  Outside Attached the call returns InvalidInput and     *)
(* changes nothing, hence the guard.                                       *)
(***************************************************************************)
RequestDetach ==
  /\ phase = "Attached"
  /\ phase' = "Detaching"
  /\ pending' = TRUE
  /\ message' = "none"

(***************************************************************************)
(* poll: a retired attachment answers Offline; otherwise the pending flag  *)
(* is taken and decides the directive.                                     *)
(***************************************************************************)
Retired == phase \in {"Failed", "Detached"}

Directive == IF pending THEN "Detach" ELSE "Continue"

\* Fault: the flag is read and left set.
PeekDirective ==
  /\ ~Retired
  /\ UNCHANGED <<phase, pending, message>>

TakeDirective ==
  /\ ~Retired
  /\ pending' = FALSE
  /\ UNCHANGED <<phase, message>>

(***************************************************************************)
(* report: the phases in which each event is expected, and its effect.     *)
(***************************************************************************)
\* Fault: a detach is confirmed only for a mount nobody asked to detach.
AcceptsUnasked(event) ==
  \/ event = "Ready"        /\ phase = "Starting"
  \/ event = "Detached"     /\ phase = "Attached"
  \/ event = "DetachFailed" /\ phase = "Detaching"
  \/ event = "Warning"      /\ phase \in {"Attached", "Detaching"}

Accepts(event) ==
  \/ event = "Ready"        /\ phase = "Starting"
  \/ event = "Detached"     /\ phase \in {"Attached", "Detaching"}
  \/ event = "DetachFailed" /\ phase = "Detaching"
  \/ event = "Warning"      /\ phase \in {"Attached", "Detaching"}

Report(event) ==
  /\ Accepts(event)
  /\ \/ /\ event = "Ready"
        /\ phase' = "Attached"
        /\ UNCHANGED <<pending, message>>
     \/ /\ event = "Detached"
        /\ phase' = "Detached"
        /\ message' = "none"
        /\ pending' = FALSE
     \/ /\ event = "DetachFailed"
        /\ phase' = "Attached"
        /\ message' = "detachFailed"
        /\ UNCHANGED pending
     \/ /\ event = "Warning"
        /\ message' = "warning"
        /\ UNCHANGED <<phase, pending>>

(***************************************************************************)
(* fail: a confirmed detach is final, anything else becomes Failed.        *)
(***************************************************************************)
\* Fault: the end of the pipe turns every attachment into a failed one.
FailAlways ==
  /\ pending' = FALSE
  /\ phase' = "Failed"
  /\ message' = "failure"

Fail ==
  /\ pending' = FALSE
  /\ IF phase = "Detached"
       THEN UNCHANGED <<phase, message>>
       ELSE phase' = "Failed" /\ message' = "failure"
==============================================================================
