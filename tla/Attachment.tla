----------------------------- MODULE Attachment -----------------------------
(***************************************************************************)
(* What an attachment promises to the person who made it, whatever the     *)
(* operating system: the drive disappears in order only on request, and    *)
(* only while nothing on it is in use; a refused request leaves it there;  *)
(* and Detached is said only of a drive that was given up that way.  A     *)
(* drive torn down because the connection was lost is never reported as    *)
(* detached.                                                               *)
(*                                                                         *)
(* WindowsMount and FuseMount implement this specification.                *)
(***************************************************************************)
CONSTANT
  Ejectable (* the drive can also be removed with the system's own tools   *)

VARIABLES
  status,   (* what the desktop shows                                      *)
  inUse,    (* a local application has something open on the drive         *)
  drive     (* absent, present, given up in order, or torn down            *)

vars == <<status, inUse, drive>>

Statuses == {"Starting", "Attached", "Detaching", "Detached", "Failed"}
Drives   == {"absent", "present", "givenUp", "torn"}

Init ==
  /\ status = "Starting"
  /\ inUse = FALSE
  /\ drive = "absent"

Appear ==
  /\ drive = "absent"
  /\ drive' = "present"
  /\ UNCHANGED <<status, inUse>>

Ready ==
  /\ status = "Starting"
  /\ drive # "absent"
  /\ status' = "Attached"
  /\ UNCHANGED <<inUse, drive>>

\* Applications come and go, but not on a drive that was given up.
BeginUse ==
  /\ drive \in {"present", "torn"}
  /\ inUse' = TRUE
  /\ UNCHANGED <<status, drive>>

EndUse ==
  /\ inUse
  /\ inUse' = FALSE
  /\ UNCHANGED <<status, drive>>

RequestDetach ==
  /\ status = "Attached"
  /\ status' = "Detaching"
  /\ UNCHANGED <<inUse, drive>>

\* The desktop may have lost the server since it asked, hence Failed.
GiveUp ==
  /\ Ejectable \/ status \in {"Detaching", "Failed"}
  /\ drive = "present"
  /\ ~inUse
  /\ drive' = "givenUp"
  /\ UNCHANGED <<status, inUse>>

Refuse ==
  /\ status = "Detaching"
  /\ Ejectable \/ drive # "givenUp"
  /\ status' = "Attached"
  /\ UNCHANGED <<inUse, drive>>

\* A drive that was ejected is confirmed although nobody asked the desktop.
Confirm ==
  /\ status = "Detaching" \/ (Ejectable /\ status = "Attached")
  /\ drive = "givenUp"
  /\ status' = "Detached"
  /\ UNCHANGED <<inUse, drive>>

\* The connection is lost.  The desktop and the process notice separately,
\* and a drive that was already given up may still be reported as failed.
TearDown ==
  /\ drive = "present"
  /\ drive' = "torn"
  /\ UNCHANGED <<status, inUse>>

Fail ==
  /\ status # "Detached"
  /\ status' = "Failed"
  /\ UNCHANGED <<inUse, drive>>

Next ==
  \/ Appear \/ Ready \/ BeginUse \/ EndUse
  \/ RequestDetach \/ GiveUp \/ Refuse \/ Confirm
  \/ TearDown \/ Fail

Spec == Init /\ [][Next]_vars
=============================================================================
