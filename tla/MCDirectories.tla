---------------------------- MODULE MCDirectories ----------------------------
(***************************************************************************)
(* The directory cursors of the two mounts: a behaviour is one of either,  *)
(* over the same directory streams.  The variables that the other one does *)
(* not have stay as they are.                                              *)
(***************************************************************************)
EXTENDS Naturals, Sequences

CONSTANTS MaxSize, FuseOpens, WindowsOpens, Batch, Page, TooLong

VARIABLES mount, size, gone, allocated, streams, pending, eof, step, answer, seen, ended,
          remote, offset, asked, due,
          handle, last, marker, seeking

fuseOnly    == <<remote, offset, asked, due>>
windowsOnly == <<handle, last, marker, seeking>>
vars == <<mount, size, gone, allocated, streams, pending, eof, step, answer, seen, ended,
          fuseOnly, windowsOnly>>

\* Over FUSE the directory grows; over Windows it shrinks.
F == INSTANCE FuseDirectory
       WITH MaxOpens <- FuseOpens, Growing <- TRUE, Shrinking <- FALSE
W == INSTANCE WindowsDirectory
       WITH MaxOpens <- WindowsOpens, Growing <- FALSE, Shrinking <- TRUE

ASSUME CursorAssumption == F!DirectoryAssumption /\ W!DirectoryAssumption

Init ==
  \/ mount = "fuse" /\ F!Init /\ handle = 0 /\ last = 0 /\ marker = 0 /\ seeking = FALSE
  \/ mount = "windows" /\ W!Init /\ remote = 0 /\ offset = 0 /\ asked = 0 /\ due = 0

Next ==
  \/ mount = "fuse" /\ F!Next /\ UNCHANGED <<mount, windowsOnly>>
  \/ mount = "windows" /\ W!Next /\ UNCHANGED <<mount, fuseOnly>>

Spec == Init /\ [][Next]_vars

(***************************************************************************)
(* Properties.                                                             *)
(***************************************************************************)
\* Each reply of readdir and of read_directory is the right continuation.
RepliesExact        == mount = "fuse" => F!RepliesExact
RepliesFollowMarker == mount = "windows" => W!RepliesFollowMarker

\* The server keeps the stream the cursor reads, and no other.
HandleOwned == IF mount = "fuse" THEN F!HandleOwned ELSE W!HandleOwned
==============================================================================
