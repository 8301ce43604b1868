-------------------------- MODULE WindowsDirectory --------------------------
(***************************************************************************)
(* An open directory of the Windows mount: the cursor (Directory in        *)
(* src/windows.rs) that turns the markers of read_directory into reads of  *)
(* one remote stream, which it reopens to find a marker.                   *)
(*                                                                         *)
(* The reader is an application with one handle.  It starts the listing    *)
(* over, or goes on after the last entry it was given; a read that failed  *)
(* may be tried again, either way.  Any call to the server may fail.  The  *)
(* handler holds the cursor's lock; entries may be deleted at any time.    *)
(***************************************************************************)
EXTENDS DirectoryServer

CONSTANT TooLong   (* the entries whose names do not fit a DirInfo           *)

VARIABLES
  handle,       (* Directory.handle                                        *)
  pending,      (* Directory.pending                                       *)
  last,         (* Directory.last: an entry, or NoMarker                   *)
  eof,          (* Directory.eof                                           *)
  step,         (* the step of read_directory: "idle", "open" or "loop"    *)
  marker,       (* its marker                                              *)
  seeking,      (* it looks for the marker                                 *)
  answer,       (* the entries in its buffer                               *)
  seen,         (* the reader: the entries since the listing was started   *)
  ended         (* the reader: its last read found no more                 *)

cursorVars == <<handle, pending, last, eof>>
callVars   == <<step, marker, seeking, answer>>
readerVars == <<seen, ended>>
vars       == <<serverVars, cursorVars, callVars, readerVars>>

NoMarker == 0
Markers  == 0 .. MaxSize

TypeOK ==
  /\ DirectoryTypeOK
  /\ handle \in HandleIds \cup {NoHandle}
  /\ pending \in Seq(1 .. MaxSize)
  /\ {last, marker} \subseteq Markers
  /\ {eof, seeking, ended} \subseteq BOOLEAN
  /\ step \in {"idle", "open", "loop"}
  /\ {answer, seen} \subseteq Seq(1 .. MaxSize)

\* open_context makes a cursor without a stream.
Init ==
  /\ size \in 0 .. MaxSize
  /\ gone = {}
  /\ allocated = 0
  /\ streams = [h \in {} |-> NewStream]
  /\ handle = NoHandle
  /\ pending = <<>>
  /\ last = NoMarker
  /\ eof = FALSE
  /\ step = "idle"
  /\ marker = NoMarker
  /\ seeking = FALSE
  /\ answer = <<>>
  /\ seen = <<>>
  /\ ended = FALSE

(***************************************************************************)
(* read_directory.                                                         *)
(***************************************************************************)
\* Fault: the stream is reused whatever its marker is.
ReadFromAnywhere(m) ==
  /\ step = "idle"
  /\ marker' = m
  /\ handle' = handle
  /\ step' = IF handle = NoHandle THEN "open" ELSE "loop"
  /\ UNCHANGED <<serverVars, pending, last, eof, seeking, answer>>

\* The stream is where the marker says, or it is retired.  The close may fail.
Read(m) ==
  /\ step = "idle"
  /\ marker' = m
  /\ IF handle # NoHandle /\ m = last
       THEN step' = "loop" /\ UNCHANGED <<handle, serverVars>>
       ELSE /\ handle' = NoHandle
            /\ \/ handle = NoHandle /\ step' = "open" /\ UNCHANGED serverVars
               \/ /\ handle # NoHandle
                  /\ CloseDirectory(handle)
                  /\ step' \in {"open", "idle"}
  /\ UNCHANGED <<pending, last, eof, seeking, answer>>

Reopen ==
  /\ step = "open"
  /\ \/ /\ OpenDirectory
        /\ handle' = allocated'
        /\ pending' = <<>>
        /\ eof' = FALSE
        /\ last' = NoMarker
        /\ seeking' = (marker # NoMarker)
        /\ step' = "loop"
     \/ /\ step' = "idle"
        /\ UNCHANGED <<serverVars, cursorVars, seeking>>
  /\ UNCHANGED <<marker, answer, readerVars>>

\* A call that fails makes the whole read fail: its buffer is thrown away.
Fill ==
  /\ step = "loop"
  /\ pending = <<>> /\ ~eof
  /\ \/ \E reply \in Replies(handle) :
          /\ ReadDirectory(handle, reply)
          /\ pending' = reply.entries
          /\ eof' = (reply.entries = <<>>)
          /\ UNCHANGED <<step, seeking, answer>>
     \/ /\ step' = "idle"
        /\ seeking' = FALSE
        /\ answer' = <<>>
        /\ UNCHANGED <<serverVars, pending, eof>>
  /\ UNCHANGED <<handle, last, marker, readerVars>>

\* What is before the marker is skipped, and the marker with it.  set_name refuses
\* a name that is too long: the whole read fails, and the entry stays pending.
Take ==
  /\ step = "loop"
  /\ pending # <<>>
  /\ \/ /\ seeking
        /\ pending' = Tail(pending)
        /\ seeking' = (Head(pending) # marker)
        /\ UNCHANGED <<last, answer, step>>
     \/ /\ ~seeking /\ Head(pending) \notin TooLong
        /\ pending' = Tail(pending)
        /\ last' = Head(pending)
        /\ answer' = Append(answer, Head(pending))
        /\ UNCHANGED <<seeking, step>>
     \/ /\ ~seeking /\ Head(pending) \in TooLong
        /\ step' = "idle"
        /\ answer' = <<>>
        /\ UNCHANGED <<pending, last, seeking>>
  /\ UNCHANGED <<serverVars, handle, eof, marker, readerVars>>

\* The end of the stream, or the next entry does not fit.  One always fits.
Finish ==
  /\ step = "loop"
  /\ \/ pending = <<>> /\ eof
     \/ pending # <<>> /\ answer # <<>> /\ Head(pending) \notin TooLong
  /\ step' = "idle"
  /\ seeking' = FALSE
  /\ seen' = seen \o answer
  /\ ended' = (answer = <<>>)
  /\ answer' = <<>>
  /\ UNCHANGED <<serverVars, cursorVars, marker>>

(***************************************************************************)
(* The reader.                                                             *)
(***************************************************************************)
ReadOn ==
  /\ seen # <<>>
  /\ Read(Last(seen))
  /\ ended' = FALSE
  /\ UNCHANGED seen

StartOver ==
  /\ Read(NoMarker)
  /\ seen' = <<>>
  /\ ended' = FALSE

Next ==
  \/ ReadOn
  \/ StartOver
  \/ Reopen \/ Fill \/ Take \/ Finish
  \/ Shrink /\ UNCHANGED <<cursorVars, callVars, readerVars>>

Spec == Init /\ [][Next]_vars

(***************************************************************************)
(* Properties.                                                             *)
(***************************************************************************)
\* A reply to a marker holds entries that follow it, none of them repeated or
\* out of order, and skips only entries that were deleted, whatever pages, full
\* buffers and failed calls came before.  A read that finds no more has passed
\* everything that is still there; only if the entry of its marker was deleted
\* while the stream had to be reopened, the listing stops early.
RepliesFollowMarker ==
  LET before(i) == IF i = 1 THEN marker ELSE answer[i - 1]
      asked     == {i \in DOMAIN answer : i > 1 \/ marker # NoMarker}
      atEnd     == step = "loop" /\ pending = <<>> /\ eof /\ answer = <<>>
  IN /\ \A i \in asked : /\ before(i) < answer[i]
                         /\ before(i) + 1 .. answer[i] - 1 \subseteq gone
     /\ atEnd /\ marker # NoMarker =>
          IF seeking THEN marker \in gone ELSE marker + 1 .. size \subseteq gone

\* The server keeps one stream for the context, the one that the cursor reads,
\* or none; the cursor never reads one that was closed.
HandleOwned ==
  /\ DOMAIN streams = {handle} \ {NoHandle}
  /\ step = "loop" => handle # NoHandle

(***************************************************************************)
(* tests/native_windows.rs:1062 asserts that a listing of an unchanged     *)
(* directory is complete: "Directory paging lost or duplicated names".     *)
(***************************************************************************)
\* A listing that was started over and whose reads all succeeded is complete.
\* A search for a marker that failed leaves last = None on a stream that is
\* past its start, and the next listing goes on from there.
ListingComplete ==
  ended => seen = [i \in 1 .. size |-> i]
=============================================================================
