---------------------------- MODULE FuseDirectory ----------------------------
(***************************************************************************)
(* An open directory of the FUSE mount: the cursor (Directory in           *)
(* src/fuse.rs) that turns the offsets of readdir into reads of one remote *)
(* stream, which it reopens to go back.                                    *)
(*                                                                         *)
(* The reader is an application with one descriptor.  It reads on, goes    *)
(* back to a place it was given, or rewinds; a read that failed may be     *)
(* tried again, here or there.  Any call to the server may fail.  The      *)
(* handler holds the state's lock, so nothing but the directory itself     *)
(* changes between its calls.                                              *)
(***************************************************************************)
EXTENDS DirectoryServer

VARIABLES
  remote,       (* Directory.remote                                        *)
  offset,       (* Directory.offset: entries taken from the stream         *)
  pending,      (* Directory.pending                                       *)
  eof,          (* Directory.eof                                           *)
  step,         (* the step of readdir: "idle", "open" or "loop"           *)
  asked,        (* its offset argument                                     *)
  answer,       (* entries in its reply, each with the offset after it     *)
  seen,         (* the reader: the entries up to its place                 *)
  due,          (* the reader: entries there were when it started          *)
  ended         (* the reader: its last read found no more                 *)

cursorVars == <<remote, offset, pending, eof>>
readerVars == <<seen, due, ended>>
vars       == <<serverVars, cursorVars, step, asked, answer, readerVars>>

TypeOK ==
  /\ DirectoryTypeOK
  /\ remote \in HandleIds \cup {NoHandle}
  /\ offset \in 0 .. MaxSize
  /\ pending \in Seq(1 .. MaxSize)
  /\ eof \in BOOLEAN
  /\ step \in {"idle", "open", "loop"}
  /\ asked \in 0 .. MaxSize
  /\ answer \in Seq((1 .. MaxSize) \X (1 .. MaxSize))
  /\ seen \in Seq(1 .. MaxSize)
  /\ due \in 0 .. MaxSize
  /\ ended \in BOOLEAN

\* opendir has opened the first stream.
Init ==
  /\ size \in 0 .. MaxSize
  /\ gone = {}
  /\ allocated = 1
  /\ streams = [h \in {1} |-> NewStream]
  /\ remote = 1
  /\ offset = 0
  /\ pending = <<>>
  /\ eof = FALSE
  /\ step = "idle"
  /\ asked = 0
  /\ answer = <<>>
  /\ seen = <<>>
  /\ due = size
  /\ ended = FALSE

(***************************************************************************)
(* Directory::prepare.                                                     *)
(***************************************************************************)
Restart ==
  /\ offset' = 0
  /\ pending' = <<>>
  /\ eof' = FALSE

\* Fault: a handle is given up only once its close has succeeded.
RetireConfirmed ==
  /\ Restart
  /\ \/ remote = NoHandle /\ step' = "open" /\ UNCHANGED <<remote, serverVars>>
     \/ /\ remote # NoHandle
        /\ CloseDirectory(remote)
        /\ \/ step' = "open" /\ remote' = NoHandle
           \/ step' = "idle" /\ UNCHANGED remote

\* The cursor starts over, without its old handle.  The close may fail.
Retire ==
  /\ Restart
  /\ remote' = NoHandle
  /\ \/ remote = NoHandle /\ step' = "open" /\ UNCHANGED serverVars
     \/ remote # NoHandle /\ CloseDirectory(remote) /\ step' \in {"open", "idle"}

\* readdir at an offset, after what prepare does with it.
Read(o) ==
  /\ step = "idle"
  /\ asked' = o
  /\ IF remote # NoHandle /\ o >= offset
       THEN step' = "loop" /\ UNCHANGED <<cursorVars, serverVars>>
       ELSE Retire
  /\ UNCHANGED answer

Reopen ==
  /\ step = "open"
  /\ \/ /\ OpenDirectory
        /\ remote' = allocated'
        /\ step' = "loop"
     \/ /\ step' = "idle"
        /\ UNCHANGED <<serverVars, remote>>
  /\ UNCHANGED <<offset, pending, eof, asked, answer, readerVars>>

(***************************************************************************)
(* The loop of readdir.                                                    *)
(***************************************************************************)
\* A call that fails makes the whole read fail: its reply is thrown away.
Fill ==
  /\ step = "loop"
  /\ pending = <<>> /\ ~eof
  /\ \/ \E reply \in Replies(remote) :
          /\ ReadDirectory(remote, reply)
          /\ pending' = reply.entries
          /\ eof' = (reply.entries = <<>>)
          /\ UNCHANGED <<step, answer>>
     \/ /\ step' = "idle"
        /\ answer' = <<>>
        /\ UNCHANGED <<serverVars, pending, eof>>
  /\ UNCHANGED <<remote, offset, asked, readerVars>>

\* Entries before the requested offset are skipped.
Take ==
  /\ step = "loop"
  /\ pending # <<>>
  /\ pending' = Tail(pending)
  /\ offset' = offset + 1
  /\ answer' = IF offset >= asked THEN Append(answer, <<Head(pending), offset + 1>>)
                                  ELSE answer
  /\ UNCHANGED <<serverVars, remote, eof, step, asked, readerVars>>

\* Fault: the entry that did not fit leaves the buffer without being counted.
FinishTaking ==
  /\ step = "loop"
  /\ \/ pending = <<>> /\ eof /\ UNCHANGED pending
     \/ pending # <<>> /\ answer # <<>> /\ pending' = Tail(pending)
  /\ step' = "idle"
  /\ seen' = seen \o [i \in DOMAIN answer |-> answer[i][1]]
  /\ ended' = (answer = <<>>)
  /\ answer' = <<>>
  /\ UNCHANGED <<serverVars, remote, offset, eof, asked, due>>

\* The end of the stream, or the next entry does not fit.  One always fits.
Finish ==
  /\ step = "loop"
  /\ \/ pending = <<>> /\ eof
     \/ pending # <<>> /\ answer # <<>>
  /\ step' = "idle"
  /\ seen' = seen \o [i \in DOMAIN answer |-> answer[i][1]]
  /\ ended' = (answer = <<>>)
  /\ answer' = <<>>
  /\ UNCHANGED <<serverVars, cursorVars, asked, due>>

(***************************************************************************)
(* The reader.                                                             *)
(***************************************************************************)
\* It reads on, or at a place (telldir) that an earlier entry gave it.
ReadAt(o) ==
  /\ o <= Len(seen)
  /\ Read(o)
  /\ seen' = SubSeq(seen, 1, o)
  /\ ended' = FALSE
  /\ UNCHANGED due

\* rewinddir after it has read everything: it expects the directory as it is.
Rewind ==
  /\ ended
  /\ Read(0)
  /\ seen' = <<>>
  /\ due' = size
  /\ ended' = FALSE

Next ==
  \/ \E o \in 0 .. MaxSize : ReadAt(o)
  \/ Rewind
  \/ Reopen \/ Fill \/ Take \/ Finish
  \/ Grow /\ UNCHANGED <<cursorVars, step, asked, answer, readerVars>>

Spec == Init /\ [][Next]_vars

(***************************************************************************)
(* Properties.                                                             *)
(***************************************************************************)
\* A reply to readdir at some offset holds the entries that follow it, in order
\* and each with its own offset, whatever pages, full buffers, failed calls and
\* seeks came before: none is repeated, skipped or from a retired stream.  And
\* a reader that is told there are no more has been given all there were when
\* the stream was opened.
RepliesExact ==
  /\ \A i \in DOMAIN answer : answer[i] = <<asked + i, asked + i>>
  /\ ended => Len(seen) >= streams[remote].opened

\* The server keeps one stream for the descriptor, the one that the cursor
\* reads, or none; the cursor never reads one that was closed.
HandleOwned ==
  /\ DOMAIN streams = {remote} \ {NoHandle}
  /\ step = "loop" => remote # NoHandle

(***************************************************************************)
(* The test at src/fuse.rs:203 is named "forward_read_retains_stream_and_  *)
(* rewind_starts_fresh".                                                   *)
(***************************************************************************)
\* A reader that rewinds and comes to the end has been given every entry that
\* was there when it rewound.  prepare does not reopen a stream that has given
\* nothing yet: an empty directory stays empty for its descriptor.
RewindStartsFresh ==
  ended => Len(seen) >= due
==============================================================================
