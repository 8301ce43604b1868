----------------------------- MODULE OpenHandles -----------------------------
(***************************************************************************)
(* The registry of open descriptors of the Windows mount (OpenHandles in   *)
(* src/windows_handles.rs): a rename moves the paths of the contexts at or *)
(* below what it moved, and a flush of the volume flushes every file that  *)
(* is open for writing.                                                    *)
(*                                                                         *)
(* The host is a FileSystemHost with CoarseGuard (src/windows.rs:663), so  *)
(* callbacks, Drop for Context among them, run one at a time and each is a *)
(* step.  Only the flush is a loop of steps, one for each of its requests, *)
(* between which the server may go away.  Nobody else edits the remote     *)
(* tree.                                                                   *)
(***************************************************************************)
EXTENDS Naturals, Sequences, SequencesExt

CONSTANTS
  Names,        (* bound: the names of entries                             *)
  Dirs,         (* the remote objects that are directories                 *)
  Files,        (* the remote objects that are files                       *)
  MaxHandles    (* bound: contexts at a time                               *)

ASSUME OpenHandlesAssumption ==
  /\ Dirs \cap Files = {}
  /\ MaxHandles \in Nat

VARIABLES
  tree,         (* the provider: where each remote object is               *)
  serving,      (* the transport is not retired                            *)
  contexts,     (* the registered contexts that are alive                  *)
  unflushed,    (* the provider: the contexts through whose handle was     *)
                (* written since it was last flushed                       *)
  flush         (* OpenHandles::flush: its progress                        *)

vars == <<tree, serving, contexts, unflushed, flush>>

Objects == Dirs \cup Files
Gone    == <<>>
Paths   == {<<a>> : a \in Names} \cup (Names \X Names)
Ids     == 1 .. MaxHandles

\* file and writable are fields of OpenHandle; object is what was opened.
NoObject == ""
Context == [state : {"none", "open", "cleaned"},
            path : Paths \cup {Gone}, object : Objects \cup {NoObject},
            file : BOOLEAN, writable : BOOLEAN]

NoContext == [state |-> "none", path |-> Gone, object |-> NoObject,
              file |-> FALSE, writable |-> FALSE]

\* left: the descriptors it has to look at; error: the first error, if any.
\* failed is history: the descriptors whose flush has failed.
NoFlush == [phase |-> "idle", left |-> {}, error |-> FALSE, failed |-> {}]

TypeOK ==
  /\ tree \in [Objects -> Paths \cup {Gone}]
  /\ serving \in BOOLEAN
  /\ contexts \in [Ids -> Context]
  /\ unflushed \subseteq Ids
  /\ flush \in [phase : {"idle", "loop", "done"}, left : SUBSET Ids,
                error : BOOLEAN, failed : SUBSET Ids]

Used(p)     == \E o \in Objects : tree[o] = p

\* The parent of p is the root or a directory.
Placeable(t, p) == Len(p) = 2 => \E d \in Dirs : t[d] = <<p[1]>>

WellFormed(t) ==
  /\ \A o \in Objects : t[o] # Gone => Placeable(t, t[o])
  /\ \A o, q \in Objects : o # q /\ t[o] # Gone => t[o] # t[q]
  /\ \A d \in Dirs : Len(t[d]) < 2

Init ==
  /\ tree \in {t \in [Objects -> Paths \cup {Gone}] : WellFormed(t)}
  /\ serving = TRUE
  /\ contexts = [h \in Ids |-> NoContext]
  /\ unflushed = {}
  /\ flush = NoFlush

\* The coarse guard: no other callback runs.
Guarded == flush.phase = "idle"

(***************************************************************************)
(* The life of a context.                                                  *)
(***************************************************************************)
\* open_context: directories and contexts that only name the file have no
\* remote handle; a file may be written only through one.
Open(h, o, file, writable) ==
  /\ Guarded /\ serving
  /\ contexts[h].state = "none"
  /\ tree[o] # Gone
  /\ IF o \in Dirs THEN ~file ELSE writable => file
  /\ contexts' = [contexts EXCEPT ![h] =
       [state |-> "open", path |-> tree[o], object |-> o, file |-> file, writable |-> writable]]
  /\ UNCHANGED <<tree, serving, unflushed, flush>>

HasWriter(c) == c.file /\ c.writable

\* write or set_file_size, through the descriptor, also by the cache manager after
\* the cleanup.  One that fails may have done a part of its work.
Write(h) ==
  /\ Guarded /\ serving
  /\ contexts[h].state # "none" /\ HasWriter(contexts[h])
  /\ unflushed' = unflushed \cup {h}
  /\ UNCHANGED <<tree, serving, contexts, flush>>

\* Fs::flush of one descriptor, when it succeeds.
FlushFile(h) ==
  /\ Guarded /\ serving
  /\ contexts[h].state # "none" /\ contexts[h].file
  /\ unflushed' = unflushed \ {h}
  /\ UNCHANGED <<tree, serving, contexts, flush>>

\* cleanup: the last one of a file that was marked for deletion removes it.
\* set_delete has seen that a directory is empty; a removal may fail.  Nothing
\* uses the context's path any more.
Cleanup(h) ==
  /\ Guarded
  /\ contexts[h].state = "open"
  /\ contexts' = [contexts EXCEPT ![h].state = "cleaned", ![h].path = Gone,
                                  ![h].object = NoObject]
  /\ LET o == contexts[h].object IN
     \/ UNCHANGED tree
     \/ /\ serving
        /\ \A g \in Ids \ {h} : contexts[g].state = "open" => contexts[g].object # o
        /\ \A q \in Objects \ {o} : ~IsPrefix(contexts[h].path, tree[q])
        /\ tree' = [q \in Objects |-> IF tree[q] = contexts[h].path THEN Gone ELSE tree[q]]
  /\ UNCHANGED <<serving, unflushed, flush>>

\* Drop for Context, after a cleanup or when an open or create has failed: Close
\* is asked for, and what it answers changes nothing.  The registry's reference
\* to the context is dead.
Close(h) ==
  /\ Guarded
  /\ contexts[h].state # "none"
  /\ contexts' = [contexts EXCEPT ![h] = NoContext]
  /\ unflushed' = unflushed \ {h}
  /\ UNCHANGED <<tree, serving, flush>>

\* The server retires: a request has met its deadline, or the desktop is gone.
Retire ==
  /\ serving
  /\ serving' = FALSE
  /\ UNCHANGED <<tree, contexts, unflushed, flush>>

(***************************************************************************)
(* flush of the volume.                                                    *)
(***************************************************************************)
\* The Weak references that can be upgraded.
Alive == {h \in Ids : contexts[h].state # "none"}

FlushBegin ==
  /\ Guarded
  /\ flush' = [NoFlush EXCEPT !.phase = "loop", !.left = Alive]
  /\ UNCHANGED <<tree, serving, contexts, unflushed>>

\* A descriptor that is not writable or has no file is passed over.
FlushSkip(h) ==
  /\ flush.phase = "loop" /\ h \in flush.left
  /\ ~HasWriter(contexts[h])
  /\ flush' = [flush EXCEPT !.left = @ \ {h}]
  /\ UNCHANGED <<tree, serving, contexts, unflushed>>

\* Flush is asked for and answered.  Only the first error is kept.
\* Fault: the first error ends the loop.
FlushFirst(h) ==
  /\ flush.phase = "loop" /\ h \in flush.left
  /\ HasWriter(contexts[h])
  /\ \/ /\ serving
        /\ unflushed' = unflushed \ {h}
        /\ flush' = [flush EXCEPT !.left = @ \ {h}]
     \/ /\ UNCHANGED unflushed
        /\ flush' = [flush EXCEPT !.left = {}, !.error = TRUE, !.failed = @ \cup {h}]
  /\ UNCHANGED <<tree, serving, contexts>>
FlushNext(h) ==
  /\ flush.phase = "loop" /\ h \in flush.left
  /\ HasWriter(contexts[h])
  /\ \/ /\ serving
        /\ unflushed' = unflushed \ {h}
        /\ flush' = [flush EXCEPT !.left = @ \ {h}]
     \/ /\ UNCHANGED unflushed
        /\ flush' = [flush EXCEPT !.left = @ \ {h}, !.error = TRUE, !.failed = @ \cup {h}]
  /\ UNCHANGED <<tree, serving, contexts>>

FlushEnd ==
  /\ flush.phase = "loop" /\ flush.left = {}
  /\ flush' = [flush EXCEPT !.phase = "done"]
  /\ UNCHANGED <<tree, serving, contexts, unflushed>>

FlushReturn ==
  /\ flush.phase = "done"
  /\ flush' = NoFlush
  /\ UNCHANGED <<tree, serving, contexts, unflushed>>

(***************************************************************************)
(* rename.                                                                 *)
(***************************************************************************)
Replaced(p, from, to) == to \o SubSeq(p, Len(from) + 1, Len(p))
Rebased(p, from, to)  == IF IsPrefix(from, p) THEN Replaced(p, from, to) ELSE p

\* The provider moves what is at from.  A file may be replaced; WinFsp refuses
\* that while it is open.
Moved(from, to) ==
  [o \in Objects |-> IF tree[o] = to /\ to # from THEN Gone ELSE Rebased(tree[o], from, to)]
Renamable(from, to) ==
  /\ Used(from)
  /\ \A o \in Objects : tree[o] = to /\ to # from =>
       /\ o \in Files
       /\ \A d \in Dirs : tree[d] # from
       /\ \A h \in Ids : contexts[h].state = "open" => contexts[h].object # o
  /\ WellFormed(Moved(from, to))
  /\ \A o \in Objects : Moved(from, to)[o] \in Paths \cup {Gone}

\* Fault: the new paths are published before the provider has confirmed them.
PublishedEarly(from, to, confirmed) ==
  [h \in Ids |-> [contexts[h] EXCEPT !.path = Rebased(@, from, to)]]

\* The contexts' paths after a rename; those of one that failed are preserved.
Published(from, to, confirmed) ==
  [h \in Ids |-> [contexts[h] EXCEPT !.path = IF confirmed THEN Rebased(@, from, to) ELSE @]]

\* The provider confirms it, refuses it, or does not answer in time: then it
\* may have acted, and the transport is retired.
Rename(from, to) ==
  /\ Guarded /\ serving
  /\ \E confirmed, acted, timely \in BOOLEAN :
       /\ confirmed => acted /\ timely
       /\ acted => Renamable(from, to) /\ (confirmed \/ ~timely)
       /\ tree' = IF acted THEN Moved(from, to) ELSE tree
       /\ serving' = timely
       /\ contexts' = Published(from, to, confirmed)
  /\ UNCHANGED <<unflushed, flush>>

Next ==
  \/ \E h \in Ids :
       \/ \E o \in Objects, file, writable \in BOOLEAN : Open(h, o, file, writable)
       \/ Write(h) \/ FlushFile(h) \/ Cleanup(h) \/ Close(h)
       \/ FlushSkip(h) \/ FlushNext(h)
  \/ FlushBegin \/ FlushEnd \/ FlushReturn
  \/ Retire
  \/ \E from, to \in Paths : Rename(from, to)

Spec == Init /\ [][Next]_vars

(***************************************************************************)
(* Properties.                                                             *)
(***************************************************************************)
\* When a flush of the volume returns, all that was written through any open
\* descriptor is flushed, but for the descriptors whose own flush has failed:
\* a failure, or the loss of the server between two calls, keeps none of the
\* others from being tried.  It returns an error exactly if one has failed.
FlushHonest ==
  flush.phase = "done" => /\ unflushed \subseteq flush.failed
                          /\ flush.error = (flush.failed # {})

\* As long as the server answers, the path of a context that was not cleaned up
\* is where the object it opened is now, through renames of it, of directories
\* above it and over other files, and through renames that failed.
PathsFollow ==
  serving => \A h \in Ids :
    contexts[h].state = "open" => tree[contexts[h].object] = contexts[h].path
==============================================================================
