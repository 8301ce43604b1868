--------------------------- MODULE DirectoryServer ---------------------------
(***************************************************************************)
(* The directory streams of Server::dispatch (vendor/filesystem-sdk/src/   *)
(* wire.rs) over one directory of the provider.  The provider lists it in  *)
(* batches, the server passes them on in pages, and a handle belongs to    *)
(* one stream.  FuseDirectory and WindowsDirectory read through it.        *)
(*                                                                         *)
(* An entry is its place in the provider's order, which is the same each   *)
(* time the directory is opened; entries that are created come last, and   *)
(* other applications may delete entries while it is read.                 *)
(***************************************************************************)
EXTENDS Naturals, Sequences, FiniteSets, SequencesExt

CONSTANTS
  MaxSize,      (* bound: entries                                          *)
  MaxOpens,     (* bound: times the directory is opened                    *)
  Batch,        (* bound: entries the provider hands over at a time        *)
  Page,         (* entries in a reply; 64 in the code                      *)
  Growing,      (* entries are created while the directory is read         *)
  Shrinking     (* entries are deleted while the directory is read         *)

DirectoryAssumption ==
  /\ {MaxSize, MaxOpens, Batch} \subseteq Nat
  /\ Page \in Nat \ {0}
  /\ {Growing, Shrinking} \subseteq BOOLEAN

VARIABLES
  size,         (* the directory holds the entries 1 .. size ...           *)
  gone,         (* ... except those that were deleted                      *)
  allocated,    (* Server.next_handle                                      *)
  streams       (* Server.directories                                      *)

serverVars == <<size, gone, allocated, streams>>

NoHandle == 0
HandleIds == 1 .. MaxOpens

\* A stream holds entries that it has from the provider, the last of them at
\* fetched, and not yet given to the bridge (DirectoryState.pending).  It lists
\* what was there when it was opened, and may list more.
Streams == [fetched : 0 .. MaxSize, pending : Seq(1 .. MaxSize), eof : BOOLEAN,
            opened : 0 .. MaxSize]

DirectoryTypeOK ==
  /\ size \in 0 .. MaxSize
  /\ gone \subseteq 1 .. size
  /\ allocated \in 0 .. MaxOpens
  /\ DOMAIN streams \subseteq HandleIds
  /\ \A h \in DOMAIN streams : streams[h] \in Streams

NewStream == [fetched |-> 0, pending |-> <<>>, eof |-> FALSE, opened |-> size]

\* OpenDirectory when the provider succeeds; when it fails nothing is kept.
OpenDirectory ==
  /\ allocated < MaxOpens
  /\ allocated' = allocated + 1
  /\ streams' = [h \in DOMAIN streams \cup {allocated'} |->
                   IF h = allocated' THEN NewStream ELSE streams[h]]
  /\ UNCHANGED <<size, gone>>

\* CloseDirectory: the stream is gone whatever the provider answers.
CloseDirectory(h) ==
  /\ streams' = [g \in DOMAIN streams \ {h} |-> streams[g]]
  /\ UNCHANGED <<size, gone, allocated>>

\* The entries of q come after e: in order, and without a gap but for those that
\* were deleted.
Follows(e, q) ==
  \A i \in DOMAIN q :
    LET before == IF i = 1 THEN e ELSE q[i - 1]
    IN before < q[i] /\ before + 1 .. q[i] - 1 \subseteq gone

\* The next batch of the provider, asked for when nothing is left of the last
\* one.  An empty batch is the end, and stays it.
Batches(s) ==
  {q \in BoundedSeq((s.fetched + 1 .. size) \ gone, Batch) :
     /\ Follows(s.fetched, q)
     /\ q = <<>> => s.fetched + 1 .. s.opened \subseteq gone}
Fetched(s) ==
  IF s.pending # <<>> \/ s.eof THEN {s}
  ELSE {[s EXCEPT !.fetched = IF q = <<>> THEN @ ELSE Last(q),
                  !.pending = q,
                  !.eof     = (q = <<>>)] : q \in Batches(s)}

\* The page that is drained from the batch, and the stream after it.
PageLength(s) == IF Len(s.pending) < Page THEN Len(s.pending) ELSE Page
Drained(s) ==
  [entries |-> SubSeq(s.pending, 1, PageLength(s)),
   stream  |-> [s EXCEPT !.pending = SubSeq(@, PageLength(s) + 1, Len(@))]]

\* ReadDirectory, when it succeeds: the replies it may give.
Replies(h) == {Drained(s) : s \in Fetched(streams[h])}

ReadDirectory(h, reply) ==
  /\ streams' = [streams EXCEPT ![h] = reply.stream]
  /\ UNCHANGED <<size, gone, allocated>>

\* Another application creates an entry.
Grow ==
  /\ Growing
  /\ size < MaxSize
  /\ size' = size + 1
  /\ UNCHANGED <<gone, allocated, streams>>

\* Another application deletes an entry.
Shrink ==
  /\ Shrinking
  /\ \E e \in (1 .. size) \ gone : gone' = gone \cup {e}
  /\ UNCHANGED <<size, allocated, streams>>
==============================================================================
