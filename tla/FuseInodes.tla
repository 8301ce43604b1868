----------------------------- MODULE FuseInodes -----------------------------
(***************************************************************************)
(* The inode table of the FUSE mount (State in src/fuse.rs) with the       *)
(* kernel whose references it counts and the remote tree whose entries it  *)
(* names by path.                                                          *)
(*                                                                         *)
(* The kernel speaks of inodes; the server only understands paths.  The    *)
(* table has to keep each inode on the path of the object it was looked up *)
(* as, through renames, removals and recreations, for as long as the       *)
(* kernel may speak of it, and no longer.                                  *)
(*                                                                         *)
(* fuser runs the handlers one after the other, so each one is an action;  *)
(* every request that it makes to the server may fail.  Handlers that do   *)
(* not change the table (getattr, setattr, read, write, flush, statfs) act *)
(* on what Path or a handle names and are left out, and the cursor of a    *)
(* directory is not modelled here.                                         *)
(***************************************************************************)
EXTENDS Naturals, Sequences, FiniteSets

CONSTANTS
  Names,        (* names of entries                                        *)
  Objects,      (* files and directories on the server                     *)
  Handles,      (* handles of open files and directories                   *)
  MaxNode,      (* bound: inodes that are given out                        *)
  MaxLookups,   (* bound: references the kernel keeps to one inode, and ...*)
  MaxOpen,      (* ... handles at a time, while nobody else edits the tree *)
  SharedLookups,(* the same bounds while other clients do                  *)
  SharedOpen,
  None

ASSUME InodeAssumption ==
  /\ MaxNode \in Nat \ {0}
  /\ {MaxLookups, MaxOpen, SharedLookups, SharedOpen} \subseteq Nat

VARIABLES
  shared,       (* other clients edit the remote tree                      *)
  next,         (* State.next                                              *)
  nodes,        (* State.nodes                                             *)
  paths,        (* State.paths                                             *)
  dirs,         (* State.dirs: inode and path of each open directory       *)
  files,        (* State.files: the inode of each open file                *)
  known,        (* the kernel: how many references it keeps to each inode  *)
  remote,       (* the server: the object at each path, or None            *)
  meant         (* history: the object each inode was first looked up as   *)

tableVars == <<next, nodes, paths, dirs, files>>
vars      == <<shared, tableVars, known, remote, meant>>

Root  == 1
Inodes == 1 .. MaxNode

(***************************************************************************)
(* Paths and the remote tree.  Bound: two levels.                          *)
(***************************************************************************)
Paths   == UNION {[1 .. n -> Names] : n \in 0 .. 2}
Kinds   == {"file", "directory"}
Entries == Kinds \X Objects

ASSUME NoneAssumption == None \notin Paths \cup Entries

Under(top, p)     == Len(top) <= Len(p) /\ SubSeq(p, 1, Len(top)) = top
Strictly(top, p)  == top # p /\ Under(top, p)
Rebase(p, from, to) == to \o SubSeq(p, Len(from) + 1, Len(p))
Parent(p)         == SubSeq(p, 1, Len(p) - 1)

IsA(kind, p)   == \/ p = <<>> /\ kind = "directory"
                  \/ remote[p] # None /\ remote[p][1] = kind
IsEmpty(p)     == \A q \in Paths : Strictly(p, q) => remote[q] = None
Vacant(p)      == p # <<>> /\ remote[p] = None /\ IsA("directory", Parent(p))

\* An entry that is new on the server and to this process.
Fresh == {o \in Objects : \A k \in Kinds :
            /\ \A p \in Paths : remote[p] # <<k, o>>
            /\ \A i \in DOMAIN meant : meant[i] # <<k, o>>}

TypeOK ==
  /\ shared \in BOOLEAN
  /\ next \in Inodes
  /\ DOMAIN nodes \subseteq Inodes /\ Root \in DOMAIN nodes
  /\ \A i \in DOMAIN nodes :
       nodes[i] \in [path : Paths \cup {None}, lookups : Nat,
                     opens : Nat]
  /\ DOMAIN paths \subseteq Paths
  /\ \A p \in DOMAIN paths : paths[p] \in 1 .. next
  /\ DOMAIN dirs \subseteq Handles
  /\ \A h \in DOMAIN dirs : dirs[h] \in [ino : Inodes, path : Paths]
  /\ DOMAIN files \subseteq Handles
  /\ \A h \in DOMAIN files : files[h] \in Inodes
  /\ known \in [Inodes -> Nat]
  /\ remote \in [Paths -> Entries \cup {None}]
  /\ DOMAIN meant = DOMAIN nodes
  /\ \A i \in DOMAIN meant : meant[i] \in Entries \cup {None}

Init ==
  /\ shared \in BOOLEAN
  /\ next = Root
  /\ nodes = [i \in {Root} |-> [path |-> <<>>, lookups |-> 1, opens |-> 0]]
  /\ paths = [p \in {<<>>} |-> Root]
  /\ dirs = [h \in {} |-> None]
  /\ files = [h \in {} |-> None]
  /\ known = [i \in Inodes |-> IF i = Root THEN 1 ELSE 0]
  /\ remote = [p \in Paths |-> None]
  /\ meant = [i \in {Root} |-> None]

(***************************************************************************)
(* The methods of State, on tables t == [nodes, paths].                    *)
(***************************************************************************)
Without(f, k)  == [x \in DOMAIN f \ {k} |-> f[x]]
With(f, k, v)  == [x \in DOMAIN f \cup {k} |-> IF x = k THEN v ELSE f[x]]

Table == [nodes |-> nodes, paths |-> paths]

\* Faults: a node is collected although it is open; its path is left behind.
CollectIgnoresOpens(t, id) ==
  IF id = Root \/ id \notin DOMAIN t.nodes \/ t.nodes[id].lookups > 0
    THEN t
    ELSE [nodes |-> Without(t.nodes, id),
          paths |-> Without(t.paths, t.nodes[id].path)]
CollectKeepsPath(t, id) ==
  IF id = Root \/ id \notin DOMAIN t.nodes
       \/ t.nodes[id].lookups + t.nodes[id].opens > 0
    THEN t
    ELSE [nodes |-> Without(t.nodes, id), paths |-> t.paths]

\* collect: whichever inode the path belongs to by now, it is removed.
Collect(t, id) ==
  IF id = Root \/ id \notin DOMAIN t.nodes
       \/ t.nodes[id].lookups + t.nodes[id].opens > 0
    THEN t
    ELSE [nodes |-> Without(t.nodes, id),
          paths |-> Without(t.paths, t.nodes[id].path)]

\* Fault: the node keeps the path that was taken from it.
RetireKeepingPath(t, p) ==
  IF p \in DOMAIN t.paths
    THEN Collect([nodes |-> t.nodes, paths |-> Without(t.paths, p)], t.paths[p])
    ELSE t

RetirePath(t, p) ==
  IF p \in DOMAIN t.paths
    THEN Collect([nodes |-> IF t.paths[p] \in DOMAIN t.nodes
                              THEN [t.nodes EXCEPT ![t.paths[p]].path = None]
                              ELSE t.nodes,
                  paths |-> Without(t.paths, p)],
                 t.paths[p])
    ELSE t

\* Fault: only the renamed entry moves, not what is below it.
MoveEntryOnly(t, from, to) ==
  IF from \notin DOMAIN t.paths THEN t
  ELSE [nodes |-> [t.nodes EXCEPT ![t.paths[from]].path = to],
        paths |-> With(Without(t.paths, from), to, t.paths[from])]

\* The loop of rename: what is at or below `from' moves with its inode, and a
\* path that another inode still has there is taken over.
MovePaths(t, from, to) ==
  LET moved   == {p \in DOMAIN t.paths : Under(from, p)}
      arrived == {Rebase(p, from, to) : p \in moved}
  IN  [nodes |-> [i \in DOMAIN t.nodes |->
                    IF \E p \in moved : t.paths[p] = i
                      THEN [t.nodes[i] EXCEPT !.path =
                              Rebase(CHOOSE p \in moved : t.paths[p] = i, from, to)]
                      ELSE t.nodes[i]],
       paths |-> [p \in (DOMAIN t.paths \ moved) \cup arrived |->
                    IF p \in arrived THEN t.paths[Rebase(p, to, from)]
                                     ELSE t.paths[p]]]

Forgotten(t, id, count) ==
  Collect(IF id \in DOMAIN t.nodes
            THEN [t EXCEPT !.nodes[id].lookups = IF @ > count THEN @ - count ELSE 0]
            ELSE t, id)

Released(t, id) ==
  Collect(IF id \in DOMAIN t.nodes
            THEN [t EXCEPT !.nodes[id].opens = IF @ > 0 THEN @ - 1 ELSE 0]
            ELSE t, id)

Becomes(t) ==
  /\ nodes' = t.nodes
  /\ paths' = t.paths
  /\ meant' = [i \in DOMAIN t.nodes |->
                 IF i \in DOMAIN meant THEN meant[i] ELSE remote'[t.nodes[i].path]]

(***************************************************************************)
(* Handlers.  A parent or an inode is one that the kernel refers to, and   *)
(* an inode without a path answers ESTALE.                                 *)
(***************************************************************************)
Known       == {i \in DOMAIN nodes : known[i] > 0 /\ nodes[i].path # None}
ChildOf(i)  == {p \in Paths : p # <<>> /\ Parent(p) = nodes[i].path}
InUse       == DOMAIN dirs \cup DOMAIN files
MayRefer    == IF shared THEN SharedLookups ELSE MaxLookups
MayOpen     == IF shared THEN SharedOpen ELSE MaxOpen
Unused      == IF Cardinality(InUse) < MayOpen THEN Handles \ InUse ELSE {}
Referable(i) == known[i] < MayRefer

\* State::lookup, for a reply that gives the kernel a reference, and counts the
\* open of create.
LookedUp(p, opens) ==
  IF p \in DOMAIN paths
    THEN /\ Referable(paths[p])
         /\ Becomes([Table EXCEPT !.nodes[paths[p]].lookups = @ + 1,
                                  !.nodes[paths[p]].opens = @ + opens])
         /\ known' = [known EXCEPT ![paths[p]] = @ + 1]
         /\ UNCHANGED next
    ELSE /\ next < MaxNode
         /\ next' = next + 1
         /\ Becomes([nodes |-> With(nodes, next + 1,
                                    [path |-> p, lookups |-> 1, opens |-> opens]),
                     paths |-> With(paths, p, next + 1)])
         /\ known' = [known EXCEPT ![next + 1] = @ + 1]

Lookup(parent, p) ==
  /\ p \in ChildOf(parent)
  /\ remote[p] # None
  /\ UNCHANGED remote
  /\ LookedUp(p, 0)
  /\ UNCHANGED <<shared, dirs, files>>

\* The kernel drops references, in any order with closing what it has open.
Forget(i, count) ==
  /\ i # Root /\ count \in 1 .. known[i]
  /\ known' = [known EXCEPT ![i] = @ - count]
  /\ UNCHANGED remote
  /\ Becomes(Forgotten(Table, i, count))
  /\ UNCHANGED <<shared, next, dirs, files>>

OpenFile(i, h) ==
  /\ i \in Known /\ h \in Unused
  /\ IsA("file", nodes[i].path)
  /\ files' = With(files, h, i)
  /\ UNCHANGED remote
  /\ Becomes([Table EXCEPT !.nodes[i].opens = @ + 1])
  /\ UNCHANGED <<shared, next, dirs, known>>

Release(h) ==
  /\ h \in DOMAIN files
  /\ files' = Without(files, h)
  /\ UNCHANGED remote
  /\ Becomes(Released(Table, files[h]))
  /\ UNCHANGED <<shared, next, dirs, known>>

OpenDir(i, h) ==
  /\ i \in Known /\ h \in Unused
  /\ IsA("directory", nodes[i].path)
  /\ dirs' = With(dirs, h, [ino |-> i, path |-> nodes[i].path])
  /\ UNCHANGED remote
  /\ Becomes([Table EXCEPT !.nodes[i].opens = @ + 1])
  /\ UNCHANGED <<shared, next, files, known>>

ReleaseDir(h) ==
  /\ h \in DOMAIN dirs
  /\ dirs' = Without(dirs, h)
  /\ UNCHANGED remote
  /\ Becomes(Released(Table, dirs[h].ino))
  /\ UNCHANGED <<shared, next, files, known>>

\* The server makes the entry, or for a file opens the one that is there.
Makes(kind, p) ==
  \/ /\ Vacant(p)
     /\ \E o \in Fresh : remote' = [remote EXCEPT ![p] = <<kind, o>>]
  \/ /\ kind = "file" /\ p # <<>> /\ IsA("file", p)
     /\ UNCHANGED remote

Create(parent, p, h) ==
  /\ p \in ChildOf(parent) /\ h \in Unused
  /\ Makes("file", p)
  /\ LookedUp(p, 1)
  /\ files' = With(files, h, IF p \in DOMAIN paths THEN paths[p] ELSE next')
  /\ UNCHANGED <<shared, dirs>>

Mkdir(parent, p) ==
  /\ p \in ChildOf(parent)
  /\ Makes("directory", p)
  /\ LookedUp(p, 0)
  /\ UNCHANGED <<shared, dirs, files>>

\* create and mkdir fail once the entry exists: nothing is undone but the handle.
MadeInVain(parent, p) ==
  /\ p \in ChildOf(parent)
  /\ \E k \in Kinds : Makes(k, p)
  /\ UNCHANGED <<shared, tableVars, known, meant>>

\* unlink and rmdir.
Remove(parent, p) ==
  /\ p \in ChildOf(parent)
  /\ remote[p] # None /\ IsEmpty(p)
  /\ remote' = [remote EXCEPT ![p] = None]
  /\ Becomes(RetirePath(Table, p))
  /\ UNCHANGED <<shared, next, dirs, files, known>>

\* The server moves `from' with all below it, over a file or an empty directory
\* if the kernel asks for it.
Renames(from, to) ==
  /\ remote[from] # None
  /\ \/ Vacant(to)
     \/ remote[to] # None /\ remote[to][1] = remote[from][1] /\ IsEmpty(to)
  /\ ~Under(from, to)
  /\ Len(to) > Len(from) => IsEmpty(from)     \* bound: two levels
  /\ remote' = [p \in Paths |->
                  IF Under(to, p) /\ Rebase(p, to, from) \in Paths
                    THEN remote[Rebase(p, to, from)]
                  ELSE IF Under(from, p) THEN None ELSE remote[p]]

\* Fault: only open directories at the renamed path move, not those below it.
MovedDirsAt(from, to) ==
  [h \in DOMAIN dirs |-> IF dirs[h].path = from THEN [dirs[h] EXCEPT !.path = to] ELSE dirs[h]]
MovedDirs(from, to) ==
  [h \in DOMAIN dirs |-> IF Under(from, dirs[h].path)
                           THEN [dirs[h] EXCEPT !.path = Rebase(@, from, to)]
                           ELSE dirs[h]]

Rename(parent, from, newparent, to) ==
  /\ from \in ChildOf(parent) /\ to \in ChildOf(newparent)
  /\ from # to
  /\ Renames(from, to)
  /\ \A q \in DOMAIN paths \cup {dirs[h].path : h \in DOMAIN dirs} :
       Under(from, q) => Rebase(q, from, to) \in Paths   \* bound: two levels
  /\ Becomes(MovePaths(RetirePath(Table, to), from, to))
  /\ dirs' = MovedDirs(from, to)
  /\ UNCHANGED <<shared, next, files, known>>

\* Another client adds or removes an entry.
OthersEdit ==
  /\ shared
  /\ \E p \in Paths \ {<<>>} :
       \/ \E k \in Kinds : Vacant(p) /\ Makes(k, p)
       \/ /\ remote[p] # None /\ IsEmpty(p)
          /\ remote' = [remote EXCEPT ![p] = None]
  /\ UNCHANGED <<shared, tableVars, known, meant>>

Next ==
  \/ \E i \in Known : \E p \in ChildOf(i) :
       \/ Lookup(i, p) \/ Mkdir(i, p) \/ MadeInVain(i, p) \/ Remove(i, p)
       \/ \E h \in Unused : Create(i, p, h)
       \/ \E j \in Known : \E q \in ChildOf(j) : Rename(i, p, j, q)
  \/ \E i \in Inodes : \E count \in 1 .. known[i] : Forget(i, count)
  \/ \E i \in Known, h \in Unused : OpenFile(i, h) \/ OpenDir(i, h)
  \/ \E h \in Handles : Release(h) \/ ReleaseDir(h)
  \/ OthersEdit

Spec == Init /\ [][Next]_vars

(***************************************************************************)
(* Properties.                                                             *)
(***************************************************************************)
\* The table has a node for exactly the inodes that the kernel refers to or
\* has open, with the same counts: none is forgotten too early, which the
\* kernel would see as ESTALE, and none is kept for ever.
KernelServed ==
  \A i \in Inodes \ {Root} :
    LET opens == {h \in DOMAIN files : files[h] = i}
                   \cup {h \in DOMAIN dirs : dirs[h].ino = i}
    IN  /\ i \in DOMAIN nodes <=> known[i] > 0 \/ opens # {}
        /\ i \in DOMAIN nodes => nodes[i].lookups = known[i]

\* A path leads to a node that knows this path, even when other clients edit
\* the tree: lookup never fails with ESTALE, and an inode is never moved by
\* the rename of something else.
PathsSound ==
  \A p \in DOMAIN paths :
    paths[p] \in DOMAIN nodes /\ nodes[paths[p]].path = p

\* While nobody else edits the tree, every path has one inode: retiring an old
\* one never takes away the path of an entry that was created again.
PathsComplete ==
  ~shared => \A i \in DOMAIN nodes :
    nodes[i].path # None =>
      nodes[i].path \in DOMAIN paths /\ paths[nodes[i].path] = i

\* While nobody else edits the tree, what the kernel does to an inode by its
\* path happens to the object it was looked up as, after any number of
\* renames, removals and recreations of it or of directories above it.
SameObject ==
  ~shared => \A i \in DOMAIN nodes \ {Root} :
    nodes[i].path # None => remote[nodes[i].path] = meant[i]

\* While nobody else edits the tree, an open directory is reopened (rewinddir, a
\* seek back) where its inode is now: renames of it and of what is above it,
\* removals and recreations included.  One that was removed has no such place.
DirsFollow ==
  ~shared => \A h \in DOMAIN dirs :
    nodes[dirs[h].ino].path \in {None, dirs[h].path}
=============================================================================
