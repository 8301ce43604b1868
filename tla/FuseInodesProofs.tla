--------------------------- MODULE FuseInodesProofs ---------------------------
(***************************************************************************)
(* Proofs about FuseInodes for any number of inodes, names, objects,       *)
(* handles and references, with or without other clients.                  *)
(***************************************************************************)
EXTENDS FuseInodes, SequenceTheorems, FiniteSetTheorems, TLAPS

(***************************************************************************)
(* The inductive invariant.                                                *)
(***************************************************************************)
NodeShape == [path : Seq(Names) \cup {None}, lookups : Nat, opens : Nat]
DirShape  == [ino : Inodes, path : Seq(Names)]

\* Every path leads to a node that has this path.
SoundTable(ns, ps) ==
  /\ ns \in [DOMAIN ns -> NodeShape]
  /\ DOMAIN ps \subseteq Seq(Names)
  /\ \A p \in DOMAIN ps : ps[p] \in DOMAIN ns /\ ns[ps[p]].path = p

Opens(fs, ds, i) == {h \in DOMAIN fs : fs[h] = i} \cup {h \in DOMAIN ds : ds[h].ino = i}

\* A node counts what the kernel refers to and has open; an inode without a node
\* has neither.
Counts(ns, kn, fs, ds) ==
  \A i \in Inodes :
    IF i \in DOMAIN ns
      THEN ns[i].lookups = kn[i] /\ ns[i].opens = Cardinality(Opens(fs, ds, i))
      ELSE kn[i] = 0 /\ Opens(fs, ds, i) = {}

\* Nodes outside of s are in use.
InUseBut(ns, s) == \A i \in DOMAIN ns \ s : ns[i].lookups + ns[i].opens > 0

\* Handles are of files or of directories, and there are finitely many.
HandlesOK(fs, ds) ==
  /\ fs \in [DOMAIN fs -> Inodes] /\ ds \in [DOMAIN ds -> DirShape]
  /\ IsFiniteSet(DOMAIN fs) /\ IsFiniteSet(DOMAIN ds)
  /\ DOMAIN fs \cap DOMAIN ds = {}

Reached ==
  /\ next \in Inodes /\ DOMAIN nodes \subseteq 1 .. next
  /\ SoundTable(nodes, paths)
  /\ known \in [Inodes -> Nat]
  /\ HandlesOK(files, dirs)

TableInv ==
  /\ Reached
  /\ Counts(nodes, known, files, dirs)
  /\ InUseBut(nodes, {Root})

(***************************************************************************)
(* Handles.                                                                *)
(***************************************************************************)
LEMMA OpensFinite ==
  ASSUME NEW fs, NEW ds, HandlesOK(fs, ds), NEW i
  PROVE  /\ IsFiniteSet(Opens(fs, ds, i)) /\ Cardinality(Opens(fs, ds, i)) \in Nat
         /\ Cardinality(Opens(fs, ds, i)) = 0 <=> Opens(fs, ds, i) = {}
<1>1. IsFiniteSet(DOMAIN fs \cup DOMAIN ds)
  BY FS_Union DEF HandlesOK
<1>2. Opens(fs, ds, i) \subseteq DOMAIN fs \cup DOMAIN ds
  BY DEF Opens
<1>3. IsFiniteSet(Opens(fs, ds, i))
  BY <1>1, <1>2, FS_Subset
<1>4. QED
  BY <1>3, FS_CardinalityType, FS_EmptySet

LEMMA OpenedFile ==
  ASSUME NEW fs, NEW ds, HandlesOK(fs, ds), NEW i \in Inodes,
         NEW h, h \notin DOMAIN fs \cup DOMAIN ds
  PROVE  /\ HandlesOK(With(fs, h, i), ds)
         /\ Cardinality(Opens(With(fs, h, i), ds, i)) = Cardinality(Opens(fs, ds, i)) + 1
         /\ \A j : j # i => Opens(With(fs, h, i), ds, j) = Opens(fs, ds, j)
<1>1. /\ DOMAIN With(fs, h, i) = DOMAIN fs \cup {h}
      /\ \A k \in DOMAIN fs : With(fs, h, i)[k] = fs[k]
      /\ With(fs, h, i)[h] = i
      /\ With(fs, h, i) \in [DOMAIN fs \cup {h} -> Inodes]
  BY DEF With, HandlesOK
<1>2. IsFiniteSet(DOMAIN fs \cup {h})
  BY FS_AddElement DEF HandlesOK
<1>3. HandlesOK(With(fs, h, i), ds)
  BY <1>1, <1>2 DEF HandlesOK
<1>4. /\ Opens(With(fs, h, i), ds, i) = Opens(fs, ds, i) \cup {h}
      /\ \A j : j # i => Opens(With(fs, h, i), ds, j) = Opens(fs, ds, j)
  BY <1>1 DEF Opens
<1>5. h \notin Opens(fs, ds, i)
  BY DEF Opens
<1>6. QED
  BY <1>3, <1>4, <1>5, OpensFinite, FS_AddElement

LEMMA OpenedDir ==
  ASSUME NEW fs, NEW ds, HandlesOK(fs, ds), NEW d \in DirShape,
         NEW h, h \notin DOMAIN fs \cup DOMAIN ds
  PROVE  /\ HandlesOK(fs, With(ds, h, d))
         /\ Cardinality(Opens(fs, With(ds, h, d), d.ino)) = Cardinality(Opens(fs, ds, d.ino)) + 1
         /\ \A j : j # d.ino => Opens(fs, With(ds, h, d), j) = Opens(fs, ds, j)
<1>1. /\ DOMAIN With(ds, h, d) = DOMAIN ds \cup {h}
      /\ \A k \in DOMAIN ds : With(ds, h, d)[k] = ds[k]
      /\ With(ds, h, d)[h] = d
      /\ With(ds, h, d) \in [DOMAIN ds \cup {h} -> DirShape]
  BY DEF With, HandlesOK
<1>2. IsFiniteSet(DOMAIN ds \cup {h})
  BY FS_AddElement DEF HandlesOK
<1>3. HandlesOK(fs, With(ds, h, d))
  BY <1>1, <1>2 DEF HandlesOK
<1>4. /\ Opens(fs, With(ds, h, d), d.ino) = Opens(fs, ds, d.ino) \cup {h}
      /\ \A j : j # d.ino => Opens(fs, With(ds, h, d), j) = Opens(fs, ds, j)
  BY <1>1 DEF Opens
<1>5. h \notin Opens(fs, ds, d.ino)
  BY DEF Opens
<1>6. QED
  BY <1>3, <1>4, <1>5, OpensFinite, FS_AddElement

LEMMA ClosedFile ==
  ASSUME NEW fs, NEW ds, HandlesOK(fs, ds), NEW h \in DOMAIN fs
  PROVE  /\ HandlesOK(Without(fs, h), ds)
         /\ Cardinality(Opens(fs, ds, fs[h])) = Cardinality(Opens(Without(fs, h), ds, fs[h])) + 1
         /\ \A j : j # fs[h] => Opens(Without(fs, h), ds, j) = Opens(fs, ds, j)
<1>1. /\ DOMAIN Without(fs, h) = DOMAIN fs \ {h}
      /\ \A k \in DOMAIN fs \ {h} : Without(fs, h)[k] = fs[k]
      /\ Without(fs, h) \in [DOMAIN fs \ {h} -> Inodes]
  BY DEF Without, HandlesOK
<1>2. IsFiniteSet(DOMAIN fs \ {h})
  BY FS_RemoveElement DEF HandlesOK
<1>3. HandlesOK(Without(fs, h), ds)
  BY <1>1, <1>2 DEF HandlesOK
<1>4. /\ Opens(fs, ds, fs[h]) = Opens(Without(fs, h), ds, fs[h]) \cup {h}
      /\ \A j : j # fs[h] => Opens(Without(fs, h), ds, j) = Opens(fs, ds, j)
  BY <1>1 DEF Opens
<1>5. h \notin Opens(Without(fs, h), ds, fs[h])
  BY <1>1 DEF Opens, HandlesOK
<1>6. QED
  BY <1>3, <1>4, <1>5, OpensFinite, FS_AddElement

LEMMA ClosedDir ==
  ASSUME NEW fs, NEW ds, HandlesOK(fs, ds), NEW h \in DOMAIN ds
  PROVE  /\ HandlesOK(fs, Without(ds, h))
         /\ Cardinality(Opens(fs, ds, ds[h].ino))
              = Cardinality(Opens(fs, Without(ds, h), ds[h].ino)) + 1
         /\ \A j : j # ds[h].ino => Opens(fs, Without(ds, h), j) = Opens(fs, ds, j)
<1>1. /\ DOMAIN Without(ds, h) = DOMAIN ds \ {h}
      /\ \A k \in DOMAIN ds \ {h} : Without(ds, h)[k] = ds[k]
      /\ Without(ds, h) \in [DOMAIN ds \ {h} -> DirShape]
  BY DEF Without, HandlesOK
<1>2. IsFiniteSet(DOMAIN ds \ {h})
  BY FS_RemoveElement DEF HandlesOK
<1>3. HandlesOK(fs, Without(ds, h))
  BY <1>1, <1>2 DEF HandlesOK
<1>4. /\ Opens(fs, ds, ds[h].ino) = Opens(fs, Without(ds, h), ds[h].ino) \cup {h}
      /\ \A j : j # ds[h].ino => Opens(fs, Without(ds, h), j) = Opens(fs, ds, j)
  BY <1>1 DEF Opens
<1>5. h \notin Opens(fs, Without(ds, h), ds[h].ino)
  BY <1>1 DEF Opens, HandlesOK
<1>6. QED
  BY <1>3, <1>4, <1>5, OpensFinite, FS_AddElement

(***************************************************************************)
(* collect and the changes of one node.                                    *)
(***************************************************************************)
LEMMA CollectKeeps ==
  ASSUME NEW t, NEW id, NEW kn, NEW fs, NEW ds,
         SoundTable(t.nodes, t.paths), HandlesOK(fs, ds),
         DOMAIN t.nodes \subseteq Inodes,
         Counts(t.nodes, kn, fs, ds), InUseBut(t.nodes, {Root, id})
  PROVE  LET c == Collect(t, id)
         IN  /\ SoundTable(c.nodes, c.paths)
             /\ DOMAIN c.nodes \subseteq DOMAIN t.nodes
             /\ Counts(c.nodes, kn, fs, ds)
             /\ InUseBut(c.nodes, {Root})
<1>. DEFINE c == Collect(t, id)
<1>1. CASE id = Root \/ id \notin DOMAIN t.nodes \/ t.nodes[id].lookups + t.nodes[id].opens > 0
  <2>1. c = t
    BY <1>1 DEF Collect
  <2>2. InUseBut(t.nodes, {Root})
    BY <1>1 DEF InUseBut
  <2>3. QED
    BY <2>1, <2>2
<1>2. CASE /\ id # Root /\ id \in DOMAIN t.nodes
           /\ ~(t.nodes[id].lookups + t.nodes[id].opens > 0)
  <2>1. /\ c.nodes = Without(t.nodes, id) /\ c.paths = Without(t.paths, t.nodes[id].path)
    BY <1>2 DEF Collect
  <2>2. /\ DOMAIN c.nodes = DOMAIN t.nodes \ {id}
        /\ \A i \in DOMAIN c.nodes : c.nodes[i] = t.nodes[i]
        /\ DOMAIN c.paths = DOMAIN t.paths \ {t.nodes[id].path}
        /\ \A p \in DOMAIN c.paths : c.paths[p] = t.paths[p]
        /\ c.nodes \in [DOMAIN c.nodes -> NodeShape]
    BY <2>1 DEF Without, SoundTable
  <2>3. SoundTable(c.nodes, c.paths)
    BY <2>2 DEF SoundTable
  <2>4. t.nodes[id].lookups = 0 /\ t.nodes[id].opens = 0
    BY <1>2 DEF SoundTable, NodeShape
  <2>5. kn[id] = 0 /\ Opens(fs, ds, id) = {}
    BY <1>2, <2>4, OpensFinite DEF Counts
  <2>6. Counts(c.nodes, kn, fs, ds)
    BY <2>2, <2>5 DEF Counts
  <2>7. InUseBut(c.nodes, {Root})
    BY <2>2 DEF InUseBut
  <2>8. QED
    BY <2>2, <2>3, <2>6, <2>7
<1>3. QED
  BY <1>1, <1>2

\* The counts of one node change.
Edited(ns, i, l, o) ==
  [j \in DOMAIN ns |-> IF j = i THEN [path |-> ns[i].path, lookups |-> l, opens |-> o]
                                ELSE ns[j]]

LEMMA EditedSound ==
  ASSUME NEW ns, NEW ps, SoundTable(ns, ps), NEW i \in DOMAIN ns, NEW l \in Nat, NEW o \in Nat
  PROVE  /\ SoundTable(Edited(ns, i, l, o), ps)
         /\ DOMAIN Edited(ns, i, l, o) = DOMAIN ns
         /\ Edited(ns, i, l, o)[i].lookups = l /\ Edited(ns, i, l, o)[i].opens = o
         /\ \A j \in DOMAIN ns : j # i => Edited(ns, i, l, o)[j] = ns[j]
<1>. DEFINE e == Edited(ns, i, l, o)
<1>1. /\ DOMAIN e = DOMAIN ns
      /\ e[i] = [path |-> ns[i].path, lookups |-> l, opens |-> o]
      /\ \A j \in DOMAIN ns : j # i => e[j] = ns[j]
  BY DEF Edited
<1>2. ns[i] \in NodeShape /\ \A j \in DOMAIN ns : ns[j] \in NodeShape
  BY DEF SoundTable
<1>3. e[i] \in NodeShape /\ e[i].path = ns[i].path
  BY <1>1, <1>2 DEF NodeShape
<1>4. \A j \in DOMAIN ns : e[j] \in NodeShape /\ e[j].path = ns[j].path
  BY <1>1, <1>2, <1>3
<1>5. e \in [DOMAIN e -> NodeShape]
  <2>1. \A j \in DOMAIN e : e[j] \in NodeShape
    BY <1>1, <1>4
  <2>2. e = [j \in DOMAIN e |-> e[j]]
    BY DEF Edited
  <2>3. QED
    BY <2>1, <2>2
<1>6. SoundTable(e, ps)
  BY <1>1, <1>4, <1>5 DEF SoundTable
<1>7. QED
  BY <1>1, <1>6

(***************************************************************************)
(* Paths.                                                                  *)
(***************************************************************************)
LEMMA PathsAreSequences == Paths \subseteq Seq(Names)
<1>1. SUFFICES ASSUME NEW n \in 0 .. 2, NEW p \in [1 .. n -> Names] PROVE p \in Seq(Names)
  BY DEF Paths
<1>2. n \in Nat
  OBVIOUS
<1>3. QED
  BY <1>2, SeqDef

\* What was moved can be moved back: no two paths move to the same place.
LEMMA RebaseBack ==
  ASSUME NEW p \in Seq(Names), NEW from \in Seq(Names), NEW to \in Seq(Names),
         Under(from, p)
  PROVE  Rebase(Rebase(p, from, to), to, from) = p
<1>. DEFINE rest == SubSeq(p, Len(from) + 1, Len(p))
            r    == to \o rest
<1>1. /\ Len(from) \in Nat /\ Len(p) \in Nat /\ Len(to) \in Nat /\ Len(from) <= Len(p)
      /\ SubSeq(p, 1, Len(from)) = from
  BY LenProperties DEF Under
<1>2. rest \in Seq(Names)
  BY <1>1, SubSeqProperties
<1>3. Len(rest) \in Nat /\ r \in Seq(Names) /\ Len(r) = Len(to) + Len(rest)
  BY <1>2, ConcatProperties, LenProperties
<1>4. SubSeq(r, Len(to) + 1, Len(r)) = rest
  <2>1. CASE Len(rest) = 0
    <3>1. rest = <<>>
      BY <1>2, <2>1, EmptySeq
    <3>2. SubSeq(r, Len(to) + 1, Len(r)) = <<>>
      BY <1>1, <1>3, <2>1, SubSeqEmpty
    <3>3. QED
      BY <3>1, <3>2
  <2>2. CASE Len(rest) # 0
    <3>1. Len(to) + 1 \in Len(to) + 1 .. Len(to) + Len(rest) + 1
      BY <1>1, <1>3
    <3>2. Len(r) \in Len(to) + 1 - 1 .. Len(to) + Len(rest)
      BY <1>1, <1>3
    <3>3. SubSeq(r, Len(to) + 1, Len(r)) = SubSeq(rest, Len(to) + 1 - Len(to), Len(r) - Len(to))
      BY <1>2, <1>3, <3>1, <3>2, SubSeqOfConcat2
    <3>4. Len(to) + 1 - Len(to) = 1 /\ Len(r) - Len(to) = Len(rest)
      BY <1>1, <1>3
    <3>5. QED
      BY <1>2, <3>3, <3>4, SubSeqFull
  <2>3. QED
    BY <2>1, <2>2
<1>5. from \o rest = p
  <2>1. SubSeq(p, 1, Len(from)) \o SubSeq(p, Len(from) + 1, Len(p)) = SubSeq(p, 1, Len(p))
    <3>1. /\ 1 \in 1 .. Len(p) + 1 /\ Len(from) \in 1 - 1 .. Len(p)
          /\ Len(p) \in Len(from) .. Len(p)
      BY <1>1
    <3>2. QED
      BY <3>1, ConcatAdjacentSubSeq
  <2>2. QED
    BY <1>1, <2>1, SubSeqFull
<1>6. QED
  BY <1>4, <1>5 DEF Rebase

(***************************************************************************)
(* retire_path and the loop of rename.                                     *)
(***************************************************************************)
SameCounts(ns, ms) ==
  /\ DOMAIN ms = DOMAIN ns
  /\ \A i \in DOMAIN ns : ms[i].lookups = ns[i].lookups /\ ms[i].opens = ns[i].opens

LEMMA SameCountsKeep ==
  ASSUME NEW ns, NEW ms, NEW kn, NEW fs, NEW ds, SameCounts(ns, ms)
  PROVE  /\ Counts(ns, kn, fs, ds) => Counts(ms, kn, fs, ds)
         /\ \A s : InUseBut(ns, s) => InUseBut(ms, s)
BY DEF SameCounts, Counts, InUseBut

\* A path that is retired takes no node with it: each is in use.
LEMMA NodePath ==
  ASSUME NEW n \in NodeShape, NEW q \in Seq(Names) \cup {None}
  PROVE  LET r == [n EXCEPT !.path = q]
         IN  r \in NodeShape /\ r.path = q /\ r.lookups = n.lookups /\ r.opens = n.opens
BY DEF NodeShape

LEMMA DirPath ==
  ASSUME NEW d \in DirShape, NEW q \in Seq(Names)
  PROVE  LET r == [d EXCEPT !.path = q] IN r \in DirShape /\ r.ino = d.ino
BY DEF DirShape

LEMMA RetireKeeps ==
  ASSUME NEW t, NEW p, SoundTable(t.nodes, t.paths), InUseBut(t.nodes, {Root})
  PROVE  LET r == RetirePath(t, p)
         IN  /\ SoundTable(r.nodes, r.paths) /\ SameCounts(t.nodes, r.nodes)
             /\ DOMAIN r.paths \subseteq DOMAIN t.paths
<1>. DEFINE r  == RetirePath(t, p)
            id == t.paths[p]
            u  == [nodes |-> [t.nodes EXCEPT ![id].path = None], paths |-> Without(t.paths, p)]
<1>1. CASE p \notin DOMAIN t.paths
  <2>1. r = t
    BY <1>1 DEF RetirePath
  <2>2. QED
    BY <2>1 DEF SameCounts
<1>2. CASE p \in DOMAIN t.paths
  <2>1. id \in DOMAIN t.nodes /\ t.nodes[id].path = p /\ r = Collect(u, id)
    BY <1>2 DEF RetirePath, SoundTable
  <2>2. /\ DOMAIN u.nodes = DOMAIN t.nodes
        /\ u.nodes[id] = [t.nodes[id] EXCEPT !.path = None]
        /\ \A i \in DOMAIN t.nodes : i # id => u.nodes[i] = t.nodes[i]
    BY <2>1
  <2>3. /\ u.nodes[id] \in NodeShape
        /\ u.nodes[id].lookups = t.nodes[id].lookups /\ u.nodes[id].opens = t.nodes[id].opens
    <3>1. t.nodes[id] \in NodeShape
      BY <2>1 DEF SoundTable
    <3>2. QED
      BY <2>1, <2>2, <3>1, NodePath
  <2>4. SameCounts(t.nodes, u.nodes)
    BY <2>2, <2>3 DEF SameCounts
  <2>5. r = u
    BY <2>1, <2>2, <2>3 DEF Collect, InUseBut
  <2>6. /\ DOMAIN u.paths = DOMAIN t.paths \ {p}
        /\ \A q \in DOMAIN u.paths : u.paths[q] = t.paths[q]
    BY DEF Without
  <2>7. u.nodes \in [DOMAIN u.nodes -> NodeShape]
    <3>1. \A i \in DOMAIN u.nodes : u.nodes[i] \in NodeShape
      BY <2>2, <2>3 DEF SoundTable
    <3>2. QED
      BY <3>1, <2>2
  <2>8. SoundTable(u.nodes, u.paths)
    <3>1. \A q \in DOMAIN u.paths : /\ u.paths[q] \in DOMAIN u.nodes /\ u.paths[q] # id
                                    /\ u.nodes[u.paths[q]].path = q
      BY <2>1, <2>2, <2>6 DEF SoundTable
    <3>2. QED
      BY <2>6, <2>7, <3>1 DEF SoundTable
  <2>9. QED
    BY <2>4, <2>5, <2>6, <2>8
<1>3. QED
  BY <1>1, <1>2

LEMMA MoveKeeps ==
  ASSUME NEW t, NEW from \in Seq(Names), NEW to \in Seq(Names),
         SoundTable(t.nodes, t.paths),
         \A q \in DOMAIN t.paths : Under(from, q) => Rebase(q, from, to) \in Seq(Names)
  PROVE  LET m == MovePaths(t, from, to)
         IN  SoundTable(m.nodes, m.paths) /\ SameCounts(t.nodes, m.nodes)
<1>. DEFINE m       == MovePaths(t, from, to)
            moved   == {p \in DOMAIN t.paths : Under(from, p)}
            arrived == {Rebase(p, from, to) : p \in moved}
            Moves(i) == \E p \in moved : t.paths[p] = i
<1>1. /\ m.nodes = [i \in DOMAIN t.nodes |->
                      IF Moves(i)
                        THEN [t.nodes[i] EXCEPT !.path =
                                Rebase(CHOOSE p \in moved : t.paths[p] = i, from, to)]
                        ELSE t.nodes[i]]
      /\ m.paths = [p \in (DOMAIN t.paths \ moved) \cup arrived |->
                      IF p \in arrived THEN t.paths[Rebase(p, to, from)] ELSE t.paths[p]]
  BY DEF MovePaths
<1>2. \A p \in moved : /\ p \in Seq(Names) /\ t.paths[p] \in DOMAIN t.nodes
                       /\ t.nodes[t.paths[p]].path = p
  BY DEF SoundTable
<1>3. ASSUME NEW p \in moved
      PROVE  /\ (CHOOSE q \in moved : t.paths[q] = t.paths[p]) = p
             /\ Moves(t.paths[p])
             /\ Rebase(p, from, to) \in Seq(Names)
             /\ Rebase(Rebase(p, from, to), to, from) = p
  <2>1. \A q \in moved : t.paths[q] = t.paths[p] => q = p
    BY <1>2
  <2>2. QED
    BY <1>2, <2>1, RebaseBack
<1>. HIDE DEF m, moved, arrived, Moves
<1>4. ASSUME NEW i \in DOMAIN t.nodes, NEW p \in moved, t.paths[p] = i
      PROVE  m.nodes[i] = [t.nodes[i] EXCEPT !.path = Rebase(p, from, to)]
  BY <1>1, <1>3, <1>4
<1>5. ASSUME NEW i \in DOMAIN t.nodes
      PROVE  /\ m.nodes[i] \in NodeShape
             /\ m.nodes[i].lookups = t.nodes[i].lookups /\ m.nodes[i].opens = t.nodes[i].opens
  <2>1. t.nodes[i] \in NodeShape
    BY DEF SoundTable
  <2>2. CASE Moves(i)
    <3>1. PICK p \in moved : t.paths[p] = i
      BY <2>2 DEF Moves
    <3>2. m.nodes[i] = [t.nodes[i] EXCEPT !.path = Rebase(p, from, to)]
      BY <1>4, <3>1
    <3>3. Rebase(p, from, to) \in Seq(Names)
      BY <1>3
    <3>4. QED
      BY <2>1, <3>2, <3>3, NodePath
  <2>3. CASE ~Moves(i)
    BY <1>1, <2>1, <2>3
  <2>4. QED
    BY <2>2, <2>3
<1>6. DOMAIN m.nodes = DOMAIN t.nodes /\ m.nodes \in [DOMAIN m.nodes -> NodeShape]
  BY <1>1, <1>5
<1>7. DOMAIN m.paths = (DOMAIN t.paths \ moved) \cup arrived
  BY <1>1
<1>8. ASSUME NEW r \in DOMAIN m.paths
      PROVE  r \in Seq(Names) /\ m.paths[r] \in DOMAIN m.nodes /\ m.nodes[m.paths[r]].path = r
  <2>1. CASE r \in arrived
    <3>1. PICK p \in moved : r = Rebase(p, from, to)
      BY <2>1 DEF arrived
    <3>2. m.paths[r] = t.paths[p]
      BY <1>1, <1>3, <1>7, <2>1, <3>1
    <3>3. m.nodes[t.paths[p]] = [t.nodes[t.paths[p]] EXCEPT !.path = r]
      BY <1>2, <1>4, <3>1
    <3>4. t.nodes[t.paths[p]] \in NodeShape
      BY <1>2 DEF SoundTable
    <3>5. m.nodes[t.paths[p]].path = r
      <4>1. r \in Seq(Names)
        BY <1>3, <3>1
      <4>2. QED
        BY <3>3, <3>4, <4>1, NodePath
    <3>6. QED
      BY <1>2, <1>3, <1>6, <3>1, <3>2, <3>5
  <2>2. CASE r \notin arrived
    <3>1. r \in DOMAIN t.paths /\ r \notin moved /\ m.paths[r] = t.paths[r]
      BY <1>1, <1>7, <2>2
    <3>2. t.paths[r] \in DOMAIN t.nodes /\ t.nodes[t.paths[r]].path = r /\ r \in Seq(Names)
      BY <3>1 DEF SoundTable
    <3>3. ~Moves(t.paths[r])
      BY <1>2, <3>1, <3>2 DEF Moves
    <3>4. m.nodes[t.paths[r]] = t.nodes[t.paths[r]]
      BY <1>1, <3>2, <3>3
    <3>5. QED
      BY <1>6, <3>1, <3>2, <3>4
  <2>3. QED
    BY <2>1, <2>2
<1>9. SoundTable(m.nodes, m.paths)
  BY <1>6, <1>8 DEF SoundTable
<1>10. SameCounts(t.nodes, m.nodes)
  BY <1>5, <1>6 DEF SameCounts
<1>11. QED
  BY <1>9, <1>10 DEF m

(***************************************************************************)
(* Induction.                                                              *)
(***************************************************************************)
LEMMA InodesAreNumbers ==
  /\ Inodes \subseteq Nat /\ Root \in Inodes
  /\ TableInv => DOMAIN nodes \subseteq Inodes
BY InodeAssumption DEF Inodes, Root, TableInv, Reached

LEMMA TableInvInit == Init => TableInv
<1>1. SUFFICES ASSUME Init PROVE TableInv
  OBVIOUS
<1>2. /\ DOMAIN nodes = {Root} /\ nodes[Root] = [path |-> <<>>, lookups |-> 1, opens |-> 0]
      /\ DOMAIN paths = {<<>>} /\ paths[<<>>] = Root
      /\ DOMAIN files = {} /\ DOMAIN dirs = {}
  BY <1>1 DEF Init
<1>3. <<>> \in Seq(Names)
  BY EmptySeq
<1>4. SoundTable(nodes, paths)
  <2>1. nodes[Root] \in NodeShape /\ nodes[Root].path = <<>>
    BY <1>2, <1>3 DEF NodeShape
  <2>2. nodes \in [DOMAIN nodes -> NodeShape]
    BY <1>1, <1>2, <2>1 DEF Init
  <2>3. QED
    BY <1>2, <1>3, <2>1, <2>2 DEF SoundTable
<1>5. HandlesOK(files, dirs)
  BY <1>1, <1>2, FS_EmptySet DEF Init, HandlesOK
<1>6. \A i : Opens(files, dirs, i) = {}
  BY <1>2 DEF Opens
<1>7. Counts(nodes, known, files, dirs)
  BY <1>1, <1>2, <1>6, FS_EmptySet DEF Init, Counts
<1>8. next \in Inodes /\ DOMAIN nodes \subseteq 1 .. next /\ known \in [Inodes -> Nat]
  BY <1>1, <1>2, InodesAreNumbers DEF Init, Root
<1>9. InUseBut(nodes, {Root})
  BY <1>2 DEF InUseBut
<1>10. QED
  BY <1>4, <1>5, <1>7, <1>8, <1>9 DEF TableInv, Reached

\* The counts of one node change and the node is collected if nothing is left.
LEMMA EditKeeps ==
  ASSUME TableInv, NEW i \in DOMAIN nodes, NEW l \in Nat, NEW o \in Nat,
         LET u == Collect([nodes |-> Edited(nodes, i, l, o), paths |-> paths], i)
         IN  nodes' = u.nodes /\ paths' = u.paths,
         next' = next, known' \in [Inodes -> Nat], HandlesOK(files', dirs'),
         known'[i] = l, \A j \in Inodes : j # i => known'[j] = known[j],
         Cardinality(Opens(files', dirs', i)) = o,
         \A j : j # i => Opens(files', dirs', j) = Opens(files, dirs, j)
  PROVE  TableInv'
<1>. DEFINE e == Edited(nodes, i, l, o)
            t == [nodes |-> e, paths |-> paths]
<1>1. i \in Inodes /\ DOMAIN nodes \subseteq Inodes /\ SoundTable(nodes, paths)
  BY InodesAreNumbers DEF TableInv, Reached
<1>2. /\ SoundTable(e, paths) /\ DOMAIN e = DOMAIN nodes
      /\ e[i].lookups = l /\ e[i].opens = o
      /\ \A j \in DOMAIN nodes : j # i => e[j] = nodes[j]
  <2>1. /\ SoundTable(Edited(nodes, i, l, o), paths)
        /\ DOMAIN Edited(nodes, i, l, o) = DOMAIN nodes
        /\ Edited(nodes, i, l, o)[i].lookups = l /\ Edited(nodes, i, l, o)[i].opens = o
        /\ \A j \in DOMAIN nodes : j # i => Edited(nodes, i, l, o)[j] = nodes[j]
    <3>1. SoundTable(Edited(nodes, i, l, o), paths)
      BY <1>1, EditedSound
    <3>2. \A j \in DOMAIN nodes : j # i => Edited(nodes, i, l, o)[j] = nodes[j]
      BY DEF Edited
    <3>3. /\ DOMAIN Edited(nodes, i, l, o) = DOMAIN nodes
          /\ Edited(nodes, i, l, o)[i].lookups = l /\ Edited(nodes, i, l, o)[i].opens = o
      BY DEF Edited
    <3>4. QED
      BY <3>1, <3>2, <3>3
  <2>2. QED
    BY <2>1
<1>. HIDE DEF e
<1>3. Counts(e, known', files', dirs')
  BY <1>1, <1>2 DEF TableInv, Counts
<1>4. InUseBut(e, {Root, i})
  BY <1>2 DEF TableInv, InUseBut
<1>5. /\ nodes' = Collect(t, i).nodes /\ paths' = Collect(t, i).paths
  BY DEF e
<1>6. t.nodes = e /\ t.paths = paths
  OBVIOUS
<1>. HIDE DEF t
<1>7. /\ SoundTable(nodes', paths') /\ DOMAIN nodes' \subseteq DOMAIN nodes
      /\ Counts(nodes', known', files', dirs') /\ InUseBut(nodes', {Root})
  <2>1. /\ SoundTable(t.nodes, t.paths) /\ DOMAIN t.nodes \subseteq Inodes
        /\ Counts(t.nodes, known', files', dirs') /\ InUseBut(t.nodes, {Root, i})
    BY <1>1, <1>2, <1>3, <1>4, <1>6
  <2>2. /\ SoundTable(Collect(t, i).nodes, Collect(t, i).paths)
        /\ DOMAIN Collect(t, i).nodes \subseteq DOMAIN t.nodes
        /\ Counts(Collect(t, i).nodes, known', files', dirs')
        /\ InUseBut(Collect(t, i).nodes, {Root})
    BY <2>1, CollectKeeps
  <2>3. QED
    BY <1>2, <1>5, <1>6, <2>2
<1>8. QED
  BY <1>7 DEF TableInv, Reached

\* The counts of a node grow.
LEMMA GrowKeeps ==
  ASSUME TableInv, NEW i \in DOMAIN nodes, NEW l \in Nat, NEW o \in Nat, l + o > 0,
         nodes' = Edited(nodes, i, l, o), paths' = paths,
         next' = next, known' \in [Inodes -> Nat], HandlesOK(files', dirs'),
         known'[i] = l, \A j \in Inodes : j # i => known'[j] = known[j],
         Cardinality(Opens(files', dirs', i)) = o,
         \A j : j # i => Opens(files', dirs', j) = Opens(files, dirs, j)
  PROVE  TableInv'
<1>. DEFINE e == Edited(nodes, i, l, o)
            t == [nodes |-> e, paths |-> paths]
<1>1. SoundTable(nodes, paths)
  BY DEF TableInv, Reached
<1>2. e[i].lookups = l /\ e[i].opens = o
  BY <1>1, EditedSound
<1>3. Collect(t, i) = t
  BY <1>2 DEF Collect
<1>4. QED
  BY <1>3, EditKeeps

\* A node that is known has the counts of the kernel.
LEMMA NodeCounts ==
  ASSUME TableInv, NEW i \in DOMAIN nodes
  PROVE  /\ i \in Inodes
         /\ nodes[i].lookups \in Nat /\ nodes[i].opens \in Nat
         /\ nodes[i].lookups = known[i]
         /\ nodes[i].opens = Cardinality(Opens(files, dirs, i))
<1>1. i \in Inodes /\ nodes[i] \in NodeShape
  BY InodesAreNumbers DEF TableInv, Reached, SoundTable
<1>2. QED
  BY <1>1 DEF TableInv, Counts, NodeShape

\* The forms in which the handlers change a node.
EditBoth(i, l, o) == [Table EXCEPT !.nodes[i].lookups = l, !.nodes[i].opens = o]

LEMMA NodeEdits ==
  ASSUME TableInv, NEW i \in DOMAIN nodes, NEW l \in Nat, NEW o \in Nat
  PROVE  /\ [Table EXCEPT !.nodes[i].lookups = l]
              = [nodes |-> Edited(nodes, i, l, nodes[i].opens), paths |-> paths]
         /\ [Table EXCEPT !.nodes[i].opens = o]
              = [nodes |-> Edited(nodes, i, nodes[i].lookups, o), paths |-> paths]
<1>1. /\ nodes[i] \in NodeShape /\ nodes \in [DOMAIN nodes -> NodeShape]
  BY DEF TableInv, Reached, SoundTable
<1>2. ASSUME NEW r \in NodeShape
      PROVE  /\ [r EXCEPT !.lookups = l] = [path |-> r.path, lookups |-> l, opens |-> r.opens]
             /\ [r EXCEPT !.opens = o] = [path |-> r.path, lookups |-> r.lookups, opens |-> o]
  <2>1. r = [path |-> r.path, lookups |-> r.lookups, opens |-> r.opens]
    BY DEF NodeShape
  <2>2. [r EXCEPT !.lookups = l] = [path |-> r.path, lookups |-> l, opens |-> r.opens]
    BY <2>1
  <2>3. [r EXCEPT !.opens = o] = [path |-> r.path, lookups |-> r.lookups, opens |-> o]
    BY <2>1
  <2>4. QED
    BY <2>2, <2>3
<1>3. \A r : [nodes EXCEPT ![i] = r] = [j \in DOMAIN nodes |-> IF j = i THEN r ELSE nodes[j]]
  OBVIOUS
<1>4. /\ [Table EXCEPT !.nodes[i].lookups = l]
           = [nodes |-> [nodes EXCEPT ![i] = [nodes[i] EXCEPT !.lookups = l]], paths |-> paths]
      /\ [Table EXCEPT !.nodes[i].opens = o]
           = [nodes |-> [nodes EXCEPT ![i] = [nodes[i] EXCEPT !.opens = o]], paths |-> paths]
  BY DEF Table
<1>5. QED
  BY <1>1, <1>2, <1>3, <1>4 DEF Edited

LEMMA BothEdits ==
  ASSUME TableInv, NEW i \in DOMAIN nodes, NEW l \in Nat, NEW o \in Nat
  PROVE  EditBoth(i, l, o) = [nodes |-> Edited(nodes, i, l, o), paths |-> paths]
<1>1. /\ nodes[i] \in NodeShape /\ nodes \in [DOMAIN nodes -> NodeShape]
  BY DEF TableInv, Reached, SoundTable
<1>2. ASSUME NEW r \in NodeShape
      PROVE  /\ [r EXCEPT !.lookups = l] = [path |-> r.path, lookups |-> l, opens |-> r.opens]
             /\ [[r EXCEPT !.lookups = l] EXCEPT !.opens = o]
                  = [path |-> r.path, lookups |-> l, opens |-> o]
  <2>1. r = [path |-> r.path, lookups |-> r.lookups, opens |-> r.opens]
    BY DEF NodeShape
  <2>2. [r EXCEPT !.lookups = l] = [path |-> r.path, lookups |-> l, opens |-> r.opens]
    BY <2>1
  <2>3. [[r EXCEPT !.lookups = l] EXCEPT !.opens = o]
          = [path |-> r.path, lookups |-> l, opens |-> o]
    <3>1. [[path |-> r.path, lookups |-> l, opens |-> r.opens] EXCEPT !.opens = o]
            = [path |-> r.path, lookups |-> l, opens |-> o]
      OBVIOUS
    <3>2. QED
      BY <2>2, <3>1
  <2>4. QED
    BY <2>2, <2>3
<1>3. \A r : [nodes EXCEPT ![i] = r] = [j \in DOMAIN nodes |-> IF j = i THEN r ELSE nodes[j]]
  OBVIOUS
<1>4. [Table EXCEPT !.nodes[i].lookups = l]
        = [nodes |-> [nodes EXCEPT ![i] = [nodes[i] EXCEPT !.lookups = l]], paths |-> paths]
  BY DEF Table
<1>5. [Table EXCEPT !.nodes[i].lookups = l, !.nodes[i].opens = o]
        = [nodes |-> [nodes EXCEPT ![i] = [[nodes[i] EXCEPT !.lookups = l] EXCEPT !.opens = o]],
           paths |-> paths]
  <2>. DEFINE ns == [nodes EXCEPT ![i] = [nodes[i] EXCEPT !.lookups = l]]
  <2>1. [Table EXCEPT !.nodes[i].lookups = l, !.nodes[i].opens = o]
          = [[nodes |-> ns, paths |-> paths] EXCEPT !.nodes[i].opens = o]
    BY <1>4
  <2>2. [[nodes |-> ns, paths |-> paths] EXCEPT !.nodes[i].opens = o]
          = [nodes |-> [ns EXCEPT ![i] = [ns[i] EXCEPT !.opens = o]], paths |-> paths]
    OBVIOUS
  <2>3. ns[i] = [nodes[i] EXCEPT !.lookups = l]
    OBVIOUS
  <2>4. \A r : [ns EXCEPT ![i] = r] = [nodes EXCEPT ![i] = r]
    OBVIOUS
  <2>5. QED
    BY <2>1, <2>2, <2>3, <2>4
<1>6. QED
  BY <1>1, <1>2, <1>3, <1>4, <1>5 DEF Edited, EditBoth

\* A file or directory is opened.
LEMMA OpenKeeps ==
  ASSUME TableInv, NEW i \in DOMAIN nodes,
         Becomes([Table EXCEPT !.nodes[i].opens = @ + 1]), UNCHANGED <<next, known>>,
         HandlesOK(files', dirs'),
         Cardinality(Opens(files', dirs', i)) = Cardinality(Opens(files, dirs, i)) + 1,
         \A j : j # i => Opens(files', dirs', j) = Opens(files, dirs, j)
  PROVE  TableInv'
<1>. DEFINE o == nodes[i].opens + 1
<1>1. /\ i \in Inodes /\ nodes[i].lookups \in Nat /\ o \in Nat /\ nodes[i].lookups + o > 0
      /\ nodes[i].lookups = known[i]
      /\ Cardinality(Opens(files', dirs', i)) = o
  BY NodeCounts
<1>2. [Table EXCEPT !.nodes[i].opens = @ + 1]
        = [nodes |-> Edited(nodes, i, nodes[i].lookups, o), paths |-> paths]
  <2>1. [Table EXCEPT !.nodes[i].opens = @ + 1] = [Table EXCEPT !.nodes[i].opens = o]
    BY DEF Table
  <2>2. QED
    BY <1>1, <2>1, NodeEdits
<1>3. nodes' = Edited(nodes, i, nodes[i].lookups, o) /\ paths' = paths
  BY <1>2 DEF Becomes
<1>4. known \in [Inodes -> Nat]
  BY DEF TableInv, Reached
<1>. HIDE DEF o
<1>5. QED
  BY <1>1, <1>3, <1>4, GrowKeeps

LEMMA OpenFileKeeps ==
  ASSUME TableInv, NEW i, NEW h, OpenFile(i, h)
  PROVE  TableInv'
<1>1. /\ i \in DOMAIN nodes /\ h \notin DOMAIN files \cup DOMAIN dirs
      /\ files' = With(files, h, i) /\ dirs' = dirs /\ UNCHANGED <<next, known>>
      /\ Becomes([Table EXCEPT !.nodes[i].opens = @ + 1])
  BY DEF OpenFile, Known, Unused, InUse
<1>2. HandlesOK(files, dirs) /\ i \in Inodes
  BY <1>1, InodesAreNumbers DEF TableInv, Reached
<1>3. /\ HandlesOK(files', dirs')
      /\ Cardinality(Opens(files', dirs', i)) = Cardinality(Opens(files, dirs, i)) + 1
      /\ \A j : j # i => Opens(files', dirs', j) = Opens(files, dirs, j)
  BY <1>1, <1>2, OpenedFile
<1>4. QED
  BY <1>1, <1>3, OpenKeeps

LEMMA OpenDirKeeps ==
  ASSUME TableInv, NEW i, NEW h, OpenDir(i, h)
  PROVE  TableInv'
<1>. DEFINE d == [ino |-> i, path |-> nodes[i].path]
<1>1. /\ i \in DOMAIN nodes /\ nodes[i].path # None /\ h \notin DOMAIN files \cup DOMAIN dirs
      /\ dirs' = With(dirs, h, d) /\ files' = files /\ UNCHANGED <<next, known>>
      /\ Becomes([Table EXCEPT !.nodes[i].opens = @ + 1])
  BY DEF OpenDir, Known, Unused, InUse
<1>2. HandlesOK(files, dirs) /\ i \in Inodes /\ nodes[i] \in NodeShape
  BY <1>1, InodesAreNumbers DEF TableInv, Reached, SoundTable
<1>3. d \in DirShape /\ d.ino = i
  BY <1>1, <1>2 DEF DirShape, NodeShape
<1>. HIDE DEF d
<1>4. /\ HandlesOK(files', dirs')
      /\ Cardinality(Opens(files', dirs', i)) = Cardinality(Opens(files, dirs, i)) + 1
      /\ \A j : j # i => Opens(files', dirs', j) = Opens(files, dirs, j)
  BY <1>1, <1>2, <1>3, OpenedDir
<1>5. QED
  BY <1>1, <1>4, OpenKeeps

\* An open of i ends.
LEMMA ReleasedKeeps ==
  ASSUME TableInv, NEW i \in Inodes, Becomes(Released(Table, i)), UNCHANGED <<next, known>>,
         HandlesOK(files', dirs'),
         Cardinality(Opens(files, dirs, i)) = Cardinality(Opens(files', dirs', i)) + 1,
         \A j : j # i => Opens(files', dirs', j) = Opens(files, dirs, j)
  PROVE  TableInv'
<1>. DEFINE o == nodes[i].opens - 1
<1>1. HandlesOK(files, dirs) /\ known \in [Inodes -> Nat]
  BY DEF TableInv, Reached
<1>2. /\ Cardinality(Opens(files', dirs', i)) \in Nat
      /\ Opens(files, dirs, i) # {}
  BY <1>1, OpensFinite
<1>3. i \in DOMAIN nodes
  BY <1>2 DEF TableInv, Counts
<1>4. /\ nodes[i].lookups \in Nat /\ nodes[i].lookups = known[i]
      /\ o \in Nat /\ nodes[i].opens > 0 /\ Cardinality(Opens(files', dirs', i)) = o
  BY <1>2, <1>3, NodeCounts
<1>5. Released(Table, i)
        = Collect([nodes |-> Edited(nodes, i, nodes[i].lookups, o), paths |-> paths], i)
  <2>1. [Table EXCEPT !.nodes[i].opens = IF @ > 0 THEN @ - 1 ELSE 0]
          = [Table EXCEPT !.nodes[i].opens = o]
    BY <1>4 DEF Table
  <2>2. Released(Table, i) = Collect([Table EXCEPT !.nodes[i].opens = o], i)
    BY <1>3, <2>1 DEF Released, Table
  <2>3. QED
    BY <1>3, <1>4, <2>2, NodeEdits
<1>6. LET u == Collect([nodes |-> Edited(nodes, i, nodes[i].lookups, o), paths |-> paths], i)
      IN  nodes' = u.nodes /\ paths' = u.paths
  BY <1>5 DEF Becomes
<1>. HIDE DEF o
<1>7. QED
  BY <1>1, <1>3, <1>4, <1>6, EditKeeps

LEMMA ReleaseKeeps ==
  ASSUME TableInv, NEW h, Release(h)
  PROVE  TableInv'
<1>1. /\ h \in DOMAIN files /\ files' = Without(files, h) /\ dirs' = dirs
      /\ UNCHANGED <<next, known>> /\ Becomes(Released(Table, files[h]))
  BY DEF Release
<1>2. HandlesOK(files, dirs)
  BY DEF TableInv, Reached
<1>3. files[h] \in Inodes
  BY <1>1, <1>2 DEF HandlesOK
<1>4. /\ HandlesOK(files', dirs')
      /\ Cardinality(Opens(files, dirs, files[h])) = Cardinality(Opens(files', dirs', files[h])) + 1
      /\ \A j : j # files[h] => Opens(files', dirs', j) = Opens(files, dirs, j)
  BY <1>1, <1>2, ClosedFile
<1>5. QED
  BY <1>1, <1>3, <1>4, ReleasedKeeps

LEMMA ReleaseDirKeeps ==
  ASSUME TableInv, NEW h, ReleaseDir(h)
  PROVE  TableInv'
<1>. DEFINE i == dirs[h].ino
<1>1. /\ h \in DOMAIN dirs /\ dirs' = Without(dirs, h) /\ files' = files
      /\ UNCHANGED <<next, known>> /\ Becomes(Released(Table, i))
  BY DEF ReleaseDir
<1>2. HandlesOK(files, dirs)
  BY DEF TableInv, Reached
<1>3. i \in Inodes
  BY <1>1, <1>2 DEF HandlesOK, DirShape
<1>4. /\ HandlesOK(files', dirs')
      /\ Cardinality(Opens(files, dirs, i)) = Cardinality(Opens(files', dirs', i)) + 1
      /\ \A j : j # i => Opens(files', dirs', j) = Opens(files, dirs, j)
  BY <1>1, <1>2, ClosedDir
<1>. HIDE DEF i
<1>5. QED
  BY <1>1, <1>3, <1>4, ReleasedKeeps

LEMMA ForgetKeeps ==
  ASSUME TableInv, NEW i \in Inodes, NEW count \in 1 .. known[i], Forget(i, count)
  PROVE  TableInv'
<1>. DEFINE l == known[i] - count
<1>1. /\ known' = [known EXCEPT ![i] = l] /\ Becomes(Forgotten(Table, i, count))
      /\ UNCHANGED <<next, dirs, files>>
  BY DEF Forget
<1>2. HandlesOK(files, dirs) /\ known \in [Inodes -> Nat]
  BY DEF TableInv, Reached
<1>3. known[i] \in Nat /\ count \in Nat /\ count > 0 /\ count <= known[i] /\ l \in Nat
  BY <1>2
<1>4. i \in DOMAIN nodes
  BY <1>3 DEF TableInv, Counts
<1>5. /\ nodes[i].lookups = known[i] /\ nodes[i].opens \in Nat
      /\ nodes[i].opens = Cardinality(Opens(files, dirs, i))
  BY <1>4, NodeCounts
<1>6. Forgotten(Table, i, count)
        = Collect([nodes |-> Edited(nodes, i, l, nodes[i].opens), paths |-> paths], i)
  <2>1. (IF nodes[i].lookups > count THEN nodes[i].lookups - count ELSE 0) = l
    BY <1>3, <1>5
  <2>2. [Table EXCEPT !.nodes[i].lookups = IF @ > count THEN @ - count ELSE 0]
          = [Table EXCEPT !.nodes[i].lookups = l]
    BY <2>1 DEF Table
  <2>3. Forgotten(Table, i, count) = Collect([Table EXCEPT !.nodes[i].lookups = l], i)
    BY <1>4, <2>2 DEF Forgotten, Table
  <2>4. QED
    BY <1>3, <1>4, <1>5, <2>3, NodeEdits
<1>7. LET u == Collect([nodes |-> Edited(nodes, i, l, nodes[i].opens), paths |-> paths], i)
      IN  nodes' = u.nodes /\ paths' = u.paths
  BY <1>1, <1>6 DEF Becomes
<1>8. /\ known' \in [Inodes -> Nat] /\ known'[i] = l
      /\ \A j \in Inodes : j # i => known'[j] = known[j]
  BY <1>1, <1>2, <1>3
<1>9. /\ HandlesOK(files', dirs') /\ Cardinality(Opens(files', dirs', i)) = nodes[i].opens
      /\ \A j : Opens(files', dirs', j) = Opens(files, dirs, j)
  BY <1>1, <1>2, <1>5
<1>. HIDE DEF l
<1>10. QED
  BY <1>1, <1>3, <1>4, <1>5, <1>7, <1>8, <1>9, EditKeeps

\* State::lookup finds the node of the path or makes one; create opens it too.
LEMMA LookedUpKeeps ==
  ASSUME TableInv, NEW p \in Seq(Names), NEW opens \in {0, 1}, LookedUp(p, opens),
         HandlesOK(files', dirs'),
         LET id == IF p \in DOMAIN paths THEN paths[p] ELSE next + 1
         IN  /\ Cardinality(Opens(files', dirs', id)) = Cardinality(Opens(files, dirs, id)) + opens
             /\ \A j : j # id => Opens(files', dirs', j) = Opens(files, dirs, j)
  PROVE  TableInv'
<1>0. /\ SoundTable(nodes, paths) /\ HandlesOK(files, dirs) /\ known \in [Inodes -> Nat]
      /\ next \in Inodes /\ DOMAIN nodes \subseteq 1 .. next
  BY DEF TableInv, Reached
<1>9. \A k \in DOMAIN nodes : \A x \in Nat, y \in Nat :
        EditBoth(k, x, y) = [nodes |-> Edited(nodes, k, x, y), paths |-> paths]
  BY BothEdits
<1>1. CASE p \in DOMAIN paths
  <2>. DEFINE i == paths[p]
              l == nodes[i].lookups + 1
              o == nodes[i].opens + opens
  <2>1. i \in DOMAIN nodes
    BY <1>0, <1>1 DEF SoundTable
  <2>2. /\ i \in Inodes /\ l \in Nat /\ o \in Nat /\ l + o > 0
        /\ nodes[i].lookups = known[i]
        /\ nodes[i].opens = Cardinality(Opens(files, dirs, i))
    <3>1. /\ i \in Inodes /\ nodes[i].lookups \in Nat /\ nodes[i].opens \in Nat
          /\ nodes[i].lookups = known[i]
          /\ nodes[i].opens = Cardinality(Opens(files, dirs, i))
      BY <2>1, NodeCounts
    <3>2. QED
      BY <3>1
  <2>3. /\ Becomes([Table EXCEPT !.nodes[i].lookups = @ + 1, !.nodes[i].opens = @ + opens])
        /\ known' = [known EXCEPT ![i] = @ + 1] /\ next' = next
    BY <1>1 DEF LookedUp
  <2>4. [Table EXCEPT !.nodes[i].lookups = @ + 1, !.nodes[i].opens = @ + opens]
          = [nodes |-> Edited(nodes, i, l, o), paths |-> paths]
    <3>1. nodes[i] \in NodeShape
      BY <1>0, <2>1 DEF SoundTable
    <3>2. [Table EXCEPT !.nodes[i].lookups = @ + 1, !.nodes[i].opens = @ + opens]
            = [Table EXCEPT !.nodes[i].lookups = l, !.nodes[i].opens = o]
      BY <2>1, <3>1 DEF Table, NodeShape
    <3>3. [Table EXCEPT !.nodes[i].lookups = l, !.nodes[i].opens = o]
            = [nodes |-> Edited(nodes, i, l, o), paths |-> paths]
      <4>. HIDE DEF i, l, o
      <4>1. i \in DOMAIN nodes /\ l \in Nat /\ o \in Nat
        BY <2>1, <2>2
      <4>2. EditBoth(i, l, o) = [nodes |-> Edited(nodes, i, l, o), paths |-> paths]
        BY <1>9, <4>1
      <4>3. QED
        BY <4>2 DEF EditBoth
    <3>4. QED
      BY <3>2, <3>3
  <2>5. nodes' = Edited(nodes, i, l, o) /\ paths' = paths
    BY <2>3, <2>4 DEF Becomes
  <2>6. /\ known' \in [Inodes -> Nat] /\ known'[i] = l
        /\ \A j \in Inodes : j # i => known'[j] = known[j]
    BY <1>0, <2>2, <2>3
  <2>7. /\ Cardinality(Opens(files', dirs', i)) = o
        /\ \A j : j # i => Opens(files', dirs', j) = Opens(files, dirs, j)
    BY <1>1, <2>2
  <2>. HIDE DEF i, l, o
  <2>8. QED
    BY <2>1, <2>2, <2>3, <2>5, <2>6, <2>7, GrowKeeps
<1>2. CASE p \notin DOMAIN paths
  <2>. DEFINE i == next + 1
              d == [path |-> p, lookups |-> 1, opens |-> opens]
  <2>1. /\ next < MaxNode /\ next' = i /\ known' = [known EXCEPT ![i] = @ + 1]
        /\ nodes' = With(nodes, i, d) /\ paths' = With(paths, p, i)
    BY <1>2 DEF LookedUp, Becomes
  <2>2. i \in Inodes /\ i \notin DOMAIN nodes /\ 1 .. next \subseteq 1 .. i
    BY <1>0, <2>1, InodeAssumption DEF Inodes
  <2>3. known[i] = 0 /\ Opens(files, dirs, i) = {}
    BY <2>2 DEF TableInv, Counts
  <2>4. /\ Cardinality(Opens(files', dirs', i)) = opens
        /\ \A j : j # i => Opens(files', dirs', j) = Opens(files, dirs, j)
    <3>1. Cardinality(Opens(files, dirs, i)) = 0
      BY <2>3, FS_EmptySet
    <3>2. /\ Cardinality(Opens(files', dirs', i)) = Cardinality(Opens(files, dirs, i)) + opens
          /\ \A j : j # i => Opens(files', dirs', j) = Opens(files, dirs, j)
      BY <1>2
    <3>3. QED
      BY <3>1, <3>2
  <2>5. d \in NodeShape /\ d.lookups = 1 /\ d.opens = opens /\ d.path = p
    BY DEF NodeShape
  <2>. HIDE DEF d
  <2>6. /\ DOMAIN nodes' = DOMAIN nodes \cup {i} /\ nodes'[i] = d
        /\ \A j \in DOMAIN nodes : nodes'[j] = nodes[j]
        /\ nodes' \in [DOMAIN nodes' -> NodeShape]
    BY <1>0, <2>1, <2>2, <2>5 DEF With, SoundTable
  <2>7. /\ DOMAIN paths' = DOMAIN paths \cup {p} /\ paths'[p] = i
        /\ \A q \in DOMAIN paths : paths'[q] = paths[q]
    BY <1>2, <2>1 DEF With
  <2>8. SoundTable(nodes', paths')
    BY <1>0, <2>5, <2>6, <2>7 DEF SoundTable
  <2>9. /\ known' \in [Inodes -> Nat] /\ known'[i] = 1
        /\ \A j \in Inodes : j # i => known'[j] = known[j]
    BY <1>0, <2>1, <2>2, <2>3
  <2>10. Counts(nodes', known', files', dirs')
    <3>1. SUFFICES ASSUME NEW j \in Inodes
                   PROVE  IF j \in DOMAIN nodes'
                            THEN /\ nodes'[j].lookups = known'[j]
                                 /\ nodes'[j].opens = Cardinality(Opens(files', dirs', j))
                            ELSE known'[j] = 0 /\ Opens(files', dirs', j) = {}
      BY DEF Counts
    <3>2. CASE j = i
      BY <2>4, <2>5, <2>6, <2>9, <3>2
    <3>3. CASE j # i
      BY <2>4, <2>6, <2>9, <3>3 DEF TableInv, Counts
    <3>4. QED
      BY <3>2, <3>3
  <2>11. InUseBut(nodes', {Root})
    BY <2>5, <2>6 DEF TableInv, InUseBut
  <2>12. next' \in Inodes /\ DOMAIN nodes' \subseteq 1 .. next'
    BY <1>0, <2>1, <2>2, <2>6 DEF Inodes
  <2>13. QED
    BY <2>8, <2>9, <2>10, <2>11, <2>12 DEF TableInv, Reached
<1>3. QED
  BY <1>1, <1>2

\* Lookup and mkdir.
LEMMA FoundKeeps ==
  ASSUME TableInv, NEW p \in Seq(Names), LookedUp(p, 0), UNCHANGED <<dirs, files>>
  PROVE  TableInv'
<1>1. HandlesOK(files, dirs)
  BY DEF TableInv, Reached
<1>2. \A i : Cardinality(Opens(files, dirs, i)) = Cardinality(Opens(files, dirs, i)) + 0
  BY <1>1, OpensFinite
<1>3. QED
  BY <1>1, <1>2, LookedUpKeeps

LEMMA CreateKeeps ==
  ASSUME TableInv, NEW parent, NEW p \in Paths, NEW h, Create(parent, p, h)
  PROVE  TableInv'
<1>. DEFINE i == IF p \in DOMAIN paths THEN paths[p] ELSE next + 1
<1>1. /\ h \notin DOMAIN files \cup DOMAIN dirs /\ LookedUp(p, 1) /\ dirs' = dirs
      /\ files' = With(files, h, IF p \in DOMAIN paths THEN paths[p] ELSE next')
  BY DEF Create, Unused, InUse
<1>2. files' = With(files, h, i) /\ (p \notin DOMAIN paths => next < MaxNode)
  BY <1>1 DEF LookedUp
<1>3. /\ HandlesOK(files, dirs) /\ next \in Inodes
      /\ SoundTable(nodes, paths) /\ DOMAIN nodes \subseteq Inodes
  BY InodesAreNumbers DEF TableInv, Reached
<1>4. i \in Inodes
  <2>1. CASE p \in DOMAIN paths
    BY <1>3, <2>1 DEF SoundTable
  <2>2. CASE p \notin DOMAIN paths
    BY <1>2, <1>3, <2>2, InodeAssumption DEF Inodes
  <2>3. QED
    BY <2>1, <2>2
<1>5. p \in Seq(Names)
  BY PathsAreSequences
<1>6. /\ HandlesOK(files', dirs')
      /\ Cardinality(Opens(files', dirs', i)) = Cardinality(Opens(files, dirs, i)) + 1
      /\ \A j : j # i => Opens(files', dirs', j) = Opens(files, dirs, j)
  <2>. HIDE DEF i
  <2>1. QED
    BY <1>1, <1>2, <1>3, <1>4, OpenedFile
<1>7. QED
  BY <1>1, <1>5, <1>6, LookedUpKeeps

\* unlink and rmdir.
LEMMA RemoveKeeps ==
  ASSUME TableInv, NEW parent, NEW p, Remove(parent, p)
  PROVE  TableInv'
<1>. DEFINE r == RetirePath(Table, p)
<1>1. nodes' = r.nodes /\ paths' = r.paths /\ UNCHANGED <<next, dirs, files, known>>
  BY DEF Remove, Becomes
<1>2. Table.nodes = nodes /\ Table.paths = paths
  BY DEF Table
<1>3. SoundTable(nodes', paths') /\ SameCounts(nodes, nodes')
  BY <1>1, <1>2, RetireKeeps DEF TableInv, Reached
<1>4. Counts(nodes', known, files, dirs) /\ InUseBut(nodes', {Root})
  BY <1>3, SameCountsKeep DEF TableInv
<1>5. QED
  BY <1>1, <1>3, <1>4 DEF TableInv, Reached, SameCounts

\* Open directories move with what is renamed, and stay those of their inodes.
LEMMA MovedDirsOK ==
  ASSUME NEW from, NEW to, HandlesOK(files, dirs),
         \A h \in DOMAIN dirs :
           Under(from, dirs[h].path) => Rebase(dirs[h].path, from, to) \in Seq(Names)
  PROVE  /\ HandlesOK(files, MovedDirs(from, to))
         /\ \A i : Opens(files, MovedDirs(from, to), i) = Opens(files, dirs, i)
<1>. DEFINE m == MovedDirs(from, to)
<1>1. /\ DOMAIN m = DOMAIN dirs
      /\ \A h \in DOMAIN dirs :
           m[h] = IF Under(from, dirs[h].path)
                    THEN [dirs[h] EXCEPT !.path = Rebase(@, from, to)] ELSE dirs[h]
      /\ m = [h \in DOMAIN dirs |-> m[h]]
  BY DEF MovedDirs
<1>2. ASSUME NEW h \in DOMAIN dirs
      PROVE  m[h] \in DirShape /\ m[h].ino = dirs[h].ino
  <2>1. dirs[h] \in DirShape
    BY DEF HandlesOK
  <2>2. CASE Under(from, dirs[h].path)
    <3>1. m[h] = [dirs[h] EXCEPT !.path = Rebase(dirs[h].path, from, to)]
      BY <1>1, <2>2
    <3>2. Rebase(dirs[h].path, from, to) \in Seq(Names)
      BY <2>2
    <3>3. QED
      BY <2>1, <3>1, <3>2, DirPath
  <2>3. CASE ~Under(from, dirs[h].path)
    BY <1>1, <2>1, <2>3
  <2>4. QED
    BY <2>2, <2>3
<1>. HIDE DEF m
<1>3. m \in [DOMAIN m -> DirShape]
  BY <1>1, <1>2
<1>4. HandlesOK(files, m)
  BY <1>1, <1>3 DEF HandlesOK
<1>5. \A i : Opens(files, m, i) = Opens(files, dirs, i)
  BY <1>1, <1>2 DEF Opens
<1>6. QED
  BY <1>4, <1>5 DEF m

LEMMA RenameKeeps ==
  ASSUME TableInv, NEW parent, NEW from \in Paths, NEW newparent, NEW to \in Paths,
         Rename(parent, from, newparent, to)
  PROVE  TableInv'
<1>. DEFINE r == RetirePath(Table, to)
            m == MovePaths(r, from, to)
<1>1. /\ nodes' = m.nodes /\ paths' = m.paths /\ dirs' = MovedDirs(from, to)
      /\ UNCHANGED <<next, files, known>>
  BY DEF Rename, Becomes
<1>2. /\ \A q \in DOMAIN paths : Under(from, q) => Rebase(q, from, to) \in Seq(Names)
      /\ \A h \in DOMAIN dirs :
           Under(from, dirs[h].path) => Rebase(dirs[h].path, from, to) \in Seq(Names)
  BY PathsAreSequences DEF Rename
<1>3. Table.nodes = nodes /\ Table.paths = paths
  BY DEF Table
<1>4. /\ SoundTable(r.nodes, r.paths) /\ SameCounts(nodes, r.nodes)
      /\ DOMAIN r.paths \subseteq DOMAIN paths
  BY <1>3, RetireKeeps DEF TableInv, Reached
<1>5. from \in Seq(Names) /\ to \in Seq(Names)
  BY PathsAreSequences
<1>. HIDE DEF r
<1>6. SoundTable(nodes', paths') /\ SameCounts(r.nodes, nodes')
  <2>1. \A q \in DOMAIN r.paths : Under(from, q) => Rebase(q, from, to) \in Seq(Names)
    BY <1>2, <1>4
  <2>2. QED
    BY <1>1, <1>4, <1>5, <2>1, MoveKeeps
<1>7. SameCounts(nodes, nodes')
  BY <1>4, <1>6 DEF SameCounts
<1>8. /\ HandlesOK(files', dirs')
      /\ \A i : Opens(files', dirs', i) = Opens(files, dirs, i)
  BY <1>1, <1>2, MovedDirsOK DEF TableInv, Reached
<1>9. Counts(nodes', known', files', dirs')
  <2>1. Counts(nodes', known, files, dirs)
    BY <1>7, SameCountsKeep DEF TableInv
  <2>2. QED
    BY <1>1, <1>8, <2>1 DEF Counts
<1>10. InUseBut(nodes', {Root})
  BY <1>7, SameCountsKeep DEF TableInv
<1>11. QED
  BY <1>1, <1>6, <1>7, <1>8, <1>9, <1>10 DEF TableInv, Reached, SameCounts

LEMMA TableInvNext == TableInv /\ [Next]_vars => TableInv'
<1>. SUFFICES ASSUME TableInv, [Next]_vars PROVE TableInv'
  OBVIOUS
<1>1. ASSUME UNCHANGED <<tableVars, known>> PROVE TableInv'
  BY <1>1 DEF tableVars, TableInv, Reached
<1>2. ASSUME NEW i, NEW p \in ChildOf(i),
             Lookup(i, p) \/ Mkdir(i, p) \/ MadeInVain(i, p) \/ Remove(i, p)
      PROVE  TableInv'
  <2>1. p \in Seq(Names)
    BY PathsAreSequences DEF ChildOf
  <2>2. ASSUME Lookup(i, p) \/ Mkdir(i, p) PROVE TableInv'
    BY <2>1, <2>2, FoundKeeps DEF Lookup, Mkdir
  <2>3. ASSUME MadeInVain(i, p) PROVE TableInv'
    BY <1>1, <2>3 DEF MadeInVain
  <2>4. QED
    BY <1>2, <2>2, <2>3, RemoveKeeps
<1>3. ASSUME NEW i, NEW p \in ChildOf(i), NEW h, Create(i, p, h)
      PROVE  TableInv'
  BY <1>3, CreateKeeps DEF ChildOf
<1>4. ASSUME NEW i, NEW p \in ChildOf(i), NEW j, NEW q \in ChildOf(j), Rename(i, p, j, q)
      PROVE  TableInv'
  BY <1>4, RenameKeeps DEF ChildOf
<1>5. ASSUME NEW i \in Inodes, NEW count \in 1 .. known[i], Forget(i, count)
      PROVE  TableInv'
  BY <1>5, ForgetKeeps
<1>6. ASSUME NEW i, NEW h, OpenFile(i, h) \/ OpenDir(i, h) \/ Release(h) \/ ReleaseDir(h)
      PROVE  TableInv'
  BY <1>6, OpenFileKeeps, OpenDirKeeps, ReleaseKeeps, ReleaseDirKeeps
<1>7. CASE OthersEdit \/ UNCHANGED vars
  BY <1>1, <1>7 DEF OthersEdit, vars
<1>8. QED
  BY <1>2, <1>3, <1>4, <1>5, <1>6, <1>7 DEF Next

\* The invariant of State's table (lookup, forget, retire_path, collect, release
\* and the loop of rename) holds.
THEOREM TableInvAlways == Spec => []TableInv
BY TableInvInit, TableInvNext, PTL DEF Spec

(***************************************************************************)
(* Theorems.                                                               *)
(***************************************************************************)
\* A path of State.paths leads to a node that has this path, whatever the kernel
\* and other clients do: lookup never meets ESTALE, and a rename moves no node
\* but those at and below what is renamed.
THEOREM PathsAlwaysSound == Spec => []PathsSound
<1>1. TableInv => PathsSound
  BY DEF TableInv, Reached, SoundTable, PathsSound
<1>2. QED
  BY <1>1, TableInvAlways, PTL

\* State.nodes holds exactly the inodes the kernel refers to or has open, with
\* its counts (lookup, forget, open, release, collect).
THEOREM KernelAlwaysServed == Spec => []KernelServed
<1>1. ASSUME TableInv, NEW i \in Inodes \ {Root}
      PROVE  /\ i \in DOMAIN nodes <=> known[i] > 0 \/ Opens(files, dirs, i) # {}
             /\ i \in DOMAIN nodes => nodes[i].lookups = known[i]
  <2>1. known[i] \in Nat /\ HandlesOK(files, dirs)
    BY <1>1 DEF TableInv, Reached
  <2>2. CASE i \in DOMAIN nodes
    <3>1. /\ nodes[i].lookups = known[i] /\ nodes[i].lookups \in Nat /\ nodes[i].opens \in Nat
          /\ nodes[i].opens = Cardinality(Opens(files, dirs, i))
      BY <1>1, <2>2, NodeCounts
    <3>2. nodes[i].lookups + nodes[i].opens > 0
      BY <1>1, <2>2 DEF TableInv, InUseBut
    <3>3. nodes[i].opens = 0 <=> Opens(files, dirs, i) = {}
      BY <2>1, <3>1, OpensFinite
    <3>4. QED
      BY <2>2, <3>1, <3>2, <3>3
  <2>3. CASE i \notin DOMAIN nodes
    BY <1>1, <2>1, <2>3 DEF TableInv, Counts
  <2>4. QED
    BY <2>2, <2>3
<1>2. TableInv => KernelServed
  BY <1>1 DEF KernelServed, Opens
<1>3. QED
  BY <1>2, TableInvAlways, PTL

(***************************************************************************)
(* While nobody else edits the tree: a second inductive invariant, which   *)
(* rests on the first.                                                     *)
(***************************************************************************)
\* A node that has a path is the one this path leads to.
Complete(ns, ps) ==
  \A i \in DOMAIN ns : ns[i].path # None => ns[i].path \in DOMAIN ps /\ ps[ns[i].path] = i

InPaths(ns, ps) ==
  /\ DOMAIN ps \subseteq Paths
  /\ \A i \in DOMAIN ns : ns[i].path \in Paths \cup {None}

\* Every entry on the server is in a directory.
Tree ==
  /\ remote \in [Paths -> Entries \cup {None}]
  /\ \A p \in Paths : remote[p] # None => p # <<>> /\ IsA("directory", Parent(p))

\* The root keeps its place, and what a node names is there.
Faithful ==
  /\ DOMAIN meant = DOMAIN nodes
  /\ Root \in DOMAIN nodes /\ nodes[Root].path = <<>>
  /\ \A i \in DOMAIN nodes \ {Root} :
       /\ meant[i] # None
       /\ nodes[i].path # None => remote[nodes[i].path] = meant[i]

DirsMatch ==
  \A h \in DOMAIN dirs : nodes[dirs[h].ino].path \in {None, dirs[h].path}

Alone == /\ Complete(nodes, paths) /\ InPaths(nodes, paths)
         /\ Tree /\ Faithful /\ DirsMatch

AloneInv == ~shared => Alone

(***************************************************************************)
(* Paths by their elements.                                                *)
(***************************************************************************)
LEMMA PathsAre ==
  ASSUME NEW p \in Seq(Names)
  PROVE  /\ Len(p) \in Nat /\ (Len(p) = 0 <=> p = <<>>)
         /\ p \in Paths <=> Len(p) <= 2
<1>1. Len(p) \in Nat /\ p \in [1 .. Len(p) -> Names] /\ DOMAIN p = 1 .. Len(p)
  BY LenProperties
<1>2. Len(p) = 0 <=> p = <<>>
  BY EmptySeq
<1>3. Len(p) <= 2 => p \in Paths
  BY <1>1 DEF Paths
<1>4. ASSUME p \in Paths PROVE Len(p) <= 2
  <2>1. PICK n \in 0 .. 2 : p \in [1 .. n -> Names]
    BY <1>4 DEF Paths
  <2>2. 1 .. n = 1 .. Len(p)
    BY <1>1, <2>1
  <2>3. ASSUME Len(p) > 2 PROVE FALSE
    <3>1. Len(p) \in 1 .. Len(p)
      BY <1>1, <2>3
    <3>2. Len(p) \in 1 .. n
      BY <2>2, <3>1
    <3> QED BY <2>3, <3>2
  <2> QED BY <1>1, <2>3
<1> QED BY <1>1, <1>2, <1>3, <1>4

LEMMA UnderAre ==
  ASSUME NEW a \in Seq(Names), NEW p \in Seq(Names)
  PROVE  Under(a, p) <=> Len(a) <= Len(p) /\ \A k \in 1 .. Len(a) : p[k] = a[k]
<1>1. Len(a) \in Nat /\ Len(p) \in Nat
  BY LenProperties
<1>2. ASSUME Len(a) <= Len(p)
      PROVE  /\ SubSeq(p, 1, Len(a)) \in Seq(Names) /\ Len(SubSeq(p, 1, Len(a))) = Len(a)
             /\ \A k \in 1 .. Len(a) : SubSeq(p, 1, Len(a))[k] = p[k]
  <2>1. \A k \in 1 .. Len(a) : p[k] \in Names
    BY <1>1, <1>2, ElementOfSeq
  <2>2. /\ SubSeq(p, 1, Len(a)) \in Seq(Names)
        /\ Len(SubSeq(p, 1, Len(a))) = IF 1 <= Len(a) THEN Len(a) - 1 + 1 ELSE 0
        /\ \A k \in 1 .. Len(a) - 1 + 1 : SubSeq(p, 1, Len(a))[k] = p[1 + k - 1]
    BY <1>1, <2>1, SubSeqProperties
  <2> QED BY <1>1, <2>2
<1> QED BY <1>1, <1>2, SeqEqual DEF Under

LEMMA RebaseAre ==
  ASSUME NEW p \in Seq(Names), NEW from \in Seq(Names), NEW to \in Seq(Names),
         Under(from, p)
  PROVE  LET r == Rebase(p, from, to)
         IN  /\ r \in Seq(Names) /\ Len(r) = Len(to) + Len(p) - Len(from)
             /\ \A k \in 1 .. Len(to) : r[k] = to[k]
             /\ \A k \in Len(to) + 1 .. Len(r) : r[k] = p[k - Len(to) + Len(from)]
             /\ Under(to, r)
<1>. DEFINE rest == SubSeq(p, Len(from) + 1, Len(p))
            r    == to \o rest
<1>1. /\ Len(from) \in Nat /\ Len(p) \in Nat /\ Len(to) \in Nat /\ Len(from) <= Len(p)
  BY LenProperties DEF Under
<1>2. /\ rest \in Seq(Names) /\ Len(rest) = Len(p) - Len(from)
      /\ \A k \in 1 .. Len(p) - Len(from) : rest[k] = p[Len(from) + k]
  <2>1. \A k \in Len(from) + 1 .. Len(p) : p[k] \in Names
    BY <1>1, ElementOfSeq
  <2>2. /\ rest \in Seq(Names)
        /\ Len(rest) = IF Len(from) + 1 <= Len(p) THEN Len(p) - (Len(from) + 1) + 1 ELSE 0
        /\ \A k \in 1 .. Len(p) - (Len(from) + 1) + 1 : rest[k] = p[Len(from) + 1 + k - 1]
    BY <1>1, <2>1, SubSeqProperties
  <2>. HIDE DEF rest
  <2> QED BY <1>1, <2>2
<1>. HIDE DEF rest
<1>3. /\ r \in Seq(Names) /\ Len(r) = Len(to) + Len(rest)
      /\ \A k \in 1 .. Len(to) + Len(rest) :
           r[k] = IF k <= Len(to) THEN to[k] ELSE rest[k - Len(to)]
  BY <1>2, ConcatProperties
<1>. HIDE DEF r
<1>4. \A k \in Len(to) + 1 .. Len(r) : r[k] = p[k - Len(to) + Len(from)]
  <2> SUFFICES ASSUME NEW k \in Len(to) + 1 .. Len(r)
               PROVE  r[k] = p[k - Len(to) + Len(from)]
    OBVIOUS
  <2>1. k \in 1 .. Len(to) + Len(rest) /\ ~(k <= Len(to))
    BY <1>1, <1>2, <1>3
  <2>2. k - Len(to) \in 1 .. Len(p) - Len(from)
    BY <1>1, <1>2, <1>3
  <2>3. rest[k - Len(to)] = p[Len(from) + (k - Len(to))]
    BY <1>2, <2>2
  <2>4. Len(from) + (k - Len(to)) = k - Len(to) + Len(from)
    BY <1>1
  <2> QED BY <1>3, <2>1, <2>3, <2>4
<1>5. \A k \in 1 .. Len(to) : r[k] = to[k]
  BY <1>1, <1>2, <1>3
<1>6. Under(to, r)
  <2>1. r \in Seq(Names) /\ Len(to) <= Len(r)
    BY <1>1, <1>2, <1>3
  <2> QED BY <1>5, <2>1, UnderAre
<1>7. Len(r) = Len(to) + Len(p) - Len(from)
  BY <1>1, <1>2, <1>3
<1> QED BY <1>3, <1>4, <1>5, <1>6, <1>7 DEF r, rest, Rebase

LEMMA ParentAre ==
  ASSUME NEW p \in Seq(Names), p # <<>>
  PROVE  /\ Parent(p) \in Seq(Names) /\ Len(Parent(p)) = Len(p) - 1
         /\ \A k \in 1 .. Len(p) - 1 : Parent(p)[k] = p[k]
<1>1. Len(p) \in Nat \ {0}
  BY EmptySeq
<1>2. \A k \in 1 .. Len(p) - 1 : p[k] \in Names
  BY <1>1, ElementOfSeq
<1>3. /\ SubSeq(p, 1, Len(p) - 1) \in Seq(Names)
      /\ Len(SubSeq(p, 1, Len(p) - 1)) = IF 1 <= Len(p) - 1 THEN Len(p) - 1 - 1 + 1 ELSE 0
      /\ \A k \in 1 .. Len(p) - 1 - 1 + 1 : SubSeq(p, 1, Len(p) - 1)[k] = p[1 + k - 1]
  BY <1>1, <1>2, SubSeqProperties
<1>4. /\ Len(SubSeq(p, 1, Len(p) - 1)) = Len(p) - 1
      /\ \A k \in 1 .. Len(p) - 1 : SubSeq(p, 1, Len(p) - 1)[k] = p[k]
  <2>. DEFINE s == SubSeq(p, 1, Len(p) - 1)
  <2>. HIDE DEF s
  <2>1. /\ Len(s) = IF 1 <= Len(p) - 1 THEN Len(p) - 1 - 1 + 1 ELSE 0
        /\ \A k \in 1 .. Len(p) - 1 - 1 + 1 : s[k] = p[1 + k - 1]
    BY <1>3 DEF s
  <2>2. Len(s) = Len(p) - 1
    <3>1. \A n \in Nat \ {0} : (IF 1 <= n - 1 THEN n - 1 - 1 + 1 ELSE 0) = n - 1
      OBVIOUS
    <3>2. (IF 1 <= Len(p) - 1 THEN Len(p) - 1 - 1 + 1 ELSE 0) = Len(p) - 1
      BY <1>1, <3>1
    <3> QED BY <2>1, <3>2
  <2>3. ASSUME NEW k \in 1 .. Len(p) - 1 PROVE s[k] = p[k]
    <3>1. k \in 1 .. Len(p) - 1 - 1 + 1 /\ 1 + k - 1 = k
      BY <1>1
    <3> QED BY <2>1, <3>1
  <2> QED BY <2>2, <2>3 DEF s
<1> QED BY <1>3, <1>4 DEF Parent

\* What a path is under, and its parent.
LEMMA UnderFacts ==
  ASSUME NEW a \in Seq(Names), NEW b \in Seq(Names), NEW p \in Seq(Names)
  PROVE  /\ Under(p, p) /\ Under(<<>>, p)
         /\ Under(a, b) /\ Under(b, p) => Under(a, p)
         /\ Strictly(a, p) => Len(a) < Len(p) /\ p # <<>> /\ Under(a, Parent(p))
         /\ p # <<>> => Under(Parent(p), p) /\ ~Under(p, Parent(p))
         /\ Strictly(a, p) /\ Len(a) = Len(p) - 1 => a = Parent(p)
<1>1. Len(a) \in Nat /\ Len(b) \in Nat /\ Len(p) \in Nat
  BY LenProperties
<1>2. Under(p, p) /\ Under(<<>>, p)
  <2>1. <<>> \in Seq(Names) /\ Len(<<>>) = 0
    BY EmptySeq
  <2>2. Under(p, p)
    BY <1>1, UnderAre
  <2>3. Under(<<>>, p) <=> Len(<<>>) <= Len(p) /\ \A k \in 1 .. Len(<<>>) : p[k] = <<>>[k]
    BY <2>1, UnderAre
  <2>4. 1 .. Len(<<>>) = {} /\ Len(<<>>) <= Len(p)
    BY <1>1, <2>1
  <2> QED BY <2>2, <2>3, <2>4
<1>3. Under(a, b) /\ Under(b, p) => Under(a, p)
  BY <1>1, UnderAre
<1>4. ASSUME Strictly(a, p)
      PROVE  Len(a) < Len(p) /\ p # <<>> /\ Under(a, Parent(p))
  <2>1. Len(a) <= Len(p) /\ (\A k \in 1 .. Len(a) : p[k] = a[k]) /\ a # p
    BY <1>4, UnderAre DEF Strictly
  <2>2. Len(a) # Len(p)
    BY <2>1, SeqEqual
  <2>3. p # <<>>
    BY <1>1, <2>1, <2>2, EmptySeq
  <2>4. Parent(p) \in Seq(Names)
    BY <2>3, ParentAre
  <2>5. Under(a, Parent(p))
    BY <1>1, <2>1, <2>2, <2>3, <2>4, ParentAre, UnderAre
  <2> QED BY <1>1, <2>1, <2>2, <2>3, <2>5
<1>5. ASSUME p # <<>> PROVE Under(Parent(p), p) /\ ~Under(p, Parent(p))
  <2>1. Parent(p) \in Seq(Names)
    BY <1>5, ParentAre
  <2>2. /\ Len(Parent(p)) = Len(p) - 1 /\ Len(Parent(p)) \in Nat
        /\ \A k \in 1 .. Len(p) - 1 : Parent(p)[k] = p[k]
    BY <1>5, <2>1, ParentAre, LenProperties
  <2>3. Under(Parent(p), p)
    <3>1. \A k \in 1 .. Len(Parent(p)) : p[k] = Parent(p)[k]
      BY <2>2
    <3>2. Len(Parent(p)) <= Len(p)
      BY <1>1, <2>2
    <3> QED BY <2>1, <3>1, <3>2, UnderAre
  <2>4. ~Under(p, Parent(p))
    BY <1>1, <2>1, <2>2, UnderAre
  <2> QED BY <2>3, <2>4
<1>6. ASSUME Strictly(a, p), Len(a) = Len(p) - 1 PROVE a = Parent(p)
  <2>1. p # <<>> /\ \A k \in 1 .. Len(a) : p[k] = a[k]
    BY <1>4, <1>6, UnderAre DEF Strictly
  <2>2. \A k \in 1 .. Len(a) : a[k] = Parent(p)[k]
    BY <1>1, <1>6, <2>1, ParentAre
  <2> QED BY <1>6, <2>1, <2>2, ParentAre, SeqEqual
<1> QED BY <1>2, <1>3, <1>4, <1>5, <1>6

(***************************************************************************)
(* What the methods of State do to complete tables.                        *)
(***************************************************************************)
LEMMA NoneIsNoPath == None \notin Paths /\ None \notin Entries
BY NoneAssumption

LEMMA CollectAlone ==
  ASSUME NEW t, NEW id, Complete(t.nodes, t.paths), InPaths(t.nodes, t.paths)
  PROVE  LET c == Collect(t, id)
         IN  /\ Complete(c.nodes, c.paths) /\ InPaths(c.nodes, c.paths)
             /\ DOMAIN c.nodes \subseteq DOMAIN t.nodes
             /\ \A i \in DOMAIN c.nodes : c.nodes[i] = t.nodes[i]
             /\ Root \in DOMAIN t.nodes => Root \in DOMAIN c.nodes
<1>. DEFINE c == Collect(t, id)
<1>1. CASE id = Root \/ id \notin DOMAIN t.nodes \/ t.nodes[id].lookups + t.nodes[id].opens > 0
  <2>1. c = t
    BY <1>1 DEF Collect
  <2> QED BY <2>1
<1>2. CASE /\ id # Root /\ id \in DOMAIN t.nodes
           /\ ~(t.nodes[id].lookups + t.nodes[id].opens > 0)
  <2>1. c.nodes = Without(t.nodes, id) /\ c.paths = Without(t.paths, t.nodes[id].path)
    BY <1>2 DEF Collect
  <2>. HIDE DEF c
  <2>2. /\ DOMAIN c.nodes = DOMAIN t.nodes \ {id}
        /\ \A i \in DOMAIN c.nodes : c.nodes[i] = t.nodes[i]
        /\ DOMAIN c.paths = DOMAIN t.paths \ {t.nodes[id].path}
        /\ \A q \in DOMAIN c.paths : c.paths[q] = t.paths[q]
    BY <2>1 DEF Without
  <2>3. Complete(c.nodes, c.paths)
    BY <1>2, <2>2 DEF Complete
  <2>4. InPaths(c.nodes, c.paths)
    BY <2>2 DEF InPaths
  <2> QED BY <1>2, <2>2, <2>3, <2>4 DEF c
<1> QED BY <1>1, <1>2

LEMMA RetireAlone ==
  ASSUME NEW t, NEW p \in Paths, SoundTable(t.nodes, t.paths), InUseBut(t.nodes, {Root}),
         Complete(t.nodes, t.paths), InPaths(t.nodes, t.paths)
  PROVE  LET r == RetirePath(t, p)
         IN  /\ Complete(r.nodes, r.paths) /\ InPaths(r.nodes, r.paths)
             /\ DOMAIN r.nodes = DOMAIN t.nodes
             /\ \A i \in DOMAIN t.nodes :
                  r.nodes[i].path = IF t.nodes[i].path = p THEN None ELSE t.nodes[i].path
             /\ DOMAIN r.paths = DOMAIN t.paths \ {p}
<1>. DEFINE r  == RetirePath(t, p)
            id == t.paths[p]
            u  == [nodes |-> [t.nodes EXCEPT ![id].path = None], paths |-> Without(t.paths, p)]
<1>1. CASE p \notin DOMAIN t.paths
  <2>1. r = t
    BY <1>1 DEF RetirePath
  <2>2. \A i \in DOMAIN t.nodes : t.nodes[i].path # p
    BY <1>1, NoneIsNoPath DEF Complete
  <2> QED BY <1>1, <2>1, <2>2
<1>2. CASE p \in DOMAIN t.paths
  <2>1. /\ id \in DOMAIN t.nodes /\ t.nodes[id].path = p /\ r = Collect(u, id)
        /\ t.nodes[id] \in NodeShape
    BY <1>2 DEF RetirePath, SoundTable
  <2>2. /\ DOMAIN u.nodes = DOMAIN t.nodes
        /\ u.nodes[id] = [t.nodes[id] EXCEPT !.path = None]
        /\ \A i \in DOMAIN t.nodes : i # id => u.nodes[i] = t.nodes[i]
    BY <2>1
  <2>3. /\ u.nodes[id].path = None
        /\ u.nodes[id].lookups = t.nodes[id].lookups /\ u.nodes[id].opens = t.nodes[id].opens
    <3>. HIDE DEF u, id
    <3>1. LET n == [t.nodes[id] EXCEPT !.path = None]
          IN  n.path = None /\ n.lookups = t.nodes[id].lookups /\ n.opens = t.nodes[id].opens
      BY <2>1, NodePath
    <3> QED BY <2>2, <3>1
  <2>4. r = u
    BY <2>1, <2>2, <2>3 DEF Collect, InUseBut
  <2>5. /\ DOMAIN u.paths = DOMAIN t.paths \ {p}
        /\ \A q \in DOMAIN u.paths : u.paths[q] = t.paths[q]
    BY DEF Without
  <2>. HIDE DEF u, id, r
  <2>6. ASSUME NEW i \in DOMAIN t.nodes, i # id PROVE t.nodes[i].path # p
    BY <2>6, NoneIsNoPath DEF Complete, id
  <2>7. Complete(u.nodes, u.paths)
    <3> SUFFICES ASSUME NEW i \in DOMAIN t.nodes, u.nodes[i].path # None
                 PROVE  u.nodes[i].path \in DOMAIN u.paths /\ u.paths[u.nodes[i].path] = i
      BY <2>2 DEF Complete
    <3>1. i # id /\ u.nodes[i] = t.nodes[i]
      BY <2>2, <2>3
    <3>2. t.nodes[i].path \in DOMAIN t.paths /\ t.paths[t.nodes[i].path] = i
      BY <3>1 DEF Complete
    <3> QED BY <2>5, <2>6, <3>1, <3>2
  <2>8. InPaths(u.nodes, u.paths)
    BY <2>2, <2>3, <2>5 DEF InPaths
  <2> QED BY <2>1, <2>2, <2>3, <2>4, <2>5, <2>6, <2>7, <2>8 DEF r
<1> QED BY <1>1, <1>2

\* The nodes of a complete table move exactly if their paths do.
LEMMA MoveAlone ==
  ASSUME NEW t, NEW from \in Seq(Names), NEW to \in Seq(Names),
         SoundTable(t.nodes, t.paths), Complete(t.nodes, t.paths), InPaths(t.nodes, t.paths),
         \A q \in DOMAIN t.paths : Under(from, q) => Rebase(q, from, to) \in Paths,
         \A q \in DOMAIN t.paths : ~Under(to, q)
  PROVE  LET m == MovePaths(t, from, to)
         IN  /\ DOMAIN m.nodes = DOMAIN t.nodes
             /\ \A i \in DOMAIN t.nodes : LET q == t.nodes[i].path
                  IN m.nodes[i].path = IF q # None /\ Under(from, q) THEN Rebase(q, from, to)
                                                                    ELSE q
             /\ Complete(m.nodes, m.paths) /\ InPaths(m.nodes, m.paths)
<1>. DEFINE m       == MovePaths(t, from, to)
            moved   == {p \in DOMAIN t.paths : Under(from, p)}
            arrived == {Rebase(p, from, to) : p \in moved}
            Moves(i) == \E p \in moved : t.paths[p] = i
<1>1. /\ m.nodes = [i \in DOMAIN t.nodes |->
                      IF Moves(i)
                        THEN [t.nodes[i] EXCEPT !.path =
                                Rebase(CHOOSE p \in moved : t.paths[p] = i, from, to)]
                        ELSE t.nodes[i]]
      /\ m.paths = [p \in (DOMAIN t.paths \ moved) \cup arrived |->
                      IF p \in arrived THEN t.paths[Rebase(p, to, from)] ELSE t.paths[p]]
  BY DEF MovePaths
<1>2. /\ \A p \in DOMAIN t.paths : /\ p \in Seq(Names) /\ t.paths[p] \in DOMAIN t.nodes
                                   /\ t.nodes[t.paths[p]].path = p /\ p # None
      /\ moved \subseteq DOMAIN t.paths
  BY NoneIsNoPath DEF SoundTable, InPaths
<1>3. ASSUME NEW p \in moved
      PROVE  /\ (CHOOSE q \in moved : t.paths[q] = t.paths[p]) = p
             /\ Moves(t.paths[p])
             /\ Rebase(p, from, to) \in Paths \cap Seq(Names)
             /\ Rebase(Rebase(p, from, to), to, from) = p
             /\ Under(to, Rebase(p, from, to))
  <2>1. \A q \in moved : t.paths[q] = t.paths[p] => q = p
    BY <1>2
  <2> QED BY <1>2, <2>1, RebaseBack, RebaseAre, PathsAreSequences
<1>4. ASSUME NEW i \in DOMAIN t.nodes
      PROVE  Moves(i) <=> t.nodes[i].path # None /\ Under(from, t.nodes[i].path)
  BY <1>2 DEF Complete
<1>5. ASSUME NEW i \in DOMAIN t.nodes, Moves(i)
      PROVE  /\ t.nodes[i].path \in moved /\ t.paths[t.nodes[i].path] = i
             /\ m.nodes[i].path = Rebase(t.nodes[i].path, from, to)
  <2>1. PICK p \in moved : t.paths[p] = i
    BY <1>5
  <2>2. t.nodes[i].path = p /\ t.nodes[i] \in NodeShape
    BY <1>2, <2>1 DEF SoundTable
  <2>3. Rebase(p, from, to) \in Seq(Names) /\ (CHOOSE q \in moved : t.paths[q] = i) = p
    BY <1>3, <2>1
  <2>4. m.nodes[i] = [t.nodes[i] EXCEPT !.path = Rebase(p, from, to)]
    BY <1>1, <1>5, <2>3
  <2> QED BY <2>1, <2>2, <2>3, <2>4, NodePath
<1>. HIDE DEF m, Moves
<1>6. ASSUME NEW i \in DOMAIN t.nodes, ~Moves(i) PROVE m.nodes[i] = t.nodes[i]
  BY <1>1, <1>6
<1>7. DOMAIN m.nodes = DOMAIN t.nodes /\ DOMAIN m.paths = (DOMAIN t.paths \ moved) \cup arrived
  BY <1>1
<1>8. ASSUME NEW i \in DOMAIN t.nodes, m.nodes[i].path # None
      PROVE  m.nodes[i].path \in DOMAIN m.paths /\ m.paths[m.nodes[i].path] = i
  <2>1. CASE Moves(i)
    <3>1. /\ t.nodes[i].path \in moved /\ t.paths[t.nodes[i].path] = i
          /\ m.nodes[i].path = Rebase(t.nodes[i].path, from, to)
      BY <1>5, <2>1
    <3>2. m.nodes[i].path \in arrived /\ Rebase(m.nodes[i].path, to, from) = t.nodes[i].path
      BY <1>3, <3>1
    <3> QED BY <1>1, <1>7, <3>1, <3>2
  <2>2. CASE ~Moves(i)
    <3>1. m.nodes[i] = t.nodes[i]
      BY <1>6, <2>2
    <3>2. t.nodes[i].path \in DOMAIN t.paths \ moved /\ t.paths[t.nodes[i].path] = i
      BY <1>4, <1>8, <2>2, <3>1 DEF Complete
    <3>3. t.nodes[i].path \notin arrived
      BY <1>3, <3>2
    <3> QED BY <1>1, <1>7, <3>1, <3>2, <3>3
  <2> QED BY <2>1, <2>2
<1>9. Complete(m.nodes, m.paths)
  BY <1>7, <1>8 DEF Complete
<1>10. InPaths(m.nodes, m.paths)
  <2>1. DOMAIN m.paths \subseteq Paths
    BY <1>3, <1>7 DEF InPaths
  <2>2. ASSUME NEW i \in DOMAIN t.nodes PROVE m.nodes[i].path \in Paths \cup {None}
    BY <1>3, <1>5, <1>6 DEF InPaths
  <2> QED BY <1>7, <2>1, <2>2 DEF InPaths
<1>11. \A i \in DOMAIN t.nodes : LET q == t.nodes[i].path
         IN m.nodes[i].path = IF q # None /\ Under(from, q) THEN Rebase(q, from, to) ELSE q
  BY <1>4, <1>5, <1>6
<1> QED BY <1>7, <1>9, <1>10, <1>11 DEF m

(***************************************************************************)
(* The steps of the mount and its kernel, alone on the tree.               *)
(***************************************************************************)
LEMMA BecomesMeant ==
  ASSUME NEW t, Becomes(t), DOMAIN meant = DOMAIN nodes
  PROVE  /\ nodes' = t.nodes /\ paths' = t.paths /\ DOMAIN meant' = DOMAIN nodes'
         /\ \A i \in DOMAIN nodes' :
              meant'[i] = IF i \in DOMAIN nodes THEN meant[i] ELSE remote'[nodes'[i].path]
BY DEF Becomes

LEMMA DirNodes ==
  ASSUME TableInv, NEW h \in DOMAIN dirs
  PROVE  dirs[h].ino \in DOMAIN nodes
<1>1. dirs[h] \in DirShape
  BY DEF TableInv, Reached, HandlesOK
<1>2. dirs[h].ino \in Inodes /\ h \in Opens(files, dirs, dirs[h].ino)
  BY <1>1 DEF DirShape, Opens
<1> QED BY <1>2 DEF TableInv, Counts

\* What the server adds leaves the rest alone.
Grows == Tree' /\ \A q \in Paths : remote[q] # None => remote'[q] = remote[q]

\* No node moves: the counts change, and nodes may be collected.
LEMMA StayKeeps ==
  ASSUME TableInv', Alone, Grows,
         DOMAIN nodes' \subseteq DOMAIN nodes, Root \in DOMAIN nodes',
         DOMAIN meant' = DOMAIN nodes',
         \A i \in DOMAIN nodes' : nodes'[i].path = nodes[i].path /\ meant'[i] = meant[i],
         Complete(nodes', paths'), InPaths(nodes', paths'),
         \A h \in DOMAIN dirs' : \/ dirs'[h].path = nodes[dirs'[h].ino].path
                                 \/ h \in DOMAIN dirs /\ dirs'[h] = dirs[h]
  PROVE  Alone'
<1>1. Faithful'
  <2>1. ASSUME NEW i \in DOMAIN nodes' \ {Root}, nodes'[i].path # None
        PROVE  remote'[nodes'[i].path] = meant'[i]
    <3>1. nodes[i].path \in Paths /\ remote[nodes[i].path] = meant[i] /\ meant[i] # None
      BY <2>1 DEF Alone, Faithful, InPaths
    <3> QED BY <3>1 DEF Grows
  <2> QED BY <2>1 DEF Alone, Faithful
<1>2. DirsMatch'
  <2> SUFFICES ASSUME NEW h \in DOMAIN dirs'
               PROVE  nodes'[dirs'[h].ino].path \in {None, dirs'[h].path}
    BY DEF DirsMatch
  <2>1. dirs'[h].ino \in DOMAIN nodes'
    <3>1. dirs'[h] \in DirShape
      BY DEF TableInv, Reached, HandlesOK
    <3>2. dirs'[h].ino \in Inodes /\ h \in Opens(files', dirs', dirs'[h].ino)
      BY <3>1 DEF DirShape, Opens
    <3> QED BY <3>2 DEF TableInv, Counts
  <2>2. nodes'[dirs'[h].ino].path = nodes[dirs'[h].ino].path
    BY <2>1
  <2> QED BY <2>2 DEF Alone, DirsMatch
<1> QED BY <1>1, <1>2 DEF Alone, Grows

LEMMA CalmGrows == Alone /\ UNCHANGED remote => Grows
BY DEF Alone, Tree, IsA, Grows

\* The forms in which handlers count leave every path where it is.
Stays(t) ==
  /\ DOMAIN t.nodes = DOMAIN nodes /\ t.paths = paths
  /\ \A j \in DOMAIN nodes : t.nodes[j].path = nodes[j].path

LEMMA CountsOnly ==
  ASSUME TableInv, NEW i \in DOMAIN nodes, NEW l, NEW o
  PROVE  /\ Stays([Table EXCEPT !.nodes[i].lookups = l])
         /\ Stays([Table EXCEPT !.nodes[i].opens = o])
         /\ Stays([Table EXCEPT !.nodes[i].lookups = l, !.nodes[i].opens = o])
<1>1. nodes[i] \in NodeShape
  BY DEF TableInv, Reached, SoundTable
<1>2. ASSUME NEW n, "path" \in DOMAIN n
      PROVE  /\ [n EXCEPT !.lookups = l].path = n.path /\ [n EXCEPT !.opens = o].path = n.path
             /\ DOMAIN [n EXCEPT !.lookups = l] = DOMAIN n
  BY <1>2
<1>3. "path" \in DOMAIN nodes[i]
  BY <1>1 DEF NodeShape
<1>4. /\ Table.nodes = nodes /\ Table.paths = paths
      /\ [Table EXCEPT !.nodes[i].lookups = l]
           = [nodes |-> [nodes EXCEPT ![i] = [nodes[i] EXCEPT !.lookups = l]], paths |-> paths]
      /\ [Table EXCEPT !.nodes[i].opens = o]
           = [nodes |-> [nodes EXCEPT ![i] = [nodes[i] EXCEPT !.opens = o]], paths |-> paths]
  BY DEF Table
<1>5. [Table EXCEPT !.nodes[i].lookups = l, !.nodes[i].opens = o]
        = [nodes |-> [nodes EXCEPT ![i] = [[nodes[i] EXCEPT !.lookups = l] EXCEPT !.opens = o]],
           paths |-> paths]
  <2>. DEFINE ns == [nodes EXCEPT ![i] = [nodes[i] EXCEPT !.lookups = l]]
  <2>1. [Table EXCEPT !.nodes[i].lookups = l, !.nodes[i].opens = o]
          = [[nodes |-> ns, paths |-> paths] EXCEPT !.nodes[i].opens = o]
    BY <1>4
  <2>2. [[nodes |-> ns, paths |-> paths] EXCEPT !.nodes[i].opens = o]
          = [nodes |-> [ns EXCEPT ![i] = [ns[i] EXCEPT !.opens = o]], paths |-> paths]
    OBVIOUS
  <2>3. ns[i] = [nodes[i] EXCEPT !.lookups = l]
    OBVIOUS
  <2>4. \A r : [ns EXCEPT ![i] = r] = [nodes EXCEPT ![i] = r]
    OBVIOUS
  <2> QED BY <2>1, <2>2, <2>3, <2>4
<1>6. /\ [nodes[i] EXCEPT !.lookups = l].path = nodes[i].path
      /\ [nodes[i] EXCEPT !.opens = o].path = nodes[i].path
      /\ [[nodes[i] EXCEPT !.lookups = l] EXCEPT !.opens = o].path = nodes[i].path
  BY <1>2, <1>3
<1> QED BY <1>4, <1>5, <1>6 DEF Stays

DirsKept ==
  \A h \in DOMAIN dirs' : \/ dirs'[h].path = nodes[dirs'[h].ino].path
                          \/ h \in DOMAIN dirs /\ dirs'[h] = dirs[h]

LEMMA CountedKeeps ==
  ASSUME TableInv', Alone, Grows, DirsKept, NEW t, Stays(t), NEW id,
         Becomes(t) \/ Becomes(Collect(t, id))
  PROVE  Alone'
<1>. DEFINE c == IF Becomes(t) THEN t ELSE Collect(t, id)
<1>1. Complete(t.nodes, t.paths) /\ InPaths(t.nodes, t.paths) /\ Root \in DOMAIN t.nodes
  BY DEF Stays, Alone, Complete, InPaths, Faithful
<1>2. /\ Complete(c.nodes, c.paths) /\ InPaths(c.nodes, c.paths)
      /\ DOMAIN c.nodes \subseteq DOMAIN nodes /\ Root \in DOMAIN c.nodes
      /\ \A i \in DOMAIN c.nodes : c.nodes[i].path = nodes[i].path
  <2>1. CASE Becomes(t)
    BY <1>1, <2>1 DEF Stays
  <2>2. CASE ~Becomes(t)
    <3>1. \A i \in DOMAIN c.nodes : c.nodes[i] = t.nodes[i]
      BY <1>1, <2>2, CollectAlone
    <3> QED BY <1>1, <2>2, <3>1, CollectAlone DEF Stays
  <2> QED BY <2>1, <2>2
<1>3. Becomes(c) /\ DOMAIN meant = DOMAIN nodes
  BY DEF Alone, Faithful
<1>. HIDE DEF c
<1>4. /\ nodes' = c.nodes /\ paths' = c.paths /\ DOMAIN meant' = DOMAIN nodes'
      /\ \A i \in DOMAIN nodes' : i \in DOMAIN nodes => meant'[i] = meant[i]
  BY <1>3, BecomesMeant
<1> QED BY <1>2, <1>4, StayKeeps DEF DirsKept

LEMMA OpenAlone ==
  ASSUME TableInv, TableInv', Alone, NEW i, NEW h, OpenFile(i, h) \/ OpenDir(i, h)
  PROVE  Alone'
<1>. DEFINE t == [Table EXCEPT !.nodes[i].opens = @ + 1]
<1>1. i \in DOMAIN nodes /\ Becomes(t) /\ Grows
  BY CalmGrows DEF OpenFile, OpenDir, Known
<1>2. t = [Table EXCEPT !.nodes[i].opens = nodes[i].opens + 1]
  BY <1>1 DEF Table
<1>3. Stays(t)
  BY <1>1, <1>2, CountsOnly
<1>4. DirsKept
  <2>1. \/ dirs' = dirs
        \/ dirs' = With(dirs, h, [ino |-> i, path |-> nodes[i].path])
    BY DEF OpenFile, OpenDir
  <2> QED BY <2>1 DEF DirsKept, With
<1> QED BY <1>1, <1>3, <1>4, CountedKeeps

LEMMA ReleaseAlone ==
  ASSUME TableInv, TableInv', Alone, NEW h, Release(h) \/ ReleaseDir(h)
  PROVE  Alone'
<1>1. PICK id : Becomes(Released(Table, id))
  BY DEF Release, ReleaseDir
<1>2. Grows
  BY CalmGrows DEF Release, ReleaseDir
<1>3. DirsKept
  <2>1. dirs' = dirs \/ dirs' = Without(dirs, h)
    BY DEF Release, ReleaseDir
  <2> QED BY <2>1 DEF DirsKept, Without
<1>4. PICK t : Stays(t) /\ Released(Table, id) = Collect(t, id)
  <2>1. Table.nodes = nodes /\ Stays(Table)
    BY DEF Table, Stays
  <2>2. CASE id \in DOMAIN nodes
    <3>. DEFINE o == IF nodes[id].opens > 0 THEN nodes[id].opens - 1 ELSE 0
    <3>1. [Table EXCEPT !.nodes[id].opens = IF @ > 0 THEN @ - 1 ELSE 0]
            = [Table EXCEPT !.nodes[id].opens = o]
      BY <2>2 DEF Table
    <3>2. Released(Table, id) = Collect([Table EXCEPT !.nodes[id].opens = o], id)
      BY <2>1, <2>2, <3>1 DEF Released
    <3> QED BY <2>2, <3>2, CountsOnly
  <2>3. CASE id \notin DOMAIN nodes
    BY <2>1, <2>3 DEF Released
  <2> QED BY <2>2, <2>3
<1> QED BY <1>1, <1>2, <1>3, <1>4, CountedKeeps

LEMMA ForgetAlone ==
  ASSUME TableInv, TableInv', Alone, NEW i, NEW count, Forget(i, count)
  PROVE  Alone'
<1>1. Becomes(Forgotten(Table, i, count)) /\ Grows /\ DirsKept
  BY CalmGrows DEF Forget, DirsKept
<1>2. PICK t : Stays(t) /\ Forgotten(Table, i, count) = Collect(t, i)
  <2>1. Table.nodes = nodes /\ Stays(Table)
    BY DEF Table, Stays
  <2>2. CASE i \in DOMAIN nodes
    <3>. DEFINE l == IF nodes[i].lookups > count THEN nodes[i].lookups - count ELSE 0
    <3>1. [Table EXCEPT !.nodes[i].lookups = IF @ > count THEN @ - count ELSE 0]
            = [Table EXCEPT !.nodes[i].lookups = l]
      BY <2>2 DEF Table
    <3>2. Forgotten(Table, i, count) = Collect([Table EXCEPT !.nodes[i].lookups = l], i)
      BY <2>1, <2>2, <3>1 DEF Forgotten
    <3> QED BY <2>2, <3>2, CountsOnly
  <2>3. CASE i \notin DOMAIN nodes
    BY <2>1, <2>3 DEF Forgotten
  <2> QED BY <2>2, <2>3
<1> QED BY <1>1, <1>2, CountedKeeps

\* A new inode is one of an entry that is there.
LEMMA LookedUpAlone ==
  ASSUME TableInv, TableInv', Alone, Grows, NEW p \in Paths, NEW opens,
         LookedUp(p, opens), dirs' = dirs, p # <<>>, remote'[p] # None
  PROVE  Alone'
<1>1. CASE p \in DOMAIN paths
  <2>. DEFINE i == paths[p]
              t == [Table EXCEPT !.nodes[i].lookups = @ + 1, !.nodes[i].opens = @ + opens]
  <2>1. i \in DOMAIN nodes /\ nodes[i] \in NodeShape
    BY <1>1 DEF TableInv, Reached, SoundTable
  <2>2. t = [Table EXCEPT !.nodes[i].lookups = nodes[i].lookups + 1,
                          !.nodes[i].opens = nodes[i].opens + opens]
    BY <2>1 DEF Table, NodeShape
  <2>3. Becomes(t)
    BY <1>1 DEF LookedUp
  <2>4. DirsKept
    BY DEF DirsKept
  <2>. HIDE DEF i
  <2>5. Stays(t)
    BY <2>1, <2>2, CountsOnly
  <2> QED BY <2>3, <2>4, <2>5, CountedKeeps
<1>2. CASE p \notin DOMAIN paths
  <2>. DEFINE i == next + 1
              d == [path |-> p, lookups |-> 1, opens |-> opens]
              t == [nodes |-> With(nodes, i, d), paths |-> With(paths, p, i)]
  <2>1. Becomes(t)
    BY <1>2 DEF LookedUp
  <2>2. i \notin DOMAIN nodes /\ i # Root
    <3>1. next \in Inodes /\ DOMAIN nodes \subseteq 1 .. next
      BY DEF TableInv, Reached
    <3> QED BY <3>1, InodeAssumption DEF Inodes, Root
  <2>3. d.path = p
    OBVIOUS
  <2>. HIDE DEF i, d
  <2>4. /\ nodes' = With(nodes, i, d) /\ paths' = With(paths, p, i)
        /\ DOMAIN meant' = DOMAIN nodes'
        /\ \A j \in DOMAIN nodes' :
              meant'[j] = IF j \in DOMAIN nodes THEN meant[j] ELSE remote'[nodes'[j].path]
    BY <2>1, BecomesMeant DEF Alone, Faithful
  <2>5. /\ DOMAIN nodes' = DOMAIN nodes \cup {i} /\ nodes'[i] = d
        /\ \A j \in DOMAIN nodes : nodes'[j] = nodes[j]
        /\ DOMAIN paths' = DOMAIN paths \cup {p} /\ paths'[p] = i
        /\ \A q \in DOMAIN paths : paths'[q] = paths[q]
    BY <1>2, <2>2, <2>4 DEF With
  <2>6. Complete(nodes', paths')
    BY <2>3, <2>5 DEF Alone, Complete
  <2>7. InPaths(nodes', paths')
    BY <2>3, <2>5 DEF Alone, InPaths
  <2>8. Faithful'
    <3>1. Root \in DOMAIN nodes' /\ nodes'[Root].path = <<>>
      BY <2>5 DEF Alone, Faithful
    <3>2. ASSUME NEW j \in DOMAIN nodes \ {Root}
          PROVE  /\ meant'[j] # None
                 /\ nodes'[j].path # None => remote'[nodes'[j].path] = meant'[j]
      BY <2>4, <2>5 DEF Alone, Faithful, InPaths, Grows
    <3>3. meant'[i] = remote'[p]
      BY <2>2, <2>3, <2>4, <2>5
    <3> QED BY <2>3, <2>4, <2>5, <3>1, <3>2, <3>3 DEF Faithful
  <2>9. DirsMatch'
    <3> SUFFICES ASSUME NEW h \in DOMAIN dirs
                 PROVE  nodes'[dirs[h].ino].path \in {None, dirs[h].path}
      BY DEF DirsMatch
    <3> QED BY <2>5, DirNodes DEF Alone, DirsMatch
  <2> QED BY <2>6, <2>7, <2>8, <2>9 DEF Alone, Grows
<1> QED BY <1>1, <1>2

(***************************************************************************)
(* The remote tree.                                                        *)
(***************************************************************************)
LEMMA ParentPath ==
  ASSUME NEW p \in Paths, p # <<>>
  PROVE  /\ p \in Seq(Names) /\ Parent(p) \in Paths \cap Seq(Names)
         /\ Len(p) \in 1 .. 2 /\ Len(Parent(p)) = Len(p) - 1
<1>1. p \in Seq(Names)
  BY PathsAreSequences
<1>2. Len(p) \in Nat /\ Len(p) # 0 /\ Len(p) <= 2
  BY <1>1, PathsAre
<1>3. Parent(p) \in Seq(Names) /\ Len(Parent(p)) = Len(p) - 1
  BY <1>1, ParentAre
<1>4. Parent(p) \in Paths
  BY <1>2, <1>3, PathsAre
<1> QED BY <1>1, <1>2, <1>3, <1>4

LEMMA EmptyPath ==
  <<>> \in Paths /\ <<>> # None /\ \A p \in Paths : p # <<>> => ~Under(p, <<>>)
<1>. DEFINE e == <<>>
<1>1. e \in Seq(Names) /\ Len(e) = 0
  BY EmptySeq
<1>. HIDE DEF e
<1>2. e \in Paths
  <2>1. Len(e) <= 2
    BY <1>1
  <2> QED BY <1>1, <2>1, PathsAre
<1>3. ASSUME NEW p \in Paths, p # <<>> PROVE ~Under(p, e)
  <2>1. Len(p) \in 1 .. 2
    BY <1>3, ParentPath
  <2>2. ~(Len(p) <= Len(e))
    BY <1>1, <2>1
  <2> QED BY <2>2 DEF Under
<1> QED BY <1>2, <1>3, NoneIsNoPath DEF e

\* Two levels: what is strictly below an entry is in it.
LEMMA BelowIsIn ==
  ASSUME NEW p \in Paths, NEW q \in Paths, p # <<>>, Strictly(p, q)
  PROVE  q # <<>> /\ Parent(q) = p /\ Len(p) = 1 /\ Len(q) = 2
<1>1. p \in Seq(Names) /\ q \in Seq(Names) /\ Len(p) \in 1 .. 2
  BY ParentPath, PathsAreSequences
<1>2. Len(p) < Len(q) /\ q # <<>>
  BY <1>1, UnderFacts
<1>3. Len(q) \in 1 .. 2
  BY <1>2, ParentPath
<1>4. Len(p) = 1 /\ Len(q) = 2
  BY <1>1, <1>2, <1>3
<1>5. Parent(q) = p
  <2>1. Len(p) = Len(q) - 1
    BY <1>4
  <2> QED BY <1>1, <2>1, UnderFacts
<1> QED BY <1>2, <1>4, <1>5

\* Below what is not there, there is nothing.
LEMMA NothingBelow ==
  ASSUME Tree, NEW p \in Paths, p # <<>>, remote[p] = None \/ IsEmpty(p),
         NEW q \in Paths, Strictly(p, q)
  PROVE  remote[q] = None
BY BelowIsIn, NoneIsNoPath DEF Tree, IsA, IsEmpty

LEMMA MakesGrows ==
  ASSUME Tree, NEW kind \in Kinds, NEW p \in Paths, Makes(kind, p)
  PROVE  Grows /\ p # <<>> /\ remote'[p] # None
<1>1. CASE kind = "file" /\ p # <<>> /\ IsA("file", p) /\ UNCHANGED remote
  BY <1>1 DEF IsA, Grows, Tree
<1>2. CASE Vacant(p) /\ \E o \in Fresh : remote' = [remote EXCEPT ![p] = <<kind, o>>]
  <2>1. PICK o \in Objects : remote' = [remote EXCEPT ![p] = <<kind, o>>]
    BY <1>2 DEF Fresh
  <2>2. /\ p # <<>> /\ remote[p] = None /\ IsA("directory", Parent(p))
        /\ <<kind, o>> \in Entries /\ <<kind, o>> # None
        /\ Parent(p) \in Paths
    BY <1>2, NoneIsNoPath, ParentPath DEF Vacant, Entries
  <2>3. /\ remote'[p] = <<kind, o>> /\ remote' \in [Paths -> Entries \cup {None}]
        /\ \A q \in Paths : q # p => remote'[q] = remote[q]
    BY <2>1, <2>2 DEF Tree
  <2>4. ASSUME NEW q \in Paths, q # p, remote'[q] # None
        PROVE  q # <<>> /\ IsA("directory", Parent(q))'
    <3>1. q # <<>> /\ IsA("directory", Parent(q))
      BY <2>3, <2>4 DEF Tree
    <3>2. Parent(q) \in Paths
      BY <3>1, ParentPath
    <3> QED BY <2>2, <2>3, <3>1, <3>2 DEF IsA
  <2>5. IsA("directory", Parent(p))'
    BY <2>2, <2>3 DEF IsA
  <2>6. Tree'
    BY <2>2, <2>3, <2>4, <2>5 DEF Tree
  <2> QED BY <2>2, <2>3, <2>6 DEF Grows
<1> QED BY <1>1, <1>2 DEF Makes

LEMMA RemoveAlone ==
  ASSUME TableInv, TableInv', Alone, NEW parent, NEW p \in Paths, Remove(parent, p)
  PROVE  Alone'
<1>. DEFINE r == RetirePath(Table, p)
<1>1. /\ Becomes(r) /\ dirs' = dirs /\ remote' = [remote EXCEPT ![p] = None]
      /\ remote[p] # None /\ IsEmpty(p) /\ p # <<>>
  BY DEF Remove, ChildOf
<1>2. Table.nodes = nodes /\ Table.paths = paths
  BY DEF Table
<1>3. /\ Complete(r.nodes, r.paths) /\ InPaths(r.nodes, r.paths)
      /\ DOMAIN r.nodes = DOMAIN nodes
      /\ \A i \in DOMAIN nodes :
           r.nodes[i].path = IF nodes[i].path = p THEN None ELSE nodes[i].path
  <2>1. /\ SoundTable(Table.nodes, Table.paths) /\ InUseBut(Table.nodes, {Root})
        /\ Complete(Table.nodes, Table.paths) /\ InPaths(Table.nodes, Table.paths)
    BY <1>2 DEF TableInv, Reached, Alone
  <2>2. /\ Complete(r.nodes, r.paths) /\ InPaths(r.nodes, r.paths)
        /\ DOMAIN r.nodes = DOMAIN Table.nodes
        /\ \A i \in DOMAIN Table.nodes :
             r.nodes[i].path = IF Table.nodes[i].path = p THEN None ELSE Table.nodes[i].path
    BY <2>1, RetireAlone
  <2>. HIDE DEF r
  <2> QED BY <1>2, <2>2
<1>. HIDE DEF r
<1>4. /\ nodes' = r.nodes /\ paths' = r.paths /\ DOMAIN meant' = DOMAIN nodes'
      /\ \A i \in DOMAIN nodes : meant'[i] = meant[i]
  BY <1>1, <1>3, BecomesMeant DEF Alone, Faithful
<1>5. /\ remote' \in [Paths -> Entries \cup {None}]
      /\ \A q \in Paths : remote'[q] = IF q = p THEN None ELSE remote[q]
  BY <1>1 DEF Alone, Tree
<1>6. Tree'
  <2> SUFFICES ASSUME NEW q \in Paths, remote'[q] # None
               PROVE  q # <<>> /\ IsA("directory", Parent(q))'
    BY <1>5 DEF Tree
  <2>1. remote[q] # None /\ q # <<>> /\ IsA("directory", Parent(q))
    BY <1>5 DEF Alone, Tree
  <2>2. q \in Seq(Names) /\ Parent(q) \in Paths
    BY <2>1, ParentPath
  <2>3. Parent(q) # p
    <3>1. Under(Parent(q), q) /\ ~Under(q, Parent(q)) /\ Under(q, q)
      BY <2>1, <2>2, UnderFacts
    <3>2. Parent(q) = p => Strictly(p, q)
      BY <3>1 DEF Strictly
    <3> QED BY <1>1, <2>1, <3>2 DEF IsEmpty
  <2> QED BY <1>5, <2>1, <2>2, <2>3 DEF IsA
<1>7. Faithful'
  BY <1>1, <1>3, <1>4, <1>5 DEF Alone, Faithful, InPaths
<1>8. DirsMatch'
  BY <1>1, <1>3, <1>4, DirNodes DEF Alone, DirsMatch
<1> QED BY <1>3, <1>4, <1>6, <1>7, <1>8 DEF Alone

\* Where the server puts what it renames; nothing else changes but the place that
\* is taken over, below which there was nothing.
LEMMA RenamedTree ==
  ASSUME Tree, NEW from \in Paths, NEW to \in Paths, from # <<>>, to # <<>>, from # to,
         Renames(from, to)
  PROVE  /\ \A q \in Paths : Strictly(to, q) => remote[q] = None
         /\ \A q \in Paths : Under(from, q) /\ Rebase(q, from, to) \in Paths
              => remote'[Rebase(q, from, to)] = remote[q]
         /\ \A q \in Paths : ~Under(from, q) /\ ~Under(to, q) => remote'[q] = remote[q]
         /\ Tree'
<1>1. /\ from \in Seq(Names) /\ to \in Seq(Names)
      /\ Len(from) \in 1 .. 2 /\ Len(to) \in 1 .. 2
  BY ParentPath
<1>2. /\ remote[from] # None /\ ~Under(from, to)
      /\ remote' = [p \in Paths |->
                      IF Under(to, p) /\ Rebase(p, to, from) \in Paths
                        THEN remote[Rebase(p, to, from)]
                      ELSE IF Under(from, p) THEN None ELSE remote[p]]
  BY DEF Renames
<1>3. IsA("directory", Parent(to)) /\ (remote[to] = None \/ IsEmpty(to))
  BY DEF Renames, Vacant, Tree
<1>4. \A q \in Paths : Strictly(to, q) => remote[q] = None
  BY <1>3, NothingBelow
<1>5. ASSUME NEW q \in Paths, Under(from, q), Rebase(q, from, to) \in Paths
      PROVE  remote'[Rebase(q, from, to)] = remote[q]
  <2>1. q \in Seq(Names)
    BY PathsAreSequences
  <2>2. Rebase(Rebase(q, from, to), to, from) = q /\ Under(to, Rebase(q, from, to))
    BY <1>1, <1>5, <2>1, RebaseBack, RebaseAre
  <2> QED BY <1>2, <1>5, <2>2
<1>6. \A q \in Paths : ~Under(from, q) /\ ~Under(to, q) => remote'[q] = remote[q]
  BY <1>2
<1>7. remote' \in [Paths -> Entries \cup {None}]
  BY <1>2 DEF Tree
<1>8. remote'[to] = remote[from]
  <2>1. Under(from, from)
    BY <1>1, UnderFacts
  <2>2. Rebase(from, from, to) = to
    <3>1. /\ Rebase(from, from, to) \in Seq(Names)
          /\ Len(Rebase(from, from, to)) = Len(to) + Len(from) - Len(from)
          /\ \A k \in 1 .. Len(to) : Rebase(from, from, to)[k] = to[k]
      BY <1>1, <2>1, RebaseAre
    <3>2. Len(Rebase(from, from, to)) = Len(to)
      BY <1>1, <3>1
    <3> QED BY <1>1, <3>1, <3>2, SeqEqual
  <2> QED BY <1>5, <2>1, <2>2
<1>9. ASSUME NEW p \in Paths, remote'[p] # None
      PROVE  p # <<>> /\ IsA("directory", Parent(p))'
  <2>1. p \in Seq(Names)
    BY PathsAreSequences
  <2>2. CASE p = to
    <3>1. Parent(to) \in Paths \cap Seq(Names) /\ Under(Parent(to), to) /\ ~Under(to, Parent(to))
      BY <1>1, ParentPath, UnderFacts
    <3>2. ~Under(from, Parent(to))
      BY <1>1, <1>2, <3>1, UnderFacts
    <3> QED BY <1>3, <1>6, <2>2, <3>1, <3>2 DEF IsA
  <2>3. CASE Strictly(to, p)
    <3>1. p # <<>> /\ Parent(p) = to /\ Len(to) = 1 /\ Len(p) = 2
      BY <2>3, BelowIsIn
    <3>2. CASE Rebase(p, to, from) \in Paths
      <4>. DEFINE q == Rebase(p, to, from)
      <4>1. remote'[p] = remote[q] /\ Under(to, p)
        BY <1>2, <2>3, <3>2 DEF Strictly
      <4>2. q \in Seq(Names) /\ Len(q) = Len(from) + Len(p) - Len(to) /\ Under(from, q)
        BY <1>1, <2>1, <4>1, RebaseAre
      <4>3. q # from
        BY <1>1, <3>1, <4>2
      <4>. HIDE DEF q
      <4>4. Parent(q) = from
        BY <3>2, <4>2, <4>3, BelowIsIn DEF Strictly, q
      <4>5. IsA("directory", from)
        BY <1>9, <3>2, <4>1, <4>4 DEF Tree, q
      <4> QED BY <1>8, <3>1, <4>5 DEF IsA
    <3>3. CASE Rebase(p, to, from) \notin Paths
      BY <1>2, <1>4, <1>9, <2>3, <3>3
    <3> QED BY <3>2, <3>3
  <2>4. CASE ~Under(to, p)
    <3>1. remote'[p] = remote[p] /\ ~Under(from, p)
      BY <1>2, <1>9, <2>4
    <3>2. p # <<>> /\ IsA("directory", Parent(p))
      BY <1>9, <3>1 DEF Tree
    <3>3. Parent(p) \in Paths \cap Seq(Names) /\ Under(Parent(p), p)
      BY <3>2, ParentPath, UnderFacts
    <3>4. ~Under(to, Parent(p)) /\ ~Under(from, Parent(p))
      BY <1>1, <2>1, <2>4, <3>1, <3>3, UnderFacts
    <3> QED BY <1>6, <3>2, <3>3, <3>4 DEF IsA
  <2> QED BY <2>2, <2>3, <2>4 DEF Strictly
<1>10. Tree'
  BY <1>7, <1>9 DEF Tree
<1> QED BY <1>4, <1>5, <1>6, <1>10

LEMMA RenameAlone ==
  ASSUME TableInv, TableInv', Alone, NEW parent, NEW from \in Paths, NEW newparent,
         NEW to \in Paths, Rename(parent, from, newparent, to)
  PROVE  Alone'
<1>. DEFINE r == RetirePath(Table, to)
            m == MovePaths(r, from, to)
            Moved(q) == IF q # None /\ Under(from, q) THEN Rebase(q, from, to) ELSE q
<1>1. /\ Becomes(m) /\ dirs' = MovedDirs(from, to) /\ Renames(from, to)
      /\ from # <<>> /\ to # <<>> /\ from # to
      /\ \A q \in DOMAIN paths : Under(from, q) => Rebase(q, from, to) \in Paths
  BY DEF Rename, ChildOf
<1>2. from \in Seq(Names) /\ to \in Seq(Names)
  BY PathsAreSequences
<1>3. /\ \A q \in Paths : Strictly(to, q) => remote[q] = None
      /\ \A q \in Paths : Under(from, q) /\ Rebase(q, from, to) \in Paths
           => remote'[Rebase(q, from, to)] = remote[q]
      /\ \A q \in Paths : ~Under(from, q) /\ ~Under(to, q) => remote'[q] = remote[q]
      /\ Tree'
  BY <1>1, RenamedTree DEF Alone
<1>4. /\ SoundTable(r.nodes, r.paths)
      /\ Complete(r.nodes, r.paths) /\ InPaths(r.nodes, r.paths)
      /\ DOMAIN r.nodes = DOMAIN nodes /\ DOMAIN r.paths = DOMAIN paths \ {to}
      /\ \A i \in DOMAIN nodes :
           r.nodes[i].path = IF nodes[i].path = to THEN None ELSE nodes[i].path
  <2>1. Table.nodes = nodes /\ Table.paths = paths
    BY DEF Table
  <2>2. /\ SoundTable(Table.nodes, Table.paths) /\ InUseBut(Table.nodes, {Root})
        /\ Complete(Table.nodes, Table.paths) /\ InPaths(Table.nodes, Table.paths)
    BY <2>1 DEF TableInv, Reached, Alone
  <2>3. SoundTable(r.nodes, r.paths)
    BY <2>2, RetireKeeps
  <2>4. /\ Complete(r.nodes, r.paths) /\ InPaths(r.nodes, r.paths)
        /\ DOMAIN r.nodes = DOMAIN Table.nodes /\ DOMAIN r.paths = DOMAIN Table.paths \ {to}
        /\ \A i \in DOMAIN Table.nodes :
             r.nodes[i].path = IF Table.nodes[i].path = to THEN None ELSE Table.nodes[i].path
    BY <2>2, RetireAlone
  <2>. HIDE DEF r
  <2> QED BY <2>1, <2>3, <2>4
<1>. HIDE DEF r
<1>5. ASSUME NEW i \in DOMAIN nodes, r.nodes[i].path # None
      PROVE  /\ r.nodes[i].path = nodes[i].path /\ nodes[i].path # None
             /\ nodes[i].path \in DOMAIN r.paths /\ nodes[i].path \in Paths
             /\ ~Under(to, nodes[i].path)
  <2>1. /\ r.nodes[i].path = nodes[i].path /\ nodes[i].path # to
        /\ nodes[i].path \in DOMAIN r.paths /\ nodes[i].path \in Paths
    BY <1>4, <1>5 DEF Complete, InPaths
  <2>2. CASE i = Root
    <3>1. nodes[i].path = <<>>
      BY <2>2 DEF Alone, Faithful
    <3> QED BY <1>1, <1>5, <2>1, <3>1, EmptyPath
  <2>3. CASE i # Root
    <3>1. remote[nodes[i].path] # None
      BY <1>5, <2>1, <2>3 DEF Alone, Faithful
    <3> QED BY <1>3, <1>5, <2>1, <3>1 DEF Strictly
  <2> QED BY <2>1, <2>2, <2>3, <1>5
<1>6. \A q \in DOMAIN r.paths : ~Under(to, q)
  <2> SUFFICES ASSUME NEW q \in DOMAIN r.paths PROVE ~Under(to, q)
    OBVIOUS
  <2>1. r.paths[q] \in DOMAIN nodes /\ r.nodes[r.paths[q]].path = q
    BY <1>4 DEF SoundTable
  <2>2. q # None
    BY <1>4, NoneIsNoPath DEF InPaths
  <2> QED BY <1>5, <2>1, <2>2
<1>7. /\ DOMAIN m.nodes = DOMAIN nodes
      /\ \A i \in DOMAIN nodes : m.nodes[i].path = Moved(r.nodes[i].path)
      /\ Complete(m.nodes, m.paths) /\ InPaths(m.nodes, m.paths)
  <2>1. \A q \in DOMAIN r.paths : Under(from, q) => Rebase(q, from, to) \in Paths
    BY <1>1, <1>4
  <2> QED BY <1>2, <1>4, <1>6, <2>1, MoveAlone
<1>. HIDE DEF m
<1>8. /\ nodes' = m.nodes /\ paths' = m.paths /\ DOMAIN meant' = DOMAIN nodes'
      /\ \A i \in DOMAIN nodes : meant'[i] = meant[i]
  BY <1>1, <1>7, BecomesMeant DEF Alone, Faithful
<1>9. ASSUME NEW i \in DOMAIN nodes
      PROVE  nodes'[i].path = None \/
             /\ nodes[i].path # None /\ nodes[i].path \in Paths \cap DOMAIN paths
             /\ ~Under(to, nodes[i].path)
             /\ nodes'[i].path = Moved(nodes[i].path)
  <2>1. nodes'[i].path = Moved(r.nodes[i].path)
    BY <1>7, <1>8
  <2>2. CASE r.nodes[i].path = None
    BY <2>1, <2>2
  <2>3. CASE r.nodes[i].path # None
    BY <1>4, <1>5, <2>1, <2>3
  <2> QED BY <2>2, <2>3
<1>10. Faithful'
  <2>1. Root \in DOMAIN nodes' /\ nodes'[Root].path = <<>>
    <3>1. Root \in DOMAIN nodes /\ nodes[Root].path = <<>>
      BY DEF Alone, Faithful
    <3>2. r.nodes[Root].path = <<>>
      BY <1>1, <1>4, <3>1
    <3> QED BY <1>1, <1>7, <1>8, <3>1, <3>2, EmptyPath
  <2>2. ASSUME NEW i \in DOMAIN nodes \ {Root}, nodes'[i].path # None
        PROVE  remote'[nodes'[i].path] = meant[i]
    <3>1. /\ nodes[i].path # None /\ nodes[i].path \in Paths \cap DOMAIN paths
          /\ ~Under(to, nodes[i].path)
          /\ nodes'[i].path = Moved(nodes[i].path) /\ remote[nodes[i].path] = meant[i]
      BY <1>9, <2>2 DEF Alone, Faithful
    <3>2. CASE Under(from, nodes[i].path)
      BY <1>1, <1>3, <3>1, <3>2
    <3>3. CASE ~Under(from, nodes[i].path)
      BY <1>3, <3>1, <3>3
    <3> QED BY <3>2, <3>3
  <2> QED BY <1>7, <1>8, <2>1, <2>2 DEF Alone, Faithful
<1>11. DirsMatch'
  <2> SUFFICES ASSUME NEW h \in DOMAIN dirs
               PROVE  nodes'[dirs'[h].ino].path \in {None, dirs'[h].path}
    BY <1>1 DEF DirsMatch, MovedDirs
  <2>. DEFINE i == dirs[h].ino
  <2>1. i \in DOMAIN nodes /\ nodes[i].path \in {None, dirs[h].path} /\ dirs[h] \in DirShape
    BY DirNodes DEF Alone, DirsMatch, TableInv, Reached, HandlesOK
  <2>2. dirs'[h] = IF Under(from, dirs[h].path)
                     THEN [dirs[h] EXCEPT !.path = Rebase(dirs[h].path, from, to)] ELSE dirs[h]
    BY <1>1 DEF MovedDirs
  <2>3. /\ dirs'[h].ino = i
        /\ dirs'[h].path = IF Under(from, dirs[h].path) THEN Rebase(dirs[h].path, from, to)
                                                       ELSE dirs[h].path
    BY <2>1, <2>2 DEF DirShape
  <2>. HIDE DEF i
  <2> QED BY <1>9, <2>1, <2>3
<1> QED BY <1>3, <1>7, <1>8, <1>10, <1>11 DEF Alone

LEMMA AloneInit == Init => AloneInv
<1>1. SUFFICES ASSUME Init PROVE Alone
  BY DEF AloneInv
<1>2. /\ DOMAIN nodes = {Root} /\ nodes[Root].path = <<>>
      /\ DOMAIN paths = {<<>>} /\ paths[<<>>] = Root
      /\ DOMAIN dirs = {} /\ DOMAIN meant = {Root}
      /\ remote = [p \in Paths |-> None]
  BY <1>1 DEF Init
<1> QED BY <1>2, EmptyPath DEF Alone, Complete, InPaths, Tree, Faithful, DirsMatch

LEMMA AloneStep == TableInv /\ TableInv' /\ AloneInv /\ [Next]_vars => AloneInv'
<1>. SUFFICES ASSUME TableInv, TableInv', Alone, ~shared, [Next]_vars PROVE Alone'
  <2>1. ASSUME Next PROVE shared' = shared
    <3>1. CASE \E i \in Known : \E p \in ChildOf(i) :
                 \/ Lookup(i, p) \/ Mkdir(i, p) \/ MadeInVain(i, p) \/ Remove(i, p)
                 \/ \E h \in Unused : Create(i, p, h)
                 \/ \E j \in Known : \E q \in ChildOf(j) : Rename(i, p, j, q)
      BY <3>1 DEF Lookup, Mkdir, MadeInVain, Remove, Create, Rename
    <3>2. CASE \E i \in Inodes : \E count \in 1 .. known[i] : Forget(i, count)
      BY <3>2 DEF Forget
    <3>3. CASE \E i \in Known, h \in Unused : OpenFile(i, h) \/ OpenDir(i, h)
      BY <3>3 DEF OpenFile, OpenDir
    <3>4. CASE \E h \in Handles : Release(h) \/ ReleaseDir(h)
      BY <3>4 DEF Release, ReleaseDir
    <3> QED BY <2>1, <3>1, <3>2, <3>3, <3>4 DEF Next, OthersEdit
  <2> QED BY <2>1 DEF AloneInv, vars
<1>1. ASSUME NEW i, NEW p \in ChildOf(i), Lookup(i, p) PROVE Alone'
  <2>1. p \in Paths /\ p # <<>> /\ remote'[p] # None /\ Grows /\ LookedUp(p, 0) /\ dirs' = dirs
    BY <1>1, CalmGrows DEF ChildOf, Lookup
  <2> QED BY <2>1, LookedUpAlone
<1>2. ASSUME NEW i, NEW p \in ChildOf(i), NEW h, Mkdir(i, p) \/ Create(i, p, h) PROVE Alone'
  <2>1. /\ p \in Paths /\ dirs' = dirs
        /\ \E kind \in Kinds : Makes(kind, p)
        /\ \E opens \in {0, 1} : LookedUp(p, opens)
    BY <1>2 DEF ChildOf, Mkdir, Create, Kinds
  <2>2. Grows /\ p # <<>> /\ remote'[p] # None
    BY <2>1, MakesGrows DEF Alone
  <2> QED BY <2>1, <2>2, LookedUpAlone
<1>3. ASSUME NEW i, NEW p \in ChildOf(i), MadeInVain(i, p) PROVE Alone'
  <2>1. /\ p \in Paths /\ (\E k \in Kinds : Makes(k, p)) /\ UNCHANGED <<nodes, paths, dirs, meant>>
    BY <1>3 DEF ChildOf, MadeInVain, tableVars
  <2>2. Grows
    BY <2>1, MakesGrows DEF Alone
  <2> QED BY <2>1, <2>2, StayKeeps DEF Alone, Faithful
<1>4. ASSUME NEW i, NEW p \in ChildOf(i), Remove(i, p) PROVE Alone'
  BY <1>4, RemoveAlone DEF ChildOf
<1>5. ASSUME NEW i, NEW p \in ChildOf(i), NEW j, NEW q \in ChildOf(j), Rename(i, p, j, q)
      PROVE  Alone'
  BY <1>5, RenameAlone DEF ChildOf
<1>6. CASE UNCHANGED vars
  BY <1>6
  DEF vars, tableVars, Alone, Complete, InPaths, Tree, IsA, Faithful, DirsMatch
<1> QED
  BY <1>1, <1>2, <1>3, <1>4, <1>5, <1>6, ForgetAlone, OpenAlone, ReleaseAlone
  DEF Next, OthersEdit

LEMMA AloneAlways == Spec => [](TableInv /\ AloneInv)
BY TableInvInit, TableInvNext, AloneInit, AloneStep, PTL DEF Spec

\* While nobody else edits the tree every path has one inode: retire_path never
\* takes away the path of an entry that was created again.
THEOREM PathsAlwaysComplete == Spec => []PathsComplete
<1>1. AloneInv => PathsComplete
  BY DEF AloneInv, Alone, Complete, PathsComplete
<1> QED BY <1>1, AloneAlways, PTL

\* While nobody else edits the tree, an inode names the object it was looked up as,
\* after any sequence of renames, removals and recreations (rename, retire_path).
THEOREM AlwaysSameObject == Spec => []SameObject
<1>1. AloneInv => SameObject
  BY DEF AloneInv, Alone, Faithful, SameObject
<1> QED BY <1>1, AloneAlways, PTL

\* While nobody else edits the tree, an open directory follows the renames of its
\* inode, so that rewinddir reads the directory that was opened (rename).
THEOREM DirsAlwaysFollow == Spec => []DirsFollow
<1>1. AloneInv => DirsFollow
  BY DEF AloneInv, Alone, DirsMatch, DirsFollow
<1> QED BY <1>1, AloneAlways, PTL
==============================================================================
