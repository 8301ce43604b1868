-------------------------- MODULE OpenHandlesProofs --------------------------
(***************************************************************************)
(* Proofs about OpenHandles for any number of contexts, names and objects. *)
(***************************************************************************)
EXTENDS OpenHandles, SequenceTheorems, TLAPS

(***************************************************************************)
(* The shape of the state.                                                 *)
(***************************************************************************)
States == {"none", "open", "cleaned"}
ContextShape == [state : States, path : Seq(Names), object : Objects \cup {NoObject},
                 file : BOOLEAN, writable : BOOLEAN]
FlushShape == [phase : {"idle", "loop", "done"}, left : SUBSET Ids,
               error : BOOLEAN, failed : SUBSET Ids]
Shape ==
  /\ tree \in [Objects -> Seq(Names)]
  /\ serving \in BOOLEAN
  /\ contexts \in [Ids -> ContextShape]
  /\ unflushed \subseteq Ids
  /\ flush \in FlushShape

LEMMA PathsAreSequences ==
  ASSUME NEW p \in Paths
  PROVE  p \in Seq(Names) /\ p # Gone
<1>1. CASE p \in {<<a>> : a \in Names}
  <2>1. PICK a \in Names : p = <<a>>
    BY <1>1
  <2>2. <<a>> \in Seq(Names) /\ Len(<<a>>) = 1
    OBVIOUS
  <2>3. QED
    BY <2>1, <2>2 DEF Gone
<1>2. CASE p \in Names \X Names
  <2>1. PICK a \in Names, b \in Names : p = <<a, b>>
    BY <1>2
  <2>2. <<a, b>> \in Seq(Names) /\ Len(<<a, b>>) = 2
    OBVIOUS
  <2>3. QED
    BY <2>1, <2>2 DEF Gone
<1>3. QED
  BY <1>1, <1>2 DEF Paths

LEMMA ReplacedIsPath ==
  ASSUME NEW p \in Seq(Names), NEW from \in Paths, NEW to \in Paths
  PROVE  Replaced(p, from, to) \in Seq(Names) /\ Replaced(p, from, to) # Gone
<1>1. from \in Seq(Names) /\ to \in Seq(Names) /\ to # <<>>
  BY PathsAreSequences DEF Gone
<1>2. Len(from) \in Nat /\ Len(p) \in Nat /\ Len(to) \in Nat \ {0}
  BY <1>1, EmptySeq, LenProperties
<1>. DEFINE rest == SubSeq(p, Len(from) + 1, Len(p))
<1>3. rest \in Seq(Names)
  BY <1>2, SubSeqProperties
<1>4. to \o rest \in Seq(Names) /\ Len(to \o rest) = Len(to) + Len(rest)
  BY <1>1, <1>3, ConcatProperties
<1>5. Len(to \o rest) # 0
  BY <1>2, <1>3, <1>4, LenProperties
<1>6. to \o rest # <<>>
  BY <1>4, <1>5, EmptySeq
<1>7. QED
  BY <1>4, <1>6 DEF Replaced, Gone

LEMMA RebasedIsPath ==
  ASSUME NEW p \in Seq(Names), NEW from \in Paths, NEW to \in Paths
  PROVE  /\ Rebased(p, from, to) \in Seq(Names)
         /\ p # Gone => Rebased(p, from, to) # Gone
BY ReplacedIsPath DEF Rebased

LEMMA InitShape == Init => Shape
<1>1. SUFFICES ASSUME Init PROVE Shape
  OBVIOUS
<1>2. Gone \in Seq(Names)
  BY DEF Gone
<1>3. Paths \cup {Gone} \subseteq Seq(Names)
  BY <1>2, PathsAreSequences
<1>4. tree \in [Objects -> Seq(Names)]
  BY <1>1, <1>3 DEF Init
<1>5. NoContext \in ContextShape
  BY <1>2 DEF NoContext, States, ContextShape
<1>6. QED
  BY <1>1, <1>4, <1>5 DEF Init, Shape, NoFlush, FlushShape

\* One context changes.
LEMMA ContextChange ==
  ASSUME Shape, NEW h \in Ids, NEW c \in ContextShape,
         contexts' = [contexts EXCEPT ![h] = c]
  PROVE  contexts' \in [Ids -> ContextShape]
BY DEF Shape

\* A context that is cleaned up loses its path.
LEMMA CleanedShape ==
  ASSUME Shape, NEW h \in Ids, Cleanup(h)
  PROVE  /\ contexts' \in [Ids -> ContextShape]
         /\ \A g \in Ids \ {h} : contexts'[g] = contexts[g]
         /\ contexts[h].state = "open" /\ contexts'[h].state = "cleaned"
         /\ contexts'[h].file = contexts[h].file
         /\ contexts'[h].writable = contexts[h].writable
<1>. DEFINE c == [contexts[h] EXCEPT !.state = "cleaned", !.path = Gone, !.object = NoObject]
<1>1. Gone \in Seq(Names) /\ contexts[h] \in ContextShape
  BY DEF Gone, Shape
<1>2. c \in ContextShape
  BY <1>1 DEF ContextShape, States
<1>3. contexts' = [contexts EXCEPT ![h] = c]
  BY <1>1 DEF Cleanup, Shape, ContextShape
<1>4. /\ c.state = "cleaned" /\ c.file = contexts[h].file /\ c.writable = contexts[h].writable
  BY <1>1 DEF ContextShape
<1>5. contexts' \in [Ids -> ContextShape]
  BY <1>2, <1>3, ContextChange
<1>6. QED
  BY <1>3, <1>4, <1>5 DEF Cleanup, Shape

LEMMA NextShape ==
  ASSUME Shape, [Next]_vars
  PROVE  Shape'
<1>0. Gone \in Seq(Names) /\ \A h \in Ids : contexts[h] \in ContextShape
  BY DEF Gone, Shape
<1>1. ASSUME NEW h \in Ids, NEW o \in Objects, NEW file \in BOOLEAN, NEW writable \in BOOLEAN,
             Open(h, o, file, writable)
      PROVE  Shape'
  <2>1. [state |-> "open", path |-> tree[o], object |-> o, file |-> file, writable |-> writable]
          \in ContextShape
    BY DEF Shape, ContextShape, States
  <2>2. contexts' \in [Ids -> ContextShape]
    BY <1>1, <2>1, ContextChange DEF Open
  <2>3. QED
    BY <1>1, <2>2 DEF Open, Shape
<1>2. ASSUME NEW h \in Ids, Write(h) \/ FlushFile(h)
      PROVE  Shape'
  BY <1>2 DEF Write, FlushFile, Shape
<1>3. ASSUME NEW h \in Ids, Cleanup(h)
      PROVE  Shape'
  <2>1. contexts' \in [Ids -> ContextShape]
    BY <1>3, CleanedShape
  <2>2. tree' \in [Objects -> Seq(Names)]
    BY <1>0, <1>3 DEF Cleanup, Shape
  <2>3. QED
    BY <1>3, <2>1, <2>2 DEF Cleanup, Shape
<1>4. ASSUME NEW h \in Ids, Close(h)
      PROVE  Shape'
  <2>1. NoContext \in ContextShape
    BY <1>0 DEF NoContext, ContextShape, States
  <2>2. contexts' \in [Ids -> ContextShape]
    BY <1>4, <2>1, ContextChange DEF Close
  <2>3. QED
    BY <1>4, <2>2 DEF Close, Shape
<1>5. CASE Retire
  BY <1>5 DEF Retire, Shape
<1>6. CASE FlushBegin
  <2>1. flush' \in FlushShape
    BY <1>6 DEF FlushBegin, NoFlush, Alive, FlushShape
  <2>2. QED
    BY <1>6, <2>1 DEF FlushBegin, Shape
<1>7. ASSUME NEW h \in Ids, FlushSkip(h)
      PROVE  Shape'
  BY <1>7 DEF FlushSkip, Shape, FlushShape
<1>8. ASSUME NEW h \in Ids, FlushNext(h)
      PROVE  Shape'
  <2>1. flush' = [flush EXCEPT !.left = @ \ {h}] => flush' \in FlushShape
    BY DEF Shape, FlushShape
  <2>2. flush' = [flush EXCEPT !.left = @ \ {h}, !.error = TRUE, !.failed = @ \cup {h}]
          => flush' \in FlushShape
    <3>1. /\ flush \in FlushShape
          /\ flush.left \ {h} \in SUBSET Ids /\ flush.failed \cup {h} \in SUBSET Ids
      BY DEF Shape, FlushShape
    <3>2. QED
      BY <3>1 DEF FlushShape
  <2>3. unflushed' \subseteq Ids
    BY <1>8 DEF FlushNext, Shape
  <2>4. QED
    BY <1>8, <2>1, <2>2, <2>3 DEF FlushNext, Shape
<1>9. CASE FlushEnd \/ FlushReturn
  <2>1. CASE FlushEnd
    BY <2>1 DEF FlushEnd, Shape, FlushShape
  <2>2. CASE FlushReturn
    BY <2>2 DEF FlushReturn, NoFlush, Shape, FlushShape
  <2>3. QED
    BY <1>9, <2>1, <2>2
<1>10. ASSUME NEW from \in Paths, NEW to \in Paths, Rename(from, to)
       PROVE  Shape'
  <2>1. \A p \in Seq(Names) : Rebased(p, from, to) \in Seq(Names)
    BY RebasedIsPath
  <2>2. Moved(from, to) \in [Objects -> Seq(Names)]
    BY <1>0, <2>1 DEF Moved, Shape
  <2>3. \A confirmed \in BOOLEAN : Published(from, to, confirmed) \in [Ids -> ContextShape]
    BY <1>0, <2>1 DEF Published, ContextShape
  <2>4. QED
    BY <1>10, <2>2, <2>3 DEF Rename, Shape
<1>11. CASE UNCHANGED vars
  BY <1>11 DEF vars, Shape
<1>12. QED
  BY <1>1, <1>2, <1>3, <1>4, <1>5, <1>6, <1>7, <1>8, <1>9, <1>10, <1>11 DEF Next

\* Every field keeps its kind, for any number of contexts.
THEOREM ShapeAlways == Spec => []Shape
<1>1. Init => Shape
  BY InitShape
<1>2. Shape /\ [Next]_vars => Shape'
  BY NextShape
<1>3. QED
  BY <1>1, <1>2, PTL DEF Spec

(***************************************************************************)
(* The flush.                                                              *)
(***************************************************************************)
\* What is not flushed was written through a context that is alive and a writer;
\* in the loop it is still to be looked at, or its flush has failed.
Writers == {h \in Ids : contexts[h].state # "none" /\ HasWriter(contexts[h])}
Owing ==
  /\ unflushed \subseteq Writers
  /\ flush.phase = "loop" => unflushed \subseteq flush.left \cup flush.failed
  /\ flush.phase = "done" => unflushed \subseteq flush.failed
  /\ flush.error = (flush.failed # {})
FlushInv == Shape /\ Owing

LEMMA FlushInvInit == Init => FlushInv
<1>1. SUFFICES ASSUME Init PROVE Owing
  BY InitShape DEF FlushInv
<1>2. QED
  BY <1>1 DEF Init, Owing, NoFlush

LEMMA FlushInvNext == FlushInv /\ [Next]_vars => FlushInv'
<1>. SUFFICES ASSUME FlushInv, [Next]_vars
     PROVE  Owing'
  BY NextShape DEF FlushInv
<1>. USE DEF FlushInv
<1>0. /\ contexts \in [Ids -> ContextShape] /\ unflushed \subseteq Ids
      /\ flush \in FlushShape /\ flush.left \subseteq Ids
  BY DEF Shape, FlushShape
<1>1. ASSUME NEW h \in Ids, NEW o \in Objects, NEW file \in BOOLEAN, NEW writable \in BOOLEAN,
             Open(h, o, file, writable)
      PROVE  Owing'
  <2>1. /\ contexts[h].state = "none" /\ flush' = flush /\ unflushed' = unflushed
        /\ \A g \in Ids \ {h} : contexts'[g] = contexts[g]
    BY <1>0, <1>1 DEF Open
  <2>2. h \notin unflushed
    BY <2>1 DEF Owing, Writers
  <2>3. unflushed' \subseteq Writers'
    BY <1>0, <2>1, <2>2 DEF Owing, Writers
  <2>4. QED
    BY <2>1, <2>3 DEF Owing
<1>2. ASSUME NEW h \in Ids, Write(h) \/ FlushFile(h)
      PROVE  Owing'
  <2>1. /\ contexts' = contexts /\ flush' = flush /\ flush.phase = "idle"
        /\ unflushed' \subseteq unflushed \cup Writers
    BY <1>2 DEF Write, FlushFile, Guarded, Writers
  <2>2. unflushed' \subseteq Writers'
    BY <2>1 DEF Owing, Writers
  <2>3. QED
    BY <2>1, <2>2 DEF Owing
<1>3. ASSUME NEW h \in Ids, Cleanup(h)
      PROVE  Owing'
  <2>1. \A g \in Ids : /\ contexts[g].state # "none" => contexts'[g].state # "none"
                       /\ HasWriter(contexts[g]) => HasWriter(contexts'[g])
    BY <1>3, CleanedShape DEF HasWriter
  <2>2. flush' = flush /\ unflushed' = unflushed
    BY <1>3 DEF Cleanup
  <2>3. unflushed' \subseteq Writers'
    BY <2>1, <2>2 DEF Owing, Writers
  <2>4. QED
    BY <2>2, <2>3 DEF Owing
<1>4. ASSUME NEW h \in Ids, Close(h)
      PROVE  Owing'
  <2>1. /\ \A g \in Ids \ {h} : contexts'[g] = contexts[g]
        /\ flush' = flush /\ unflushed' = unflushed \ {h} /\ flush.phase = "idle"
    BY <1>0, <1>4 DEF Close, Guarded
  <2>2. unflushed' \subseteq Writers'
    BY <1>0, <2>1 DEF Owing, Writers
  <2>3. QED
    BY <2>1, <2>2 DEF Owing
<1>5. CASE Retire
  BY <1>5 DEF Retire, Owing, Writers
<1>6. CASE FlushBegin
  <2>1. /\ flush'.phase = "loop" /\ flush'.left = Alive /\ flush'.failed = {} /\ ~flush'.error
        /\ contexts' = contexts /\ unflushed' = unflushed
    BY <1>6 DEF FlushBegin, NoFlush
  <2>2. unflushed \subseteq Alive
    BY DEF Owing, Writers, Alive
  <2>3. flush'.error = (flush'.failed # {})
    BY <1>6 DEF FlushBegin, NoFlush
  <2>4. QED
    BY <2>1, <2>2, <2>3 DEF Owing, Writers
<1>7. ASSUME NEW h \in Ids, FlushSkip(h)
      PROVE  Owing'
  <2>1. /\ contexts' = contexts /\ unflushed' = unflushed /\ ~HasWriter(contexts[h])
        /\ flush'.phase = "loop" /\ flush.phase = "loop" /\ flush'.left = flush.left \ {h}
        /\ flush'.error = flush.error /\ flush'.failed = flush.failed
    BY <1>0, <1>7 DEF FlushSkip, FlushShape
  <2>2. h \notin unflushed
    BY <2>1 DEF Owing, Writers
  <2>3. QED
    BY <2>1, <2>2 DEF Owing, Writers
<1>8. ASSUME NEW h \in Ids, FlushNext(h)
      PROVE  Owing'
  <2>1. contexts' = contexts /\ flush.phase = "loop" /\ Writers' = Writers
    BY <1>8 DEF FlushNext, Writers
  <2>2. CASE /\ unflushed' = unflushed \ {h}
             /\ flush' = [flush EXCEPT !.left = @ \ {h}]
    <3>1. /\ flush'.phase = "loop" /\ flush'.left = flush.left \ {h}
          /\ flush'.error = flush.error /\ flush'.failed = flush.failed
      BY <1>0, <2>1, <2>2 DEF FlushShape
    <3>2. QED
      BY <2>1, <2>2, <3>1 DEF Owing
  <2>3. CASE /\ unflushed' = unflushed
             /\ flush' = [flush EXCEPT !.left = @ \ {h}, !.error = TRUE,
                                       !.failed = @ \cup {h}]
    <3>1. /\ flush'.phase = "loop" /\ flush'.left = flush.left \ {h}
          /\ flush'.error = TRUE /\ flush'.failed = flush.failed \cup {h}
      BY <1>0, <2>1, <2>3 DEF FlushShape
    <3>2. flush'.error = (flush'.failed # {})
      BY <3>1
    <3>3. QED
      BY <2>1, <2>3, <3>1, <3>2 DEF Owing
  <2>4. QED
    BY <1>8, <2>2, <2>3 DEF FlushNext
<1>9. CASE FlushEnd
  <2>1. /\ contexts' = contexts /\ unflushed' = unflushed
        /\ flush.phase = "loop" /\ flush'.phase = "done" /\ flush.left = {}
        /\ flush'.error = flush.error /\ flush'.failed = flush.failed
    BY <1>0, <1>9 DEF FlushEnd, FlushShape
  <2>2. QED
    BY <2>1 DEF Owing, Writers
<1>10. CASE FlushReturn
  BY <1>10 DEF FlushReturn, NoFlush, Owing, Writers
<1>11. ASSUME NEW from \in Paths, NEW to \in Paths, Rename(from, to)
       PROVE  Owing'
  <2>1. PICK confirmed \in BOOLEAN : contexts' = Published(from, to, confirmed)
    BY <1>11 DEF Rename
  <2>2. \A h \in Ids : /\ contexts'[h].state = contexts[h].state
                       /\ contexts'[h].file = contexts[h].file
                       /\ contexts'[h].writable = contexts[h].writable
    BY <1>0, <2>1 DEF Published, ContextShape
  <2>3. flush' = flush /\ unflushed' = unflushed
    BY <1>11 DEF Rename
  <2>4. QED
    BY <2>2, <2>3 DEF Owing, Writers, HasWriter
<1>12. CASE UNCHANGED vars
  BY <1>12 DEF vars, Owing, Writers
<1>13. QED
  BY <1>1, <1>2, <1>3, <1>4, <1>5, <1>6, <1>7, <1>8, <1>9, <1>10, <1>11, <1>12 DEF Next

\* A flush of the volume leaves nothing unflushed but what its failed calls named,
\* and fails if one of them did (OpenHandles::flush), for any number of contexts
\* and with the server lost at any point.
THEOREM FlushAlwaysHonest == Spec => []FlushHonest
<1>1. Init => FlushInv
  BY FlushInvInit
<1>2. FlushInv /\ [Next]_vars => FlushInv'
  BY FlushInvNext
<1>3. FlushInv => FlushHonest
  BY DEF FlushInv, Owing, FlushHonest
<1>4. QED
  BY <1>1, <1>2, <1>3, PTL DEF Spec

(***************************************************************************)
(* The paths of open contexts.                                             *)
(***************************************************************************)
\* No two objects are at the same place: the removal and the replacement of one
\* leave the paths of the others.
Distinct == \A o, q \in Objects : o # q /\ tree[o] # Gone => tree[o] # tree[q]
Following ==
  serving => \A h \in Ids : contexts[h].state = "open" =>
    /\ contexts[h].object \in Objects
    /\ contexts[h].path = tree[contexts[h].object]
    /\ contexts[h].path # Gone
PathInv == Shape /\ Distinct /\ Following

LEMMA PathInvInit == Init => PathInv
<1>1. SUFFICES ASSUME Init PROVE Distinct /\ Following
  BY InitShape DEF PathInv
<1>2. Distinct
  BY <1>1 DEF Init, WellFormed, Distinct
<1>3. Following
  BY <1>1 DEF Init, NoContext, Following
<1>4. QED
  BY <1>2, <1>3

LEMMA RenameFollows ==
  ASSUME PathInv, NEW from \in Paths, NEW to \in Paths, Rename(from, to)
  PROVE  (Distinct /\ Following)'
<1>. USE DEF PathInv
<1>0. /\ contexts \in [Ids -> ContextShape] /\ tree \in [Objects -> Seq(Names)] /\ serving
  BY DEF Shape, Rename
<1>1. PICK confirmed \in BOOLEAN, acted \in BOOLEAN, timely \in BOOLEAN :
        /\ confirmed => acted /\ timely
        /\ acted => Renamable(from, to) /\ (confirmed \/ ~timely)
        /\ tree' = IF acted THEN Moved(from, to) ELSE tree
        /\ serving' = timely
        /\ contexts' = Published(from, to, confirmed)
  BY DEF Rename
<1>2. \A h \in Ids :
        /\ contexts'[h].state = contexts[h].state
        /\ contexts'[h].object = contexts[h].object
        /\ contexts'[h].path = IF confirmed THEN Rebased(contexts[h].path, from, to)
                                            ELSE contexts[h].path
  BY <1>0, <1>1 DEF Published, ContextShape
<1>3. CASE ~acted
  BY <1>0, <1>1, <1>2, <1>3 DEF Distinct, Following
<1>4. CASE acted
  <2>1. Distinct'
    <3>1. WellFormed(Moved(from, to)) /\ tree' = Moved(from, to)
      BY <1>1, <1>4 DEF Renamable
    <3>2. WellFormed(tree')
      BY <3>1
    <3>3. QED
      BY <3>2 DEF WellFormed, Distinct
  <2>2. CASE ~confirmed
    BY <1>1, <1>4, <2>1, <2>2 DEF Following
  <2>3. CASE confirmed
    <3>1. SUFFICES ASSUME NEW h \in Ids, contexts[h].state = "open"
                   PROVE  /\ contexts'[h].object \in Objects
                          /\ contexts'[h].path = tree'[contexts'[h].object]
                          /\ contexts'[h].path # Gone
      BY <1>2, <2>1 DEF Following
    <3>. DEFINE o == contexts[h].object
    <3>2. o \in Objects /\ contexts[h].path = tree[o] /\ tree[o] # Gone /\ tree[o] \in Seq(Names)
      BY <1>0, <3>1 DEF Following
    <3>3. ~(tree[o] = to /\ to # from)
      BY <1>1, <1>4, <3>1, <3>2 DEF Renamable
    <3>4. Moved(from, to)[o] = Rebased(tree[o], from, to)
      BY <3>2, <3>3 DEF Moved
    <3>5. Rebased(tree[o], from, to) # Gone
      BY <3>2, RebasedIsPath
    <3>6. QED
      BY <1>1, <1>2, <1>4, <2>3, <3>2, <3>4, <3>5
  <2>4. QED
    BY <2>2, <2>3
<1>5. QED
  BY <1>3, <1>4

LEMMA PathInvNext == PathInv /\ [Next]_vars => PathInv'
<1>. SUFFICES ASSUME PathInv, [Next]_vars
     PROVE  (Distinct /\ Following)'
  BY NextShape DEF PathInv
<1>. USE DEF PathInv
<1>0. /\ contexts \in [Ids -> ContextShape] /\ tree \in [Objects -> Seq(Names)]
  BY DEF Shape
<1>1. ASSUME NEW h \in Ids, NEW o \in Objects, NEW file \in BOOLEAN, NEW writable \in BOOLEAN,
             Open(h, o, file, writable)
      PROVE  (Distinct /\ Following)'
  <2>1. /\ \A g \in Ids \ {h} : contexts'[g] = contexts[g]
        /\ contexts'[h].object = o /\ contexts'[h].path = tree[o]
        /\ tree[o] # Gone /\ tree' = tree /\ serving' = serving
    BY <1>0, <1>1 DEF Open
  <2>2. QED
    BY <2>1 DEF Distinct, Following
<1>2. ASSUME NEW h \in Ids, Cleanup(h)
      PROVE  (Distinct /\ Following)'
  <2>1. /\ \A g \in Ids \ {h} : contexts'[g] = contexts[g]
        /\ contexts'[h].state = "cleaned" /\ contexts[h].state = "open"
        /\ serving' = serving
    BY <1>2, CleanedShape DEF Cleanup
  <2>2. CASE tree' = tree
    BY <2>1, <2>2 DEF Distinct, Following
  <2>3. CASE tree' # tree
    <3>. DEFINE o == contexts[h].object
    <3>1. /\ serving
          /\ \A g \in Ids \ {h} : contexts[g].state = "open" => contexts[g].object # o
          /\ tree' = [q \in Objects |-> IF tree[q] = contexts[h].path THEN Gone ELSE tree[q]]
      BY <1>2, <2>3 DEF Cleanup
    <3>2. o \in Objects /\ contexts[h].path = tree[o] /\ tree[o] # Gone
      BY <2>1, <3>1 DEF Following
    <3>3. \A q \in Objects \ {o} : tree'[q] = tree[q]
      BY <3>1, <3>2 DEF Distinct
    <3>4. tree'[o] = Gone
      BY <3>1, <3>2
    <3>5. Distinct'
      BY <3>2, <3>3, <3>4 DEF Distinct
    <3>6. Following'
      BY <2>1, <3>1, <3>3 DEF Following
    <3>7. QED
      BY <3>5, <3>6
  <2>4. QED
    BY <2>2, <2>3
<1>3. ASSUME NEW h \in Ids, Close(h)
      PROVE  (Distinct /\ Following)'
  <2>1. /\ \A g \in Ids \ {h} : contexts'[g] = contexts[g]
        /\ contexts'[h].state = "none" /\ serving' = serving /\ tree' = tree
    BY <1>0, <1>3 DEF Close, NoContext
  <2>2. QED
    BY <2>1 DEF Distinct, Following
<1>4. CASE Retire
  BY <1>4 DEF Retire, Distinct, Following
<1>5. ASSUME \/ \E h \in Ids : Write(h) \/ FlushFile(h) \/ FlushSkip(h) \/ FlushNext(h)
             \/ FlushBegin \/ FlushEnd \/ FlushReturn
      PROVE  (Distinct /\ Following)'
  <2>1. UNCHANGED <<tree, serving, contexts>>
    BY <1>5 DEF Write, FlushFile, FlushSkip, FlushNext, FlushBegin, FlushEnd, FlushReturn
  <2>2. QED
    BY <2>1 DEF Distinct, Following
<1>6. CASE UNCHANGED vars
  BY <1>6 DEF vars, Distinct, Following
<1>7. QED
  BY <1>1, <1>2, <1>3, <1>4, <1>5, <1>6, RenameFollows DEF Next

\* The path of an open context is where its object is now (OpenHandles::rename,
\* Fs::cleanup), for any number of contexts and any tree of two levels.
THEOREM PathsAlwaysFollow == Spec => []PathsFollow
<1>1. Init => PathInv
  BY PathInvInit
<1>2. PathInv /\ [Next]_vars => PathInv'
  BY PathInvNext
<1>3. PathInv => PathsFollow
  BY DEF PathInv, Following, PathsFollow
<1>4. QED
  BY <1>1, <1>2, <1>3, PTL DEF Spec
==============================================================================
