-------------------------- MODULE DirectoriesProofs --------------------------
(***************************************************************************)
(* The safety of the directory cursors of both mounts, for directories,    *)
(* batches and pages of any size, and any number of reopenings.            *)
(***************************************************************************)
EXTENDS MCDirectories, Integers, SequenceTheorems, TLAPS

(***************************************************************************)
(* Entries that follow each other.                                         *)
(***************************************************************************)
\* The place a reader is at, who was at e and has taken q.
Through(e, q) == IF q = <<>> THEN e ELSE q[Len(q)]

\* Follows, when g was deleted.
Consecutive(e, q, g) ==
  \A i \in DOMAIN q :
    LET before == IF i = 1 THEN e ELSE q[i - 1]
    IN before < q[i] /\ before + 1 .. q[i] - 1 \subseteq g

\* What a stream may be, with its entries from E.
StreamsOf(E) == [fetched : Nat, pending : Seq(E), eof : BOOLEAN, opened : Nat]

\* The end of a stream is found once, after everything that it had to list.
EndSound(s, g) == s.eof => s.pending = <<>> /\ s.fetched + 1 .. s.opened \subseteq g

\* Both mounts read the same pages.
LEMMA SameReplies ==
  ASSUME NEW h
  PROVE  F!Replies(h) = W!Replies(h)
<1>1. \A e, q : F!Follows(e, q) = W!Follows(e, q)
  BY DEF F!Follows, W!Follows
<1>2. \A s : F!Batches(s) = W!Batches(s)
  <2> SUFFICES ASSUME NEW s PROVE F!Batches(s) = W!Batches(s)
    OBVIOUS
  <2>1. F!BoundedSeq((s.fetched + 1 .. size) \ gone, Batch)
          = W!BoundedSeq((s.fetched + 1 .. size) \ gone, Batch)
    BY DEF F!BoundedSeq, W!BoundedSeq, F!SeqOf, W!SeqOf
  <2> QED BY <1>1, <2>1 DEF F!Batches, W!Batches
<1>3. \A s : F!Fetched(s) = W!Fetched(s)
  BY <1>2 DEF F!Fetched, W!Fetched, F!Last, W!Last
<1>4. \A s : F!Drained(s) = W!Drained(s)
  BY DEF F!Drained, W!Drained, F!PageLength, W!PageLength
<1> QED BY <1>3, <1>4 DEF F!Replies, W!Replies

LEMMA NoEntries == ASSUME NEW E, NEW q \in Seq(E) PROVE q = <<>> <=> Len(q) = 0
BY EmptySeq

\* Taking the first of the entries that follow e: it is the next one that is not
\* deleted, and the others follow it.
LEMMA Behead ==
  ASSUME NEW E \in SUBSET Nat, NEW q \in Seq(E), q # <<>>, NEW e \in Nat, NEW g, Consecutive(e, q, g)
  PROVE  /\ Head(q) \in E /\ Tail(q) \in Seq(E)
         /\ e < Head(q) /\ e + 1 .. Head(q) - 1 \subseteq g
         /\ Consecutive(Head(q), Tail(q), g)
         /\ Through(Head(q), Tail(q)) = Through(e, q)
<1>1. /\ Head(q) = q[1] /\ Head(q) \in E /\ Tail(q) \in Seq(E)
      /\ Len(q) \in Nat \ {0} /\ Len(Tail(q)) = Len(q) - 1
  OBVIOUS
<1>2. \A i \in 1 .. Len(q) - 1 : Tail(q)[i] = q[i + 1]
  OBVIOUS
<1>3. Tail(q) = <<>> <=> Len(q) = 1
  <2>1. Tail(q) \in Seq(E)
    OBVIOUS
  <2>2. Tail(q) = <<>> <=> Len(Tail(q)) = 0
    BY <2>1, NoEntries
  <2>3. Len(Tail(q)) = Len(q) - 1 /\ Len(q) \in Nat
    BY <1>1
  <2> QED BY <2>2, <2>3
<1>4. e < Head(q) /\ e + 1 .. Head(q) - 1 \subseteq g
  BY <1>1 DEF Consecutive
<1>5. Consecutive(Head(q), Tail(q), g)
  <2> SUFFICES ASSUME NEW i \in 1 .. Len(q) - 1
               PROVE  LET before == IF i = 1 THEN Head(q) ELSE Tail(q)[i - 1]
                      IN  /\ before < Tail(q)[i]
                          /\ before + 1 .. Tail(q)[i] - 1 \subseteq g
    BY <1>1 DEF Consecutive
  <2>1. (IF i = 1 THEN Head(q) ELSE Tail(q)[i - 1]) = q[i] /\ Tail(q)[i] = q[i + 1]
    BY <1>1, <1>2
  <2>2. i + 1 \in DOMAIN q /\ i + 1 # 1 /\ (i + 1) - 1 = i
    BY <1>1
  <2>3. q[i] < q[i + 1] /\ q[i] + 1 .. q[i + 1] - 1 \subseteq g
    BY <2>2 DEF Consecutive
  <2> QED BY <2>1, <2>3
<1>6. Through(Head(q), Tail(q)) = Through(e, q)
  <2>1. CASE Len(q) = 1
    <3>1. Tail(q) = <<>>
      BY <1>3, <2>1
    <3> QED BY <1>1, <2>1, <3>1 DEF Through
  <2>2. CASE Len(q) # 1
    <3>1. Len(q) - 1 \in 1 .. Len(q) - 1 /\ (Len(q) - 1) + 1 = Len(q)
      BY <1>1, <2>2
    <3>2. Tail(q)[Len(q) - 1] = q[Len(q)]
      BY <1>1, <1>2, <3>1
    <3>3. Tail(q) # <<>>
      BY <1>3, <2>2
    <3> QED BY <1>1, <3>2, <3>3 DEF Through
  <2> QED BY <2>1, <2>2
<1> QED BY <1>1, <1>4, <1>5, <1>6

\* A page follows e, and what stays behind follows the page.
LEMMA SplitFollows ==
  ASSUME NEW E \in SUBSET Nat, NEW q \in Seq(E), NEW e \in Nat, NEW g, Consecutive(e, q, g),
         NEW k \in 0 .. Len(q)
  PROVE  LET page == SubSeq(q, 1, k)
             rest == SubSeq(q, k + 1, Len(q))
         IN  /\ page \in Seq(E) /\ rest \in Seq(E)
             /\ Consecutive(e, page, g) /\ Consecutive(Through(e, page), rest, g)
             /\ Through(Through(e, page), rest) = Through(e, q)
<1> DEFINE page == SubSeq(q, 1, k)
           rest == SubSeq(q, k + 1, Len(q))
<1>1. Len(q) \in Nat /\ k \in Nat /\ k <= Len(q)
  OBVIOUS
<1>2. /\ page \in Seq(E) /\ Len(page) = k
      /\ \A i \in 1 .. k : page[i] = q[i]
  BY <1>1
<1>3. /\ rest \in Seq(E) /\ Len(rest) = Len(q) - k
      /\ \A i \in 1 .. Len(q) - k : rest[i] = q[k + i]
  <2>1. rest = [i \in 1 .. Len(q) - k |-> q[k + i]]
    BY <1>1
  <2>2. \A i \in 1 .. Len(q) - k : q[k + i] \in E
    BY <1>1
  <2>3. Len(q) - k \in Nat
    BY <1>1
  <2> QED BY <2>1, <2>2, <2>3
<1> HIDE DEF page, rest
<1>4. Consecutive(e, page, g)
  <2> SUFFICES ASSUME NEW i \in 1 .. k
               PROVE  LET before == IF i = 1 THEN e ELSE page[i - 1]
                      IN  before < page[i] /\ before + 1 .. page[i] - 1 \subseteq g
    BY <1>2 DEF Consecutive
  <2>1. (IF i = 1 THEN e ELSE page[i - 1]) = (IF i = 1 THEN e ELSE q[i - 1]) /\ page[i] = q[i]
    BY <1>1, <1>2
  <2>2. i \in DOMAIN q
    BY <1>1
  <2> QED BY <2>1, <2>2 DEF Consecutive
<1>5. Through(e, page) = IF k = 0 THEN e ELSE q[k]
  BY <1>1, <1>2 DEF Through
<1>6. Consecutive(Through(e, page), rest, g)
  <2> SUFFICES ASSUME NEW i \in 1 .. Len(q) - k
               PROVE  LET before == IF i = 1 THEN Through(e, page) ELSE rest[i - 1]
                      IN  before < rest[i] /\ before + 1 .. rest[i] - 1 \subseteq g
    BY <1>3 DEF Consecutive
  <2>1. k + i \in DOMAIN q
    BY <1>1
  <2>2. rest[i] = q[k + i]
    BY <1>3
  <2>3. i # 1 => rest[i - 1] = q[(k + i) - 1]
    <3>1. i # 1 => i - 1 \in 1 .. Len(q) - k /\ k + (i - 1) = (k + i) - 1
      BY <1>1
    <3> QED BY <1>3, <3>1
  <2>4. (IF i = 1 THEN Through(e, page) ELSE rest[i - 1])
          = IF k + i = 1 THEN e ELSE q[(k + i) - 1]
    BY <1>1, <1>5, <2>3
  <2> QED BY <2>1, <2>2, <2>4 DEF Consecutive
<1>7. Through(Through(e, page), rest) = Through(e, q)
  <2>1. CASE k = Len(q)
    BY <1>1, <1>3, <1>5, <2>1 DEF Through
  <2>2. CASE k # Len(q)
    <3>1. Len(q) - k \in Nat \ {0} /\ k + (Len(q) - k) = Len(q)
      BY <1>1, <2>2
    <3>2. rest[Len(q) - k] = q[Len(q)]
      <4> DEFINE n == Len(q) - k
      <4>1. n \in Nat \ {0}
        BY <3>1
      <4> HIDE DEF n
      <4>2. n \in 1 .. n
        BY <4>1
      <4> QED BY <1>3, <3>1, <4>2 DEF n
    <3>3. rest # <<>> /\ q # <<>>
      BY <1>1, <1>3, <2>2, NoEntries
    <3> QED BY <1>3, <3>2, <3>3 DEF Through
  <2> QED BY <2>1, <2>2
<1> QED BY <1>2, <1>3, <1>4, <1>6, <1>7 DEF page, rest

\* A cursor at e has buffered p of the stream s: these are the entries after e, and
\* what the stream has pending are the ones after them, up to where it is.
Placed(e, p, s, g) ==
  /\ Consecutive(e, p, g)
  /\ Consecutive(Through(e, p), s.pending, g)
  /\ s.fetched = Through(Through(e, p), s.pending)

\* A cursor that takes the first entry it has buffered is placed at that entry,
\* which is the next one that is not deleted.
LEMMA TakePlaced ==
  ASSUME NEW E \in SUBSET Nat, NEW p \in Seq(E), p # <<>>, NEW e \in Nat, NEW s, NEW g,
         Placed(e, p, s, g)
  PROVE  /\ Head(p) \in E /\ Tail(p) \in Seq(E)
         /\ e < Head(p) /\ e + 1 .. Head(p) - 1 \subseteq g
         /\ Placed(Head(p), Tail(p), s, g)
BY Behead DEF Placed

\* Deletions leave a cursor where it is.
LEMMA StillPlaced ==
  ASSUME NEW e, NEW p, NEW s, NEW g, NEW h, g \subseteq h, Placed(e, p, s, g)
  PROVE  Placed(e, p, s, h)
BY DEF Placed, Consecutive

\* A page is what comes next for a cursor that has nothing buffered, and an empty
\* page is the end of the stream.
LEMMA Pages ==
  ASSUME size \in Nat, NEW E \in SUBSET Nat, 1 .. size \subseteq E,
         NEW s \in StreamsOf(E), EndSound(s, gone),
         NEW e \in Nat, Placed(e, <<>>, s, gone),
         NEW t \in W!Fetched(s), NEW r, r = W!Drained(t)
  PROVE  /\ r.entries \in Seq(E) /\ r.stream \in StreamsOf(E)
         /\ EndSound(r.stream, gone) /\ r.stream.opened = s.opened
         /\ Placed(e, r.entries, r.stream, gone)
         /\ r.entries = <<>> => r.stream.eof
<1>1. /\ s.fetched \in Nat /\ s.pending \in Seq(E) /\ s.eof \in BOOLEAN /\ s.opened \in Nat
      /\ Consecutive(e, s.pending, gone) /\ s.fetched = Through(e, s.pending)
  BY DEF StreamsOf, Placed, Through
<1>2. /\ t \in StreamsOf(E) /\ t.opened = s.opened /\ EndSound(t, gone)
      /\ Consecutive(e, t.pending, gone) /\ t.fetched = Through(e, t.pending)
      /\ t.pending = <<>> => t.eof
  <2>1. CASE s.pending # <<>> \/ s.eof
    <3>1. t = s
      BY <2>1 DEF W!Fetched
    <3> QED BY <1>1, <2>1, <3>1
  <2>2. CASE s.pending = <<>> /\ ~s.eof
    <3>1. PICK q \in W!Batches(s) :
            t = [s EXCEPT !.fetched = IF q = <<>> THEN @ ELSE W!Last(q),
                          !.pending = q, !.eof = (q = <<>>)]
      BY <2>2 DEF W!Fetched
    <3>2. /\ Consecutive(s.fetched, q, gone)
          /\ q = <<>> => s.fetched + 1 .. s.opened \subseteq gone
      BY DEF W!Batches, W!Follows, Consecutive
    <3>3. PICK m \in Nat : q \in [1 .. m -> (s.fetched + 1 .. size) \ gone]
      BY CursorAssumption DEF W!Batches, W!BoundedSeq, W!SeqOf, W!DirectoryAssumption
    <3>4. (s.fetched + 1 .. size) \ gone \subseteq E
      BY <1>1
    <3>5. q \in Seq(E)
      BY <3>3, <3>4
    <3>6. s.fetched = e
      BY <1>1, <2>2 DEF Through
    <3>7. /\ t.pending = q /\ t.eof = (q = <<>>) /\ t.opened = s.opened
          /\ t.fetched = Through(e, q)
      BY <3>1, <3>6 DEF StreamsOf, Through, W!Last
    <3>8. Through(e, q) \in Nat
      <4>1. q # <<>> => Len(q) \in Nat \ {0}
        BY <3>5, EmptySeq
      <4>2. q # <<>> => q[Len(q)] \in E
        BY <3>5, <4>1
      <4> QED BY <4>2 DEF Through
    <3>9. t \in StreamsOf(E)
      BY <1>1, <3>1, <3>5, <3>7, <3>8 DEF StreamsOf
    <3> QED BY <3>2, <3>6, <3>7, <3>9 DEF EndSound, Through
  <2> QED BY <1>1, <2>1, <2>2
<1> DEFINE k == W!PageLength(t)
<1>3. t.pending \in Seq(E) /\ Len(t.pending) \in Nat
  BY <1>2 DEF StreamsOf
<1>4. k \in 0 .. Len(t.pending) /\ (k = 0 => Len(t.pending) = 0)
  BY <1>3, CursorAssumption DEF W!PageLength, W!DirectoryAssumption
<1>5. /\ r.entries = SubSeq(t.pending, 1, k)
      /\ r.stream = [t EXCEPT !.pending = SubSeq(@, k + 1, Len(@))]
  BY DEF W!Drained
<1> HIDE DEF k
<1>6. /\ r.stream.fetched = t.fetched /\ r.stream.eof = t.eof /\ r.stream.opened = t.opened
      /\ r.stream.pending = SubSeq(t.pending, k + 1, Len(t.pending))
  BY <1>2, <1>5 DEF StreamsOf
<1>7. /\ r.entries \in Seq(E) /\ r.stream.pending \in Seq(E)
      /\ Consecutive(e, r.entries, gone)
      /\ Consecutive(Through(e, r.entries), r.stream.pending, gone)
      /\ Through(Through(e, r.entries), r.stream.pending) = t.fetched
  <2> DEFINE q    == t.pending
             page == SubSeq(q, 1, k)
             rest == SubSeq(q, k + 1, Len(q))
  <2>1. q \in Seq(E) /\ Consecutive(e, q, gone) /\ k \in 0 .. Len(q)
    BY <1>2, <1>3, <1>4
  <2> HIDE DEF q
  <2>2. /\ page \in Seq(E) /\ rest \in Seq(E)
        /\ Consecutive(e, page, gone) /\ Consecutive(Through(e, page), rest, gone)
        /\ Through(Through(e, page), rest) = Through(e, q)
    BY <2>1, SplitFollows
  <2>3. r.entries = page /\ r.stream.pending = rest /\ t.fetched = Through(e, q)
    BY <1>2, <1>5, <1>6 DEF q
  <2> QED BY <2>2, <2>3
<1>8. r.stream \in StreamsOf(E)
  BY <1>2, <1>5, <1>6, <1>7 DEF StreamsOf
<1>9. EndSound(r.stream, gone)
  <2>1. ASSUME t.pending = <<>> PROVE r.stream.pending = <<>>
    BY <1>3, <1>4, <1>6, <2>1
  <2> QED BY <1>2, <1>6, <2>1 DEF EndSound
<1>10. r.entries = <<>> => t.pending = <<>>
  <2>1. Len(r.entries) = k
    BY <1>3, <1>4, <1>5
  <2> QED BY <1>3, <1>4, <2>1, NoEntries
<1> QED BY <1>2, <1>6, <1>7, <1>8, <1>9, <1>10 DEF Placed

(***************************************************************************)
(* The cursor of the FUSE mount.                                           *)
(***************************************************************************)
FuseTypes ==
  /\ {size, allocated, remote, offset, asked} \subseteq Nat
  /\ gone = {}
  /\ pending \in Seq(Nat) /\ seen \in Seq(Nat) /\ answer \in Seq(Nat \X Nat)
  /\ {eof, ended} \subseteq BOOLEAN
  /\ step \in {"idle", "open", "loop"}
  /\ \A h \in DOMAIN streams : streams[h] \in StreamsOf(Nat) /\ EndSound(streams[h], gone)

FuseHandle == F!HandleOwned /\ (step = "open" => remote = 0)

\* The offset is the entry that was taken last, for nothing was deleted.
FusePlace ==
  IF remote = 0
    THEN offset = 0 /\ pending = <<>> /\ ~eof
    ELSE /\ Placed(offset, pending, streams[remote], gone)
         /\ eof => pending = <<>> /\ streams[remote].eof

\* The reply goes from the offset that was asked for to the one the cursor is at.
FuseReply ==
  /\ \A i \in DOMAIN answer : answer[i] = <<asked + i, asked + i>>
  /\ IF step = "loop"
       THEN Len(answer) = IF offset > asked THEN offset - asked ELSE 0
       ELSE answer = <<>>

\* The reader asks at its place, and what it is told at the end is true.
FuseReader ==
  /\ step # "idle" => Len(seen) = asked /\ ~ended
  /\ ended => remote # 0 /\ streams[remote].opened <= Len(seen)

FuseInv == FuseTypes /\ FuseHandle /\ FusePlace /\ FuseReply /\ FuseReader

\* A stream that was just opened.
LEMMA OpenedIs ==
  ASSUME NEW n, n = [fetched |-> 0, pending |-> <<>>, eof |-> FALSE, opened |-> size],
         size \in Nat, NEW E \in SUBSET Nat, NEW g
  PROVE  n \in StreamsOf(E) /\ EndSound(n, g) /\ Placed(0, <<>>, n, g)
BY EmptySeq DEF StreamsOf, EndSound, Placed, Consecutive, Through

LEMMA FuseStart == F!Init => FuseInv
<1> SUFFICES ASSUME F!Init PROVE FuseInv
  OBVIOUS
<1>1. /\ size \in Nat /\ gone = {} /\ allocated = 1 /\ DOMAIN streams = {1}
      /\ streams[1] = [fetched |-> 0, pending |-> <<>>, eof |-> FALSE, opened |-> size]
      /\ remote = 1 /\ offset = 0 /\ pending = <<>> /\ eof = FALSE /\ step = "idle"
      /\ asked = 0 /\ answer = <<>> /\ seen = <<>> /\ ended = FALSE
  BY CursorAssumption DEF F!Init, F!NewStream, F!DirectoryAssumption
<1>2. FuseTypes
  <2>1. streams[1] \in StreamsOf(Nat) /\ EndSound(streams[1], gone)
    BY <1>1, OpenedIs
  <2>2. pending \in Seq(Nat) /\ seen \in Seq(Nat) /\ answer \in Seq(Nat \X Nat)
    BY <1>1, EmptySeq
  <2>3. {size, allocated, remote, offset, asked} \subseteq Nat
    BY <1>1
  <2>4. {eof, ended} \subseteq BOOLEAN /\ step \in {"idle", "open", "loop"}
    BY <1>1
  <2>5. \A h \in DOMAIN streams : streams[h] \in StreamsOf(Nat) /\ EndSound(streams[h], gone)
    BY <1>1, <2>1
  <2> QED BY <1>1, <2>2, <2>3, <2>4, <2>5 DEF FuseTypes
<1>3. FuseHandle
  BY <1>1 DEF FuseHandle, F!HandleOwned, F!NoHandle
<1>4. FusePlace
  BY <1>1 DEF FusePlace, Placed, Consecutive, Through
<1>5. FuseReply
  BY <1>1 DEF FuseReply
<1>6. FuseReader
  BY <1>1 DEF FuseReader
<1> QED BY <1>2, <1>3, <1>4, <1>5, <1>6 DEF FuseInv

\* What prepare does with the offset of a read: the cursor goes on, or starts over
\* without a stream.
LEMMA ReadIs ==
  ASSUME FuseInv, NEW o, F!Read(o)
  PROVE  /\ step = "idle" /\ asked' = o
         /\ UNCHANGED <<answer, size, gone, allocated>>
         /\ \/ /\ remote # 0 /\ o >= offset /\ step' = "loop"
               /\ UNCHANGED <<remote, offset, pending, eof, streams>>
            \/ /\ remote' = 0 /\ offset' = 0 /\ pending' = <<>> /\ eof' = FALSE
               /\ DOMAIN streams' = {} /\ step' \in {"open", "idle"}
BY DEF F!Read, F!Retire, F!Restart, F!CloseDirectory, F!NoHandle, F!cursorVars, F!serverVars,
       FuseInv, FuseHandle, F!HandleOwned

\* A read by a reader whose place is the offset.
LEMMA ReadKeeps ==
  ASSUME FuseInv, NEW o \in Nat, F!Read(o), seen' \in Seq(Nat), Len(seen') = o, ~ended', ended' \in BOOLEAN
  PROVE  FuseInv'
<1>0. /\ step = "idle" /\ asked' = o
      /\ UNCHANGED <<answer, size, gone, allocated>>
      /\ \/ /\ remote # 0 /\ o >= offset /\ step' = "loop"
            /\ UNCHANGED <<remote, offset, pending, eof, streams>>
         \/ /\ remote' = 0 /\ offset' = 0 /\ pending' = <<>> /\ eof' = FALSE
            /\ DOMAIN streams' = {} /\ step' \in {"open", "idle"}
  BY ReadIs
<1>1. FuseTypes'
  <2>1. pending' \in Seq(Nat)
    BY <1>0, EmptySeq DEF FuseInv, FuseTypes
  <2>2. {size, allocated, remote, offset, asked}' \subseteq Nat /\ gone' = {}
    BY <1>0 DEF FuseInv, FuseTypes
  <2>3. step' \in {"idle", "open", "loop"} /\ eof' \in BOOLEAN
    BY <1>0 DEF FuseInv, FuseTypes
  <2>4. \A h \in DOMAIN streams' : streams'[h] \in StreamsOf(Nat) /\ EndSound(streams'[h], gone')
    BY <1>0 DEF FuseInv, FuseTypes
  <2> QED BY <1>0, <2>1, <2>2, <2>3, <2>4 DEF FuseInv, FuseTypes
<1>2. FuseHandle'
  BY <1>0 DEF FuseInv, FuseHandle, F!HandleOwned, F!NoHandle
<1>3. FusePlace'
  BY <1>0 DEF FuseInv, FusePlace
<1>4. FuseReply'
  <2>1. answer = <<>> /\ answer' = <<>> /\ Len(answer') = 0
    BY <1>0, EmptySeq DEF FuseInv, FuseReply
  <2>2. step' = "loop" => ~(offset' > asked')
    BY <1>0 DEF FuseInv, FuseTypes
  <2>3. \A i \in DOMAIN answer' : answer'[i] = <<asked' + i, asked' + i>>
    BY <2>1
  <2> QED BY <2>1, <2>2, <2>3 DEF FuseReply
<1>5. FuseReader'
  BY <1>0 DEF FuseReader
<1> QED BY <1>1, <1>2, <1>3, <1>4, <1>5 DEF FuseInv

LEMMA FuseReopen == FuseInv /\ F!Reopen => FuseInv'
<1> SUFFICES ASSUME FuseInv, F!Reopen PROVE FuseInv'
  OBVIOUS
<1>1. /\ step = "open" /\ remote = 0 /\ DOMAIN streams = {}
      /\ offset = 0 /\ pending = <<>> /\ ~eof /\ answer = <<>>
      /\ UNCHANGED <<offset, pending, eof, asked, answer, seen, ended>>
  BY DEF F!Reopen, F!readerVars, FuseInv, FuseHandle, FusePlace, FuseReply, F!HandleOwned, F!NoHandle
<1>2. CASE F!OpenDirectory /\ remote' = allocated' /\ step' = "loop"
  <2> DEFINE n == [fetched |-> 0, pending |-> <<>>, eof |-> FALSE, opened |-> size]
  <2>1. /\ allocated' = allocated + 1 /\ UNCHANGED <<size, gone>>
        /\ DOMAIN streams' = {allocated'} /\ streams'[allocated'] = n
    BY <1>1, <1>2 DEF F!OpenDirectory, F!NewStream
  <2>2. allocated' \in Nat /\ allocated' # 0
    BY <2>1 DEF FuseInv, FuseTypes
  <2>3. n \in StreamsOf(Nat) /\ EndSound(n, gone) /\ Placed(0, <<>>, n, gone)
    BY OpenedIs DEF FuseInv, FuseTypes
  <2> HIDE DEF n
  <2>4. FuseTypes'
    BY <1>1, <1>2, <2>1, <2>2, <2>3 DEF FuseInv, FuseTypes
  <2>5. FuseHandle'
    BY <1>2, <2>1, <2>2 DEF FuseHandle, F!HandleOwned, F!NoHandle
  <2>6. FusePlace'
    BY <1>1, <1>2, <2>1, <2>2, <2>3 DEF FusePlace
  <2>7. FuseReply'
    BY <1>1, <1>2, EmptySeq DEF FuseInv, FuseTypes, FuseReply
  <2>8. FuseReader'
    BY <1>1 DEF FuseInv, FuseReader
  <2> QED BY <2>4, <2>5, <2>6, <2>7, <2>8 DEF FuseInv
<1>3. CASE step' = "idle" /\ UNCHANGED <<F!serverVars, remote>>
  <2>1. /\ step' = "idle" /\ remote' = 0 /\ DOMAIN streams' = {}
        /\ UNCHANGED <<size, gone, allocated, streams, remote>>
    BY <1>1, <1>3 DEF F!serverVars
  <2>2. FuseTypes'
    BY <1>1, <2>1 DEF FuseInv, FuseTypes
  <2>3. FuseHandle' /\ FusePlace'
    BY <1>1, <2>1 DEF FuseHandle, FusePlace, F!HandleOwned, F!NoHandle
  <2>4. FuseReply'
    BY <1>1, <2>1 DEF FuseInv, FuseReply
  <2>5. FuseReader'
    BY <1>1, <2>1 DEF FuseInv, FuseReader
  <2> QED BY <2>2, <2>3, <2>4, <2>5 DEF FuseInv
<1> QED BY <1>2, <1>3 DEF F!Reopen

LEMMA FuseFill == FuseInv /\ F!Fill => FuseInv'
<1> SUFFICES ASSUME FuseInv, F!Fill PROVE FuseInv'
  OBVIOUS
<1> DEFINE s == streams[remote]
<1>1. /\ step = "loop" /\ remote # 0 /\ DOMAIN streams = {remote} /\ pending = <<>> /\ ~eof
      /\ UNCHANGED <<remote, offset, asked, seen, ended>>
  BY DEF F!Fill, F!readerVars, FuseInv, FuseHandle, F!HandleOwned, F!NoHandle
<1>2. /\ s \in StreamsOf(Nat) /\ EndSound(s, gone) /\ Placed(offset, <<>>, s, gone)
  BY <1>1 DEF FuseInv, FuseTypes, FusePlace
<1>3. ASSUME NEW reply \in F!Replies(remote),
             F!ReadDirectory(remote, reply), pending' = reply.entries,
             eof' = (reply.entries = <<>>), UNCHANGED <<step, answer>>
      PROVE  FuseInv'
  <2>1. PICK t \in W!Fetched(s) : reply = W!Drained(t)
    BY <1>3, SameReplies DEF W!Replies
  <2>2. /\ reply.entries \in Seq(Nat) /\ reply.stream \in StreamsOf(Nat)
        /\ EndSound(reply.stream, gone) /\ reply.stream.opened = s.opened
        /\ Placed(offset, reply.entries, reply.stream, gone)
        /\ reply.entries = <<>> => reply.stream.eof
    <3>1. size \in Nat /\ offset \in Nat /\ 1 .. size \subseteq Nat
      BY DEF FuseInv, FuseTypes
    <3> HIDE DEF s
    <3> QED BY <1>2, <2>1, <3>1, Pages
  <2>3. /\ DOMAIN streams' = {remote} /\ streams'[remote] = reply.stream
        /\ UNCHANGED <<size, gone, allocated>>
    BY <1>1, <1>3 DEF F!ReadDirectory
  <2>4. FuseTypes'
    BY <1>1, <1>3, <2>2, <2>3 DEF FuseInv, FuseTypes
  <2>5. FuseHandle'
    BY <1>1, <1>3, <2>3 DEF FuseHandle, F!HandleOwned, F!NoHandle
  <2>6. FusePlace'
    BY <1>1, <1>3, <2>2, <2>3 DEF FusePlace
  <2>7. FuseReply'
    BY <1>1, <1>3 DEF FuseInv, FuseReply
  <2>8. FuseReader'
    BY <1>1, <1>3 DEF FuseInv, FuseReader
  <2> QED BY <2>4, <2>5, <2>6, <2>7, <2>8 DEF FuseInv
<1>4. CASE step' = "idle" /\ answer' = <<>> /\ UNCHANGED <<F!serverVars, pending, eof>>
  <2>1. UNCHANGED <<size, gone, allocated, streams, pending, eof>>
    BY <1>4 DEF F!serverVars
  <2>2. FuseTypes'
    BY <1>1, <1>4, <2>1, EmptySeq DEF FuseInv, FuseTypes
  <2>3. FuseHandle'
    BY <1>1, <1>4, <2>1 DEF FuseInv, FuseHandle, F!HandleOwned, F!NoHandle
  <2>4. FusePlace'
    BY <1>1, <2>1 DEF FuseInv, FusePlace
  <2>5. FuseReply'
    BY <1>4, EmptySeq DEF FuseReply
  <2>6. FuseReader'
    BY <1>1, <1>4, <2>1 DEF FuseInv, FuseReader
  <2> QED BY <2>2, <2>3, <2>4, <2>5, <2>6 DEF FuseInv
<1> QED BY <1>3, <1>4 DEF F!Fill

LEMMA FuseTake == FuseInv /\ F!Take => FuseInv'
<1> SUFFICES ASSUME FuseInv, F!Take PROVE FuseInv'
  OBVIOUS
<1>1. /\ step = "loop" /\ step' = step /\ remote # 0 /\ pending # <<>>
      /\ pending' = Tail(pending) /\ offset' = offset + 1
      /\ answer' = IF offset >= asked THEN Append(answer, <<Head(pending), offset + 1>>)
                                      ELSE answer
      /\ UNCHANGED <<size, gone, allocated, streams, remote, eof, asked, seen, ended>>
  BY DEF F!Take, F!readerVars, F!serverVars, FuseInv, FuseHandle, F!HandleOwned, F!NoHandle
<1>2. /\ {size, allocated, remote, offset, asked} \subseteq Nat /\ gone = {}
      /\ pending \in Seq(Nat) /\ answer \in Seq(Nat \X Nat)
      /\ Placed(offset, pending, streams[remote], gone) /\ ~eof
  BY <1>1 DEF FuseInv, FuseTypes, FusePlace
<1>3. /\ Tail(pending) \in Seq(Nat) /\ Head(pending) \in Nat
      /\ offset < Head(pending) /\ offset + 1 .. Head(pending) - 1 \subseteq gone
      /\ Placed(Head(pending), Tail(pending), streams[remote], gone)
  <2>1. offset \in Nat /\ pending \in Seq(Nat) /\ pending # <<>> /\ Nat \in SUBSET Nat
    BY <1>1, <1>2
  <2> QED BY <1>2, <2>1, TakePlaced
<1>4. Head(pending) = offset + 1
  <2>1. offset \in Nat /\ Head(pending) \in Nat /\ gone = {}
    BY <1>2, <1>3
  <2>2. offset + 1 \notin offset + 1 .. Head(pending) - 1
    BY <1>3, <2>1
  <2> QED BY <1>3, <2>1, <2>2
<1>5. FuseReply' /\ answer' \in Seq(Nat \X Nat)
  <2>1. /\ \A i \in DOMAIN answer : answer[i] = <<asked + i, asked + i>>
        /\ Len(answer) = IF offset > asked THEN offset - asked ELSE 0
    BY <1>1 DEF FuseInv, FuseReply
  <2>2. CASE offset >= asked
    <3> DEFINE x == <<offset + 1, offset + 1>>
    <3>1. /\ x \in Nat \X Nat /\ answer' = Append(answer, x)
          /\ Len(answer) = offset - asked /\ Len(answer) \in Nat
      <4>1. offset \in Nat /\ asked \in Nat /\ Len(answer) = IF offset > asked THEN offset - asked ELSE 0
        BY <1>2, <2>1
      <4>2. Len(answer) = offset - asked /\ Len(answer) \in Nat
        BY <2>2, <4>1
      <4> QED BY <1>1, <1>4, <2>2, <4>1, <4>2
    <3> HIDE DEF x
    <3>2. /\ answer' \in Seq(Nat \X Nat) /\ Len(answer') = Len(answer) + 1
          /\ DOMAIN answer = 1 .. Len(answer) /\ DOMAIN answer' = 1 .. Len(answer) + 1
          /\ \A i \in 1 .. Len(answer) : answer'[i] = answer[i]
          /\ answer'[Len(answer) + 1] = x
      BY <1>2, <3>1
    <3>3. \A i \in DOMAIN answer' : answer'[i] = <<asked + i, asked + i>>
      <4> SUFFICES ASSUME NEW i \in 1 .. Len(answer) + 1
                   PROVE  answer'[i] = <<asked + i, asked + i>>
        BY <3>2
      <4>1. CASE i = Len(answer) + 1
        <5>1. asked + i = offset + 1
          <6>1. offset \in Nat /\ asked \in Nat /\ i = (offset - asked) + 1
            BY <1>2, <3>1, <4>1
          <6> QED BY <6>1
        <5> QED BY <3>2, <4>1, <5>1 DEF x
      <4>2. CASE i # Len(answer) + 1
        <5>1. i \in 1 .. Len(answer)
          BY <3>1, <4>2
        <5> QED BY <2>1, <3>2, <5>1
      <4> QED BY <4>1, <4>2
    <3>4. Len(answer') = IF offset' > asked' THEN offset' - asked' ELSE 0
      <4>1. offset \in Nat /\ asked \in Nat /\ offset' = offset + 1 /\ asked' = asked
        BY <1>1, <1>2
      <4>2. Len(answer') = (offset - asked) + 1
        BY <3>1, <3>2
      <4>3. offset + 1 > asked /\ (offset + 1) - asked = (offset - asked) + 1
        BY <2>2, <4>1
      <4>4. offset' > asked' /\ Len(answer') = offset' - asked'
        BY <4>1, <4>2, <4>3
      <4> QED BY <4>4
    <3> QED BY <1>1, <3>2, <3>3, <3>4 DEF FuseReply
  <2>3. CASE ~(offset >= asked)
    <3>1. answer' = answer
      BY <1>1, <2>3
    <3>2. Len(answer) = 0 /\ ~(offset' > asked')
      BY <1>1, <1>2, <2>1, <2>3
    <3> QED BY <1>1, <1>2, <2>1, <3>1, <3>2 DEF FuseReply
  <2> QED BY <2>2, <2>3
<1>6. FuseTypes'
  BY <1>1, <1>2, <1>3, <1>5 DEF FuseInv, FuseTypes
<1>7. FuseHandle'
  BY <1>1 DEF FuseInv, FuseHandle, F!HandleOwned, F!NoHandle
<1>8. FusePlace'
  BY <1>1, <1>2, <1>3, <1>4 DEF FusePlace
<1>9. FuseReader'
  BY <1>1 DEF FuseInv, FuseReader
<1> QED BY <1>5, <1>6, <1>7, <1>8, <1>9 DEF FuseInv

\* An empty reply means that the stream has nothing left, and that all it had is
\* before the place of the reader.
LEMMA FuseFinish == FuseInv /\ F!Finish => FuseInv'
<1> SUFFICES ASSUME FuseInv, F!Finish PROVE FuseInv'
  OBVIOUS
<1>1. /\ step = "loop" /\ step' = "idle" /\ remote # 0 /\ DOMAIN streams = {remote}
      /\ answer = <<>> => pending = <<>> /\ eof
      /\ answer' = <<>> /\ ended' = (answer = <<>>)
      /\ seen' = seen \o [i \in DOMAIN answer |-> answer[i][1]]
      /\ UNCHANGED <<size, gone, allocated, streams, remote, offset, pending, eof, asked>>
  BY DEF F!Finish, F!cursorVars, F!serverVars, FuseInv, FuseHandle, F!HandleOwned, F!NoHandle
<1>2. /\ {size, allocated, remote, offset, asked} \subseteq Nat /\ gone = {}
      /\ seen \in Seq(Nat) /\ answer \in Seq(Nat \X Nat) /\ Len(seen) = asked
  BY <1>1 DEF FuseInv, FuseTypes, FuseReader
<1> DEFINE given == [i \in DOMAIN answer |-> answer[i][1]]
<1>3. given \in Seq(Nat) /\ Len(given) = Len(answer)
  <2>1. DOMAIN answer = 1 .. Len(answer) /\ Len(answer) \in Nat
    BY <1>2
  <2>2. \A i \in 1 .. Len(answer) : answer[i][1] \in Nat
    BY <1>2
  <2> QED BY <2>1, <2>2
<1>4. seen' \in Seq(Nat) /\ Len(seen') = asked + Len(answer)
  <2> HIDE DEF given
  <2>1. seen \o given \in Seq(Nat) /\ Len(seen \o given) = Len(seen) + Len(given)
    <3>1. seen \in Seq(Nat) /\ given \in Seq(Nat)
      BY <1>2, <1>3
    <3> QED BY <3>1, ConcatProperties
  <2> QED BY <1>1, <1>2, <1>3, <2>1 DEF given
<1>5. FuseTypes'
  BY <1>1, <1>4, EmptySeq DEF FuseInv, FuseTypes
<1>6. FuseHandle' /\ FusePlace'
  BY <1>1 DEF FuseInv, FuseHandle, FusePlace, F!HandleOwned, F!NoHandle
<1>7. FuseReply'
  BY <1>1, EmptySeq DEF FuseReply
<1>8. FuseReader'
  <2> SUFFICES ASSUME ended' PROVE streams[remote].opened <= Len(seen')
    BY <1>1 DEF FuseReader
  <2>1. /\ answer = <<>> /\ Len(answer) = 0 /\ Placed(offset, <<>>, streams[remote], gone)
        /\ streams[remote].eof /\ streams[remote] \in StreamsOf(Nat)
        /\ EndSound(streams[remote], gone)
    BY <1>1, EmptySeq DEF FuseInv, FuseTypes, FusePlace
  <2>2. offset <= asked
    BY <1>1, <1>2, <2>1 DEF FuseInv, FuseReply
  <2>3. streams[remote].fetched = offset
    BY <2>1 DEF Placed, Through, EndSound
  <2>4. streams[remote].opened \in Nat /\ offset + 1 .. streams[remote].opened \subseteq {}
    BY <1>2, <2>1, <2>3 DEF EndSound, StreamsOf
  <2>5. streams[remote].opened <= offset
    <3> SUFFICES ASSUME offset < streams[remote].opened PROVE FALSE
      BY <1>2, <2>4
    <3>1. streams[remote].opened \in offset + 1 .. streams[remote].opened
      BY <1>2, <2>4
    <3> QED BY <2>4, <3>1
  <2> QED BY <1>2, <1>4, <2>1, <2>2, <2>4, <2>5
<1> QED BY <1>5, <1>6, <1>7, <1>8 DEF FuseInv

\* Entries that are created come after everything that a stream has given.
LEMMA FuseGrow ==
  FuseInv /\ F!Grow /\ UNCHANGED <<F!cursorVars, step, asked, answer, F!readerVars>> => FuseInv'
<1> SUFFICES ASSUME FuseInv, F!Grow, UNCHANGED <<F!cursorVars, step, asked, answer, F!readerVars>>
             PROVE  FuseInv'
  OBVIOUS
<1>1. /\ size' = size + 1
      /\ UNCHANGED <<gone, allocated, streams, remote, offset, pending, eof, step, asked, answer,
                     seen, ended>>
  BY DEF F!Grow, F!cursorVars, F!readerVars
<1>2. FuseTypes'
  BY <1>1 DEF FuseInv, FuseTypes
<1>3. FuseHandle' /\ FusePlace'
  BY <1>1 DEF FuseInv, FuseHandle, FusePlace, F!HandleOwned, F!NoHandle
<1>4. FuseReply' /\ FuseReader'
  BY <1>1 DEF FuseInv, FuseReply, FuseReader
<1> QED BY <1>2, <1>3, <1>4 DEF FuseInv

LEMMA FuseStep == FuseInv /\ F!Next => FuseInv'
<1> SUFFICES ASSUME FuseInv, F!Next PROVE FuseInv'
  OBVIOUS
<1>1. ASSUME NEW o \in 0 .. MaxSize, F!ReadAt(o) PROVE FuseInv'
  <2>1. /\ F!Read(o) /\ o \in Nat /\ o <= Len(seen) /\ ended' = FALSE /\ seen' = SubSeq(seen, 1, o)
        /\ seen \in Seq(Nat)
    BY <1>1, CursorAssumption DEF F!ReadAt, FuseInv, FuseTypes
  <2>2. seen' \in Seq(Nat) /\ Len(seen') = o
    BY <2>1
  <2> QED BY <2>1, <2>2, ReadKeeps
<1>2. CASE F!Rewind
  <2>1. F!Read(0) /\ seen' = <<>> /\ ended' = FALSE
    BY <1>2 DEF F!Rewind
  <2>2. seen' \in Seq(Nat) /\ Len(seen') = 0
    BY <2>1, EmptySeq
  <2> QED BY <2>1, <2>2, ReadKeeps
<1> QED BY <1>1, <1>2, FuseReopen, FuseFill, FuseTake, FuseFinish, FuseGrow DEF F!Next

(***************************************************************************)
(* The cursor of the Windows mount.                                        *)
(***************************************************************************)
WindowsTypes ==
  /\ {size, allocated, handle} \subseteq Nat
  /\ {last, marker} \subseteq 0 .. size
  /\ pending \in Seq(1 .. size) /\ seen \in Seq(1 .. size) /\ answer \in Seq(1 .. size)
  /\ {eof, seeking, ended} \subseteq BOOLEAN
  /\ step \in {"idle", "open", "loop"}
  /\ \A h \in DOMAIN streams : /\ streams[h] \in StreamsOf(1 .. size)
                               /\ EndSound(streams[h], gone)
                               /\ streams[h].opened = size

WindowsHandle == W!HandleOwned /\ (step = "open" => handle = 0)

\* e is where a cursor can be while it answers a marker: at its last entry if it
\* has one, at the marker before the first entry of a reply, and in a search still
\* before the marker, unless that was deleted.
At(e) ==
  /\ Placed(e, pending, streams[handle], gone)
  /\ last # 0 => e = last
  /\ step = "loop" /\ marker # 0 /\ ~seeking /\ answer = <<>> => e = marker
  /\ seeking => e < marker \/ marker \in gone

WindowsPlace ==
  handle # 0 =>
    /\ \E e \in Nat : At(e)
    /\ eof => pending = <<>> /\ streams[handle].eof

WindowsReply ==
  /\ step # "loop" => ~seeking /\ answer = <<>>
  /\ seeking => answer = <<>> /\ last = 0 /\ marker # 0
  /\ answer # <<>> => last = answer[Len(answer)]
  /\ \A i \in DOMAIN answer :
       i > 1 \/ marker # 0 =>
         LET before == IF i = 1 THEN marker ELSE answer[i - 1]
         IN before < answer[i] /\ before + 1 .. answer[i] - 1 \subseteq gone

WindowsInv == WindowsTypes /\ WindowsHandle /\ WindowsPlace /\ WindowsReply

LEMMA WindowsStart == W!Init => WindowsInv
<1> SUFFICES ASSUME W!Init PROVE WindowsInv
  OBVIOUS
<1>1. /\ size \in Nat /\ allocated = 0 /\ DOMAIN streams = {}
      /\ handle = 0 /\ last = 0 /\ marker = 0 /\ pending = <<>> /\ eof = FALSE /\ step = "idle"
      /\ answer = <<>> /\ seen = <<>> /\ ended = FALSE /\ seeking = FALSE
  BY CursorAssumption DEF W!Init, W!NoHandle, W!NoMarker, W!DirectoryAssumption
<1>2. WindowsTypes
  <2>1. pending \in Seq(1 .. size) /\ seen \in Seq(1 .. size) /\ answer \in Seq(1 .. size)
    BY <1>1, EmptySeq
  <2>2. {size, allocated, handle} \subseteq Nat /\ {last, marker} \subseteq 0 .. size
    BY <1>1
  <2>3. {eof, seeking, ended} \subseteq BOOLEAN /\ step \in {"idle", "open", "loop"}
    BY <1>1
  <2> QED BY <1>1, <2>1, <2>2, <2>3 DEF WindowsTypes
<1>3. WindowsHandle /\ WindowsPlace /\ WindowsReply
  BY <1>1 DEF WindowsHandle, WindowsPlace, WindowsReply, W!HandleOwned, W!NoHandle
<1> QED BY <1>2, <1>3 DEF WindowsInv

\* What read_directory does with its marker: the cursor goes on if it is there, or
\* gives its stream up.
LEMMA MarkerIs ==
  ASSUME WindowsInv, NEW m, W!Read(m)
  PROVE  /\ step = "idle" /\ marker' = m
         /\ UNCHANGED <<answer, seeking, size, gone, allocated, pending, last, eof>>
         /\ \/ /\ handle # 0 /\ m = last /\ step' = "loop"
               /\ UNCHANGED <<handle, streams>>
            \/ handle' = 0 /\ DOMAIN streams' = {} /\ step' \in {"open", "idle"}
BY DEF W!Read, W!CloseDirectory, W!NoHandle, W!serverVars, WindowsInv, WindowsHandle,
       W!HandleOwned

\* A read at a marker that was given out.
LEMMA MarkerKeeps ==
  ASSUME WindowsInv, NEW m \in 0 .. size, W!Read(m), seen' \in Seq(1 .. size), ended' \in BOOLEAN
  PROVE  WindowsInv'
<1>1. /\ step = "idle" /\ marker' = m
      /\ UNCHANGED <<answer, seeking, size, gone, allocated, pending, last, eof>>
      /\ \/ /\ handle # 0 /\ m = last /\ step' = "loop"
            /\ UNCHANGED <<handle, streams>>
         \/ handle' = 0 /\ DOMAIN streams' = {} /\ step' \in {"open", "idle"}
  BY MarkerIs
<1>2. answer = <<>> /\ ~seeking
  BY <1>1 DEF WindowsInv, WindowsReply
<1>3. WindowsTypes'
  <2>1. {size, allocated, handle}' \subseteq Nat /\ {last, marker}' \subseteq 0 .. size'
    BY <1>1 DEF WindowsInv, WindowsTypes
  <2>2. /\ pending' \in Seq(1 .. size') /\ seen' \in Seq(1 .. size') /\ answer' \in Seq(1 .. size')
        /\ {eof, seeking, ended}' \subseteq BOOLEAN
    BY <1>1 DEF WindowsInv, WindowsTypes
  <2>3. step' \in {"idle", "open", "loop"}
    BY <1>1
  <2>4. \A h \in DOMAIN streams' :
          /\ streams'[h] \in StreamsOf(1 .. size')
          /\ EndSound(streams'[h], gone')
          /\ streams'[h].opened = size'
    BY <1>1 DEF WindowsInv, WindowsTypes
  <2> QED BY <2>1, <2>2, <2>3, <2>4 DEF WindowsTypes
<1>4. WindowsHandle'
  BY <1>1 DEF WindowsInv, WindowsHandle, W!HandleOwned, W!NoHandle
<1>5. WindowsPlace'
  BY <1>1, <1>2 DEF WindowsInv, WindowsPlace, At
<1>6. WindowsReply'
  BY <1>1, <1>2 DEF WindowsReply
<1> QED BY <1>3, <1>4, <1>5, <1>6 DEF WindowsInv

LEMMA WindowsReopen == WindowsInv /\ W!Reopen => WindowsInv'
<1> SUFFICES ASSUME WindowsInv, W!Reopen PROVE WindowsInv'
  OBVIOUS
<1>1. /\ step = "open" /\ handle = 0 /\ DOMAIN streams = {} /\ answer = <<>> /\ ~seeking
      /\ UNCHANGED <<marker, answer, seen, ended>>
      /\ size \in Nat /\ marker \in 0 .. size /\ 1 .. size \subseteq Nat
  BY DEF W!Reopen, W!readerVars, WindowsInv, WindowsTypes, WindowsHandle, WindowsReply,
         W!HandleOwned, W!NoHandle
<1>2. CASE /\ W!OpenDirectory /\ handle' = allocated' /\ pending' = <<>> /\ eof' = FALSE
           /\ last' = W!NoMarker /\ seeking' = (marker # W!NoMarker) /\ step' = "loop"
  <2> DEFINE n == [fetched |-> 0, pending |-> <<>>, eof |-> FALSE, opened |-> size]
  <2>1. /\ allocated' = allocated + 1 /\ UNCHANGED <<size, gone>>
        /\ DOMAIN streams' = {allocated'} /\ streams'[allocated'] = n
        /\ last' = 0 /\ seeking' = (marker # 0)
    BY <1>1, <1>2 DEF W!OpenDirectory, W!NewStream, W!NoMarker
  <2>2. seeking' <=> marker # 0
    <3>1. (marker # 0) \in BOOLEAN
      OBVIOUS
    <3> QED BY <2>1, <3>1, Zenon
  <2>3. allocated' \in Nat /\ allocated' # 0
    BY <2>1 DEF WindowsInv, WindowsTypes
  <2>4. /\ n \in StreamsOf(1 .. size) /\ EndSound(n, gone) /\ Placed(0, <<>>, n, gone)
        /\ n.opened = size
    BY <1>1, OpenedIs
  <2> HIDE DEF n
  <2>5. WindowsTypes'
    <3>1. {size, allocated, handle}' \subseteq Nat /\ {last, marker}' \subseteq 0 .. size'
      BY <1>1, <1>2, <2>1, <2>3
    <3>2. pending' \in Seq(1 .. size') /\ seen' \in Seq(1 .. size') /\ answer' \in Seq(1 .. size')
      BY <1>1, <1>2, <2>1, EmptySeq DEF WindowsInv, WindowsTypes
    <3>3. {eof, seeking, ended}' \subseteq BOOLEAN /\ step' \in {"idle", "open", "loop"}
      BY <1>1, <1>2, <2>1 DEF WindowsInv, WindowsTypes
    <3> QED BY <2>1, <2>4, <3>1, <3>2, <3>3 DEF WindowsTypes
  <2>6. WindowsHandle'
    BY <1>2, <2>1, <2>3 DEF WindowsHandle, W!HandleOwned, W!NoHandle
  <2>7. WindowsPlace'
    <3>1. At(0)'
      <4>1. Placed(0, pending', streams'[handle'], gone')
        BY <1>2, <2>1, <2>4
      <4>2. marker \in Nat /\ (marker # 0 => 0 < marker)
        BY <1>1
      <4> QED BY <1>1, <2>1, <2>2, <4>1, <4>2 DEF At
    <3> QED BY <1>2, <3>1 DEF WindowsPlace
  <2>8. WindowsReply'
    BY <1>1, <1>2, <2>1, <2>2 DEF WindowsReply
  <2> QED BY <2>5, <2>6, <2>7, <2>8 DEF WindowsInv
<1>3. CASE step' = "idle" /\ UNCHANGED <<W!serverVars, W!cursorVars, seeking>>
  <2>1. UNCHANGED <<size, gone, allocated, streams, handle, pending, last, eof, seeking>>
    BY <1>3 DEF W!serverVars, W!cursorVars
  <2>2. WindowsTypes'
    BY <1>1, <1>3, <2>1 DEF WindowsInv, WindowsTypes
  <2>3. WindowsHandle' /\ WindowsPlace' /\ WindowsReply'
    BY <1>1, <1>3, <2>1 DEF WindowsHandle, WindowsPlace, WindowsReply, W!HandleOwned, W!NoHandle
  <2> QED BY <2>2, <2>3 DEF WindowsInv
<1> QED BY <1>2, <1>3 DEF W!Reopen

LEMMA WindowsFill == WindowsInv /\ W!Fill => WindowsInv'
<1> SUFFICES ASSUME WindowsInv, W!Fill PROVE WindowsInv'
  OBVIOUS
<1> DEFINE s == streams[handle]
<1>1. /\ step = "loop" /\ handle # 0 /\ DOMAIN streams = {handle} /\ pending = <<>> /\ ~eof
      /\ UNCHANGED <<handle, last, marker, seen, ended>>
  BY DEF W!Fill, W!readerVars, WindowsInv, WindowsHandle, W!HandleOwned, W!NoHandle
<1>2. /\ s \in StreamsOf(1 .. size) /\ EndSound(s, gone) /\ s.opened = size /\ size \in Nat
  BY <1>1 DEF WindowsInv, WindowsTypes
<1>3. PICK e \in Nat : At(e)
  BY <1>1 DEF WindowsInv, WindowsPlace
<1>4. Placed(e, <<>>, s, gone)
  BY <1>1, <1>3 DEF At
<1>5. ASSUME NEW reply \in W!Replies(handle),
             W!ReadDirectory(handle, reply), pending' = reply.entries,
             eof' = (reply.entries = <<>>), UNCHANGED <<step, seeking, answer>>
      PROVE  WindowsInv'
  <2>1. PICK t \in W!Fetched(s) : reply = W!Drained(t)
    BY <1>5 DEF W!Replies
  <2>2. /\ reply.entries \in Seq(1 .. size) /\ reply.stream \in StreamsOf(1 .. size)
        /\ EndSound(reply.stream, gone) /\ reply.stream.opened = s.opened
        /\ Placed(e, reply.entries, reply.stream, gone)
        /\ reply.entries = <<>> => reply.stream.eof
    <3>1. 1 .. size \in SUBSET Nat
      BY <1>2
    <3> HIDE DEF s
    <3> QED BY <1>2, <1>4, <2>1, <3>1, Pages
  <2>3. /\ DOMAIN streams' = {handle} /\ streams'[handle] = reply.stream
        /\ UNCHANGED <<size, gone, allocated>>
    BY <1>1, <1>5 DEF W!ReadDirectory
  <2>4. WindowsTypes'
    BY <1>1, <1>2, <1>5, <2>2, <2>3 DEF WindowsInv, WindowsTypes
  <2>5. WindowsHandle'
    BY <1>1, <1>5, <2>3 DEF WindowsHandle, W!HandleOwned, W!NoHandle
  <2>6. WindowsPlace'
    <3>1. At(e)'
      BY <1>1, <1>3, <1>5, <2>2, <2>3 DEF At
    <3> QED BY <1>1, <1>5, <2>2, <2>3, <3>1 DEF WindowsPlace
  <2>7. WindowsReply'
    BY <1>1, <1>5, <2>3 DEF WindowsInv, WindowsReply
  <2> QED BY <2>4, <2>5, <2>6, <2>7 DEF WindowsInv
<1>6. CASE /\ step' = "idle" /\ seeking' = FALSE /\ answer' = <<>>
           /\ UNCHANGED <<W!serverVars, pending, eof>>
  <2>1. UNCHANGED <<size, gone, allocated, streams, pending, eof>>
    BY <1>6 DEF W!serverVars
  <2>2. WindowsTypes'
    <3>1. answer' \in Seq(1 .. size')
      BY <1>6, EmptySeq
    <3> QED BY <1>1, <1>6, <2>1, <3>1 DEF WindowsInv, WindowsTypes
  <2>3. WindowsHandle'
    BY <1>1, <1>6, <2>1 DEF WindowsInv, WindowsHandle, W!HandleOwned, W!NoHandle
  <2>4. WindowsPlace'
    <3>1. At(e)'
      BY <1>1, <1>3, <1>6, <2>1 DEF At
    <3> QED BY <1>1, <2>1, <3>1 DEF WindowsPlace
  <2>5. WindowsReply'
    BY <1>6 DEF WindowsReply
  <2> QED BY <2>2, <2>3, <2>4, <2>5 DEF WindowsInv
<1> QED BY <1>5, <1>6 DEF W!Fill

\* A name that does not fit makes the read fail: the cursor stays where it is.
LEMMA WindowsRefused ==
  ASSUME WindowsInv, step = "loop", ~seeking, step' = "idle", answer' = <<>>,
         UNCHANGED <<size, gone, allocated, streams, handle, pending, last, eof, marker,
                     seeking, seen, ended>>
  PROVE  WindowsInv'
<1>0. handle # 0
  BY DEF WindowsInv, WindowsHandle, W!HandleOwned, W!NoHandle
<1>1. WindowsTypes'
  BY EmptySeq DEF WindowsInv, WindowsTypes
<1>2. WindowsHandle'
  BY <1>0 DEF WindowsInv, WindowsHandle, W!HandleOwned, W!NoHandle
<1>3. WindowsPlace'
  <2>1. PICK e \in Nat : At(e)
    BY <1>0 DEF WindowsInv, WindowsPlace
  <2>2. At(e)'
    BY <2>1 DEF At
  <2>3. (eof => pending = <<>> /\ streams[handle].eof)'
    BY <1>0 DEF WindowsInv, WindowsPlace
  <2> QED BY <2>1, <2>2, <2>3 DEF WindowsPlace
<1>4. WindowsReply'
  BY DEF WindowsReply
<1> QED BY <1>1, <1>2, <1>3, <1>4 DEF WindowsInv

LEMMA WindowsTake == WindowsInv /\ W!Take => WindowsInv'
<1> SUFFICES ASSUME WindowsInv, W!Take,
                    ~(~seeking /\ step' = "idle" /\ answer' = <<>>
                      /\ UNCHANGED <<pending, last, seeking>>)
             PROVE  WindowsInv'
  BY WindowsRefused DEF W!Take, W!readerVars, W!serverVars
<1>0. PICK x : x = Head(pending)
  OBVIOUS
<1>1. /\ step = "loop" /\ handle # 0 /\ DOMAIN streams = {handle} /\ pending # <<>>
      /\ pending' = Tail(pending)
      /\ UNCHANGED <<size, gone, allocated, streams, handle, eof, step, marker, seen, ended>>
  BY DEF W!Take, W!readerVars, W!serverVars, WindowsInv, WindowsHandle, W!HandleOwned, W!NoHandle
<1>2. IF seeking THEN seeking' = (x # marker) /\ UNCHANGED <<last, answer>>
                 ELSE last' = x /\ answer' = Append(answer, x) /\ UNCHANGED seeking
  BY <1>0 DEF W!Take
<1>3. PICK e \in Nat : At(e)
  BY <1>1 DEF WindowsInv, WindowsPlace
<1>4. /\ size \in Nat /\ marker \in 0 .. size /\ last \in 0 .. size /\ pending \in Seq(1 .. size)
      /\ answer \in Seq(1 .. size) /\ ~eof
  BY <1>1 DEF WindowsInv, WindowsTypes, WindowsPlace
<1>5. /\ x \in 1 .. size /\ Tail(pending) \in Seq(1 .. size)
      /\ e < x /\ e + 1 .. x - 1 \subseteq gone
      /\ Placed(x, Tail(pending), streams[handle], gone)
  <2>1. 1 .. size \in SUBSET Nat
    BY <1>4
  <2> QED BY <1>0, <1>1, <1>3, <1>4, <2>1, TakePlaced DEF At
<1>6. WindowsHandle'
  BY <1>1 DEF WindowsInv, WindowsHandle, W!HandleOwned, W!NoHandle
<1>7. CASE seeking
  <2>1. answer = <<>> /\ last = 0 /\ marker # 0 /\ UNCHANGED <<last, answer>>
    BY <1>2, <1>7 DEF WindowsInv, WindowsReply
  <2>2. seeking' \in BOOLEAN /\ (seeking' <=> x # marker)
    BY <1>2, <1>7, Zenon
  <2>3. WindowsTypes'
    BY <1>1, <1>5, <2>1, <2>2 DEF WindowsInv, WindowsTypes
  <2>4. At(x)'
    <3>1. e < marker \/ marker \in gone
      BY <1>3, <1>7 DEF At
    <3>2. ASSUME seeking' PROVE x < marker \/ marker \in gone
      <4>1. x # marker
        BY <2>2, <3>2
      <4>2. CASE marker < x /\ e < marker
        <5>1. marker \in e + 1 .. x - 1
          BY <1>4, <1>5, <4>2
        <5> QED BY <1>5, <5>1
      <4> QED BY <1>4, <1>5, <3>1, <4>1, <4>2
    <3>3. ~seeking' => x = marker
      BY <2>2
    <3> QED BY <1>1, <1>5, <2>1, <3>2, <3>3 DEF At
  <2>5. WindowsPlace'
    BY <1>1, <1>4, <1>5, <2>4 DEF WindowsPlace
  <2>6. WindowsReply'
    BY <1>1, <2>1 DEF WindowsReply
  <2> QED BY <1>6, <2>3, <2>5, <2>6 DEF WindowsInv
<1>8. CASE ~seeking
  <2>1. last' = x /\ answer' = Append(answer, x) /\ ~seeking' /\ seeking' = seeking
    BY <1>2, <1>8
  <2>2. /\ answer' \in Seq(1 .. size) /\ Len(answer) \in Nat /\ Len(answer') = Len(answer) + 1
        /\ answer' # <<>> /\ answer'[Len(answer) + 1] = x
        /\ \A i \in 1 .. Len(answer) : answer'[i] = answer[i]
    <3>1. /\ answer' \in Seq(1 .. size) /\ Len(answer) \in Nat /\ Len(answer') = Len(answer) + 1
          /\ answer'[Len(answer) + 1] = x
          /\ \A i \in 1 .. Len(answer) : answer'[i] = answer[i]
      BY <1>4, <1>5, <2>1
    <3>2. answer' # <<>>
      BY <3>1, NoEntries
    <3> QED BY <3>1, <3>2
  <2>3. WindowsTypes'
    BY <1>1, <1>5, <2>1, <2>2 DEF WindowsInv, WindowsTypes
  <2>4. At(x)'
    BY <1>1, <1>5, <2>1, <2>2 DEF At
  <2>5. WindowsPlace'
    BY <1>1, <1>4, <1>5, <2>4 DEF WindowsPlace
  <2>6. WindowsReply'
    <3> SUFFICES ASSUME NEW i \in 1 .. Len(answer) + 1, i > 1 \/ marker # 0
                 PROVE  LET before == IF i = 1 THEN marker ELSE answer'[i - 1]
                        IN before < answer'[i] /\ before + 1 .. answer'[i] - 1 \subseteq gone
      BY <1>1, <2>1, <2>2 DEF WindowsReply
    <3>1. CASE i = Len(answer) + 1
      <4>1. (IF i = 1 THEN marker ELSE answer'[i - 1]) = e
        <5>1. CASE i = 1
          <6>1. answer = <<>>
            BY <1>4, <2>2, <3>1, <5>1, NoEntries
          <6> QED BY <1>1, <1>3, <1>8, <5>1, <6>1 DEF At
        <5>2. CASE i # 1
          <6>1. Len(answer) \in 1 .. Len(answer) /\ i - 1 = Len(answer)
            BY <2>2, <3>1, <5>2
          <6>2. answer # <<>>
            BY <1>4, <6>1, NoEntries
          <6>3. last = answer[Len(answer)] /\ answer[Len(answer)] \in 1 .. size
            BY <1>4, <6>1, <6>2 DEF WindowsInv, WindowsReply
          <6>4. e = last
            BY <1>3, <1>4, <6>3 DEF At
          <6> QED BY <2>2, <5>2, <6>1, <6>3, <6>4
        <5> QED BY <5>1, <5>2
      <4> QED BY <1>5, <2>2, <3>1, <4>1
    <3>2. CASE i # Len(answer) + 1
      <4>1. i \in DOMAIN answer /\ i \in 1 .. Len(answer) /\ (i # 1 => i - 1 \in 1 .. Len(answer))
        BY <1>4, <2>2, <3>2
      <4>2. LET before == IF i = 1 THEN marker ELSE answer[i - 1]
            IN before < answer[i] /\ before + 1 .. answer[i] - 1 \subseteq gone
        BY <4>1 DEF WindowsInv, WindowsReply
      <4> QED BY <2>2, <4>1, <4>2
    <3> QED BY <3>1, <3>2
  <2> QED BY <1>6, <2>3, <2>5, <2>6 DEF WindowsInv
<1> QED BY <1>7, <1>8

LEMMA WindowsFinish == WindowsInv /\ W!Finish => WindowsInv'
<1> SUFFICES ASSUME WindowsInv, W!Finish PROVE WindowsInv'
  OBVIOUS
<1>1. /\ step = "loop" /\ step' = "idle" /\ seeking' = FALSE /\ answer' = <<>>
      /\ seen' = seen \o answer /\ ended' = (answer = <<>>)
      /\ UNCHANGED <<size, gone, allocated, streams, handle, pending, last, eof, marker>>
  BY DEF W!Finish, W!cursorVars, W!serverVars
<1>2. WindowsTypes'
  <2>1. seen \in Seq(1 .. size) /\ answer \in Seq(1 .. size)
    BY DEF WindowsInv, WindowsTypes
  <2>2. seen \o answer \in Seq(1 .. size)
    BY <2>1, ConcatProperties
  <2>3. answer' \in Seq(1 .. size') /\ seen' \in Seq(1 .. size')
    BY <1>1, <2>2, EmptySeq
  <2> QED BY <1>1, <2>3 DEF WindowsInv, WindowsTypes
<1>3. WindowsHandle'
  BY <1>1 DEF WindowsInv, WindowsHandle, W!HandleOwned, W!NoHandle
<1>4. WindowsPlace'
  BY <1>1 DEF WindowsInv, WindowsPlace, At
<1>5. WindowsReply'
  BY <1>1 DEF WindowsReply
<1> QED BY <1>2, <1>3, <1>4, <1>5 DEF WindowsInv

\* Whatever holds but for deleted entries still does when there are more of them.
LEMMA WindowsShrink ==
  WindowsInv /\ W!Shrink /\ UNCHANGED <<W!cursorVars, W!callVars, W!readerVars>> => WindowsInv'
<1> SUFFICES ASSUME WindowsInv, W!Shrink, UNCHANGED <<W!cursorVars, W!callVars, W!readerVars>>
             PROVE  WindowsInv'
  OBVIOUS
<1>1. /\ gone \subseteq gone'
      /\ UNCHANGED <<size, allocated, streams, handle, pending, last, eof, step, marker, seeking,
                     answer, seen, ended>>
  BY DEF W!Shrink, W!cursorVars, W!callVars, W!readerVars
<1>2. WindowsTypes'
  <2>1. \A s : EndSound(s, gone) => EndSound(s, gone')
    BY <1>1 DEF EndSound
  <2> QED BY <1>1, <2>1 DEF WindowsInv, WindowsTypes
<1>3. WindowsHandle'
  BY <1>1 DEF WindowsInv, WindowsHandle, W!HandleOwned, W!NoHandle
<1>4. WindowsPlace'
  <2>1. ASSUME NEW e \in Nat, At(e) PROVE At(e)'
    BY <1>1, <2>1, StillPlaced DEF At
  <2> QED BY <1>1, <2>1 DEF WindowsInv, WindowsPlace
<1>5. WindowsReply'
  BY <1>1 DEF WindowsInv, WindowsReply
<1> QED BY <1>2, <1>3, <1>4, <1>5 DEF WindowsInv

LEMMA WindowsStep == WindowsInv /\ W!Next => WindowsInv'
<1> SUFFICES ASSUME WindowsInv, W!Next PROVE WindowsInv'
  OBVIOUS
<1>1. size \in Nat /\ seen \in Seq(1 .. size)
  BY DEF WindowsInv, WindowsTypes
<1>2. CASE W!ReadOn
  <2>1. seen # <<>> /\ W!Read(seen[Len(seen)]) /\ ended' = FALSE /\ seen' = seen
    BY <1>2 DEF W!ReadOn, W!Last
  <2>2. Len(seen) \in Nat \ {0}
    BY <1>1, <2>1, EmptySeq
  <2>3. seen[Len(seen)] \in 0 .. size
    BY <1>1, <2>2
  <2> QED BY <1>1, <2>1, <2>3, MarkerKeeps
<1>3. CASE W!StartOver
  <2>1. W!Read(0) /\ seen' = <<>> /\ ended' = FALSE /\ 0 \in 0 .. size
    BY <1>1, <1>3 DEF W!StartOver, W!NoMarker
  <2>2. seen' \in Seq(1 .. size)
    BY <2>1, EmptySeq
  <2> QED BY <2>1, <2>2, MarkerKeeps
<1> QED BY <1>2, <1>3, WindowsReopen, WindowsFill, WindowsTake, WindowsFinish, WindowsShrink
        DEF W!Next

(***************************************************************************)
(* Both.                                                                   *)
(***************************************************************************)
IInv ==
  /\ mount \in {"fuse", "windows"}
  /\ mount = "fuse" => FuseInv
  /\ mount = "windows" => WindowsInv

LEMMA Start == Init => IInv
<1> SUFFICES ASSUME Init PROVE IInv
  OBVIOUS
<1>1. CASE mount = "fuse" /\ F!Init
  BY <1>1, FuseStart DEF IInv
<1>2. CASE mount = "windows" /\ W!Init
  BY <1>2, WindowsStart DEF IInv
<1> QED BY <1>1, <1>2 DEF Init

LEMMA Step == IInv /\ [Next]_vars => IInv'
<1> SUFFICES ASSUME IInv, [Next]_vars PROVE IInv'
  OBVIOUS
<1>1. CASE mount = "fuse" /\ F!Next /\ UNCHANGED <<mount, windowsOnly>>
  BY <1>1, FuseStep DEF IInv
<1>2. CASE mount = "windows" /\ W!Next /\ UNCHANGED <<mount, fuseOnly>>
  BY <1>2, WindowsStep DEF IInv
<1>3. CASE UNCHANGED vars
  <2>1. UNCHANGED <<mount, size, gone, allocated, streams, pending, eof, step, answer, seen, ended,
                    remote, offset, asked, due, handle, last, marker, seeking>>
    BY <1>3 DEF vars, fuseOnly, windowsOnly
  <2>2. FuseInv => FuseInv'
    BY <2>1 DEF FuseInv, FuseTypes, FuseHandle, FusePlace, FuseReply, FuseReader, F!HandleOwned,
                F!NoHandle
  <2>3. WindowsInv => WindowsInv'
    BY <2>1 DEF WindowsInv, WindowsTypes, WindowsHandle, WindowsPlace, At, WindowsReply,
                W!HandleOwned, W!NoHandle
  <2> QED BY <2>1, <2>2, <2>3 DEF IInv
<1> QED BY <1>1, <1>2, <1>3 DEF Next

LEMMA Inductive == Spec => []IInv
BY Start, Step, PTL DEF Spec

\* A reply of readdir holds exactly the entries after its offset, and a reader that is
\* told there are no more has all there were when its stream was opened (readdir and
\* Directory::prepare in fuse.rs).
THEOREM RepliesAlwaysExact == Spec => []RepliesExact
<1>1. ASSUME IInv PROVE RepliesExact
  <2> SUFFICES ASSUME mount = "fuse" PROVE F!RepliesExact
    BY DEF RepliesExact
  <2>1. FuseInv
    BY <1>1 DEF IInv
  <2>2. \A i \in DOMAIN answer : answer[i] = <<asked + i, asked + i>>
    BY <2>1 DEF FuseInv, FuseReply
  <2>3. ASSUME ended PROVE Len(seen) >= streams[remote].opened
    <3>1. remote # 0 /\ streams[remote].opened <= Len(seen)
      BY <2>1, <2>3 DEF FuseInv, FuseReader
    <3>2. Len(seen) \in Nat /\ streams[remote].opened \in Nat
      BY <2>1, <3>1 DEF FuseInv, FuseTypes, FuseHandle, F!HandleOwned, F!NoHandle, StreamsOf
    <3> QED BY <3>1, <3>2
  <2> QED BY <2>2, <2>3 DEF F!RepliesExact
<1> QED BY <1>1, Inductive, PTL

\* A reply of read_directory holds entries that follow its marker and skips only what
\* was deleted, and at the end nothing is left (read_directory in windows.rs).
THEOREM RepliesAlwaysFollow == Spec => []RepliesFollowMarker
<1>1. ASSUME IInv PROVE RepliesFollowMarker
  <2> SUFFICES ASSUME mount = "windows" PROVE W!RepliesFollowMarker
    BY DEF RepliesFollowMarker
  <2>1. WindowsInv
    BY <1>1 DEF IInv
  <2>2. \A i \in DOMAIN answer :
          i > 1 \/ marker # 0 =>
            LET before == IF i = 1 THEN marker ELSE answer[i - 1]
            IN before < answer[i] /\ before + 1 .. answer[i] - 1 \subseteq gone
    BY <2>1 DEF WindowsInv, WindowsReply
  <2>3. ASSUME step = "loop", pending = <<>>, eof, answer = <<>>, marker # 0
        PROVE  IF seeking THEN marker \in gone ELSE marker + 1 .. size \subseteq gone
    <3>1. /\ handle # 0 /\ handle \in DOMAIN streams /\ streams[handle].eof
          /\ size \in Nat /\ marker \in 0 .. size
      BY <2>1, <2>3 DEF WindowsInv, WindowsHandle, W!HandleOwned, W!NoHandle, WindowsPlace,
                        WindowsTypes
    <3>2. PICK e \in Nat : At(e)
      BY <2>1, <3>1 DEF WindowsInv, WindowsPlace
    <3>3. e + 1 .. size \subseteq gone
      <4>1. EndSound(streams[handle], gone) /\ streams[handle].opened = size
        BY <2>1, <3>1 DEF WindowsInv, WindowsTypes
      <4>2. streams[handle].fetched = e
        BY <2>3, <3>1, <3>2, <4>1 DEF At, Placed, Through, EndSound
      <4> QED BY <3>1, <4>1, <4>2 DEF EndSound
    <3>4. CASE seeking
      <4>1. e < marker \/ marker \in gone
        BY <3>2, <3>4 DEF At
      <4>2. e < marker => marker \in e + 1 .. size
        BY <3>1
      <4> QED BY <3>3, <3>4, <4>1, <4>2
    <3>5. CASE ~seeking
      <4>1. e = marker
        BY <2>3, <3>2, <3>5 DEF At
      <4> QED BY <3>3, <3>5, <4>1
    <3> QED BY <3>4, <3>5
  <2> QED BY <2>2, <2>3 DEF W!RepliesFollowMarker, W!NoMarker
<1> QED BY <1>1, Inductive, PTL

\* The server keeps the one stream that a cursor reads, or none (Directory::prepare in
\* fuse.rs, read_directory in windows.rs, the directories of Server::dispatch).
THEOREM HandleAlwaysOwned == Spec => []HandleOwned
<1>1. IInv => HandleOwned
  BY DEF IInv, HandleOwned, FuseInv, FuseHandle, WindowsInv, WindowsHandle
<1> QED BY <1>1, Inductive, PTL
==============================================================================
