-------------------------- MODULE FileAccessProofs --------------------------
(***************************************************************************)
(* Proofs about FileAccess for files and buffers of any length, any chunk, *)
(* any constants of the time conversion, and any attributes and times that *)
(* an application may ask for.                                             *)
(*                                                                         *)
(* What the callbacks promise is about their end.  The inductive invariant *)
(* says what holds in the middle of their loops: how far a read or a write *)
(* has come (ReadInv, WriteInv), what a resize may still do (SizeInv), and *)
(* what the request that is about to be sent will make of the metadata     *)
(* (ModeInv, ShownInv, ModifiedInv).                                       *)
(***************************************************************************)
EXTENDS FileAccess, SequenceTheorems, TLAPS

ContentOps == {"read", "write", "resize"}
LookingOps == {"basic", "create", "overwrite"}
MetaOps    == LookingOps \cup {"setattr"}

Byte      == {"old", "new", "other", "zero"} \X Nat
Option(S) == {{}} \cup {{v} : v \in S}
Modes     == Option(SUBSET ModeBits)
Shown     == {0} \cup Epoch .. MaxTime      \* times that are not refused

Files    == [kind : {"file", "directory"}, bytes : Seq(Byte), mode : Modes,
             modified : Option(Nat), accessed : Option(Nat)]
Requests == [size : Option(Nat), mode : Modes,
             modified : Option(Nat), accessed : Option(Nat)]
Calls    == [op : {"none"} \cup ContentOps \cup MetaOps,
             step : {"idle", "look", "chunks", "set", "fill", "returned"},
             result : {"pending", "ok", "failed", "refused"},
             offset : Nat, length : Nat, eof : BOOLEAN, constrained : BOOLEAN,
             done : Nat, found : Nat, answer : Seq(Byte), size : Nat, allocation : BOOLEAN,
             attributes : SUBSET Flags, replace : BOOLEAN, modified : Nat, accessed : Nat,
             request : Requests]

TypeInv ==
  /\ mount \in {"windows", "fuse"} /\ focus \in {"contents", "metadata"}
  /\ writable \in BOOLEAN
  /\ file \in Files /\ start \in Files
  /\ granted \in Modes
  /\ call \in Calls

\* Which callback may be at which step, and what it is about.
StepInv ==
  /\ call.op \in ContentOps => focus = "contents"
  /\ call.op \in MetaOps => focus = "metadata"
  /\ call.op = "none" <=> call.step = "idle"
  /\ call.step = "chunks" => call.op \in {"read", "write"}
  /\ call.step \in {"set", "fill"} => call.op \in {"resize"} \cup MetaOps
  /\ call.step = "look" => call.op \notin {"read", "setattr"}
  /\ call.op \in {"create", "overwrite"} => file.kind = "file"
  /\ call.step # "returned" => call.result = "pending"
  /\ call.result # "refused" => call.modified \in Shown /\ call.accessed \in Shown
  /\ call.step = "look" => call.done = 0
  /\ call.done <= call.length

\* Nothing is changed before the request that is to change it.
QuietInv ==
  /\ \/ call.step = "idle"
     \/ focus = "metadata" /\ call.step \in {"look", "set"}
     \/ call.result = "refused"
     => file = start
  /\ call.step = "idle" => \A i \in DOMAIN file.bytes : file.bytes[i] = Old(i)

\* What has been read so far is what is in the file, which only grows.
ReadInv ==
  call.op = "read" =>
    /\ Len(call.answer) = call.done
    /\ \A i \in 1 .. call.done : call.answer[i] = file.bytes[call.offset + i]
    /\ call.done > 0 => call.offset + call.done <= Size
    /\ Len(start.bytes) <= Size
    /\ call.result = "ok" => call.done = call.length \/ call.offset + call.done >= Size

\* The first k bytes of the buffer are in their place and all else is as it was.
Landed(f, before, c, k) ==
  /\ \A i \in DOMAIN f.bytes : f.bytes[i][1] = "new" <=> i \in c.offset + 1 .. c.offset + k
  /\ \A i \in c.offset + 1 .. c.offset + k :
       i \in DOMAIN f.bytes /\ f.bytes[i] = New(i - c.offset)
  /\ Len(before.bytes) <= Len(f.bytes)
  /\ \A i \in DOMAIN before.bytes :
       i \notin c.offset + 1 .. c.offset + k => f.bytes[i] = Old(i)

Allowed(before, c, k) ==
  k > 0 => /\ c.eof => c.offset >= Len(before.bytes)
           /\ c.constrained => c.offset + k <= c.found

WriteInv ==
  call.op = "write" =>
    /\ call.step = "look" => Landed(file, start, call, 0)
    /\ call.step = "chunks" =>
         Landed(file, start, call, call.done) /\ Allowed(start, call, call.length)
    /\ call.step = "returned" =>
         \E k \in call.done .. call.length :
           /\ Landed(file, start, call, k) /\ Allowed(start, call, k)
           /\ call.result = "ok" => k = call.length

\* An allocation size is smaller than the file when it is set, and a file that
\* has not been set is as it was, or longer.
KeptTo(n) == \A i \in DOMAIN start.bytes :
               i <= n => i \in DOMAIN file.bytes /\ file.bytes[i] = Old(i)
NoZero    == \A i \in DOMAIN file.bytes : file.bytes[i] # Zero
SizeInv ==
  call.op = "resize" =>
    /\ call.request = [NoChange EXCEPT !.size = {call.size}]
    /\ call.step \in {"look", "set"} => KeptTo(Len(start.bytes)) /\ NoZero
    /\ call.step = "set" /\ call.allocation => call.size < Size
    /\ call.step = "fill" \/ call.result = "ok" =>
         KeptTo(call.size) /\ (call.allocation => NoZero)

\* A mode that differs from the granted one in write bits only, of which it has
\* no more than those and the owner's.
Tame(mode) ==
  /\ Known(granted) = Known(mode)
  /\ Known(granted) =>
       /\ Value(mode) \ WriteBits = Value(granted) \ WriteBits
       /\ Value(mode) \cap WriteBits \subseteq Value(granted) \cup {"owner-writes"}
ModeInv ==
  /\ Tame(file.mode)
  /\ call.step = "set" /\ call.op \in LookingOps =>
       call.request.mode = {} \/ Tame(call.request.mode)

\* The read-only attribute that a callback is to leave behind.
Wanted ==
  \/ "readonly" \in call.attributes
  \/ call.op = "overwrite" /\ ~call.replace /\ "readonly" \in Attributes(start)
ShownInv ==
  call.op \in LookingOps /\ call.attributes # Keep =>
    /\ call.step = "set" =>
         IF call.request.mode = {} THEN "readonly" \in Attributes(file) <=> Wanted
         ELSE file.kind = "file" /\ (Value(call.request.mode) \cap WriteBits = {} <=> Wanted)
    /\ call.step = "fill" \/ call.result = "ok" => ("readonly" \in Attributes(file) <=> Wanted)

ModifiedInv ==
  call.op = "basic" =>
    /\ call.step = "set" => call.request.modified = UnixSeconds(call.modified)
    /\ call.step = "fill" \/ call.result = "ok" =>
         file.modified = IF call.modified = 0 THEN start.modified ELSE UnixSeconds(call.modified)

IInv ==
  /\ TypeInv /\ StepInv /\ QuietInv
  /\ ReadInv /\ WriteInv /\ SizeInv
  /\ ModeInv /\ ShownInv /\ ModifiedInv
(***************************************************************************)
(* Lemmas about the operators.                                             *)
(***************************************************************************)
\* The value of an option that has one.
LEMMA ValueOne == \A v : Known({v}) /\ Value({v}) = v
BY DEF Known, Value

LEMMA MinTwo == \A a, b \in Int : Min({a, b}) = IF a <= b THEN a ELSE b
<1> SUFFICES ASSUME NEW a \in Int, NEW b \in Int
             PROVE  Min({a, b}) = IF a <= b THEN a ELSE b
  OBVIOUS
<1>1. \E x \in {a, b} : \A y \in {a, b} : x =< y
  OBVIOUS
<1>2. Min({a, b}) \in {a, b} /\ \A y \in {a, b} : Min({a, b}) =< y
  BY <1>1 DEF Min
<1> QED BY <1>2

LEMMA MaxTwo == \A a, b \in Int : Max({a, b}) = IF a >= b THEN a ELSE b
<1> SUFFICES ASSUME NEW a \in Int, NEW b \in Int
             PROVE  Max({a, b}) = IF a >= b THEN a ELSE b
  OBVIOUS
<1>1. \E x \in {a, b} : \A y \in {a, b} : x >= y
  OBVIOUS
<1>2. Max({a, b}) \in {a, b} /\ \A y \in {a, b} : Max({a, b}) >= y
  BY <1>1 DEF Max
<1> QED BY <1>2

\* A function on 1 .. n is a sequence of length n.
LEMMA SequenceOf ==
  ASSUME NEW S, NEW n \in Nat, NEW f \in [1 .. n -> S]
  PROVE  f \in Seq(S) /\ Len(f) = n
<1>1. f \in Seq(S)
  BY SeqDef
<1>2. Len(f) \in Nat /\ DOMAIN f = 1 .. Len(f)
  BY <1>1, LenProperties
<1>3. 1 .. n = 1 .. Len(f)
  BY <1>2
<1> QED BY <1>1, <1>2, <1>3

LEMMA BytesAre ==
  ASSUME NEW s \in Seq(Byte)
  PROVE  /\ Len(s) \in Nat /\ DOMAIN s = 1 .. Len(s)
         /\ \A i \in 1 .. Len(s) : s[i] \in Byte
BY LenProperties

LEMMA MarksAre ==
  /\ \A i \in Nat : Old(i) \in Byte /\ New(i) \in Byte
  /\ Other \in Byte /\ Zero \in Byte
  /\ \A i : Old(i)[1] = "old" /\ New(i)[1] = "new" /\ Old(i) # Zero
  /\ Other[1] = "other" /\ Zero[1] = "zero" /\ Other # Zero
BY DEF Old, New, Other, Zero, Byte

LEMMA NoCallTyped == NoCall \in Calls
<1>1. <<>> \in Seq(Byte)
  BY EmptySeq
<1>2. NoChange \in Requests
  BY DEF NoChange, Requests, Option, Modes
<1> QED BY <1>1, <1>2 DEF NoCall, Calls, Keep, ContentOps, MetaOps, LookingOps

\* Returning keeps everything but the step and the result.
LEMMA ReturnedIs ==
  ASSUME NEW c \in Calls, NEW r \in {"ok", "failed", "refused"}
  PROVE  /\ Returned(c, r) \in Calls
         /\ Returned(c, r).step = "returned" /\ Returned(c, r).result = r
         /\ Returned(c, r).op = c.op
         /\ Returned(c, r).offset = c.offset /\ Returned(c, r).length = c.length
         /\ Returned(c, r).eof = c.eof /\ Returned(c, r).constrained = c.constrained
         /\ Returned(c, r).done = c.done /\ Returned(c, r).found = c.found
         /\ Returned(c, r).answer = c.answer /\ Returned(c, r).size = c.size
         /\ Returned(c, r).allocation = c.allocation
         /\ Returned(c, r).attributes = c.attributes /\ Returned(c, r).replace = c.replace
         /\ Returned(c, r).modified = c.modified /\ Returned(c, r).accessed = c.accessed
         /\ Returned(c, r).request = c.request
BY DEF Returned, Calls

LEMMA MarkedIs ==
  ASSUME NEW f \in Files
  PROVE  /\ Marked(f) \in Files /\ Marked(f).kind = f.kind /\ Marked(f).mode = f.mode
         /\ \A i \in DOMAIN Marked(f).bytes : Marked(f).bytes[i] = Old(i)
<1> DEFINE b == [i \in DOMAIN f.bytes |-> Old(i)]
<1>1. f.bytes \in Seq(Byte)
  BY DEF Files
<1>2. Len(f.bytes) \in Nat /\ DOMAIN f.bytes = 1 .. Len(f.bytes)
  BY <1>1, LenProperties
<1>3. b \in [1 .. Len(f.bytes) -> Byte]
  BY <1>2, MarksAre
<1>4. b \in Seq(Byte)
  BY <1>2, <1>3, SequenceOf
<1>5. Marked(f) = [f EXCEPT !.bytes = b]
  BY DEF Marked
<1> HIDE DEF b
<1>6. Marked(f) \in Files /\ Marked(f).kind = f.kind /\ Marked(f).mode = f.mode /\ Marked(f).bytes = b
  BY <1>4, <1>5 DEF Files
<1> QED BY <1>6 DEF b

LEMMA UnixIs == \A time \in Shown : UnixSeconds(time) \in Option(Nat)
<1> SUFFICES ASSUME NEW time \in Shown PROVE UnixSeconds(time) \in Option(Nat)
  OBVIOUS
<1>1. CASE time = 0
  BY <1>1 DEF UnixSeconds, Option
<1>2. CASE time # 0
  <2>1. time - Epoch \in Nat /\ Ticks \in Nat \ {0}
    BY <1>2, TimeAssumption DEF Shown
  <2>2. (time - Epoch) \div Ticks \in Nat
    BY <2>1
  <2> QED BY <1>2, <2>2 DEF UnixSeconds, Option
<1> QED BY <1>1, <1>2

\* What a metadata request makes of the file, or any part of it.
LEMMA ResizedIs ==
  ASSUME file \in Files, NEW n \in Nat
  PROVE  /\ Resized(n) \in Seq(Byte) /\ Len(Resized(n)) = n
         /\ \A i \in 1 .. n : Resized(n)[i] = IF i <= Size THEN file.bytes[i] ELSE Zero
<1>1. file.bytes \in Seq(Byte)
  BY DEF Files
<1>2. Size \in Nat /\ \A i \in 1 .. Size : file.bytes[i] \in Byte
  BY <1>1, BytesAre DEF Size
<1>3. Resized(n) \in [1 .. n -> Byte]
  BY <1>2, MarksAre DEF Resized
<1> QED BY <1>3, SequenceOf DEF Resized

LEMMA AppliedIs ==
  ASSUME file \in Files, NEW r \in Requests
  PROVE  /\ Applied(r) \in Files /\ Applied(r).kind = file.kind
         /\ Applied(r).bytes = IF Known(r.size) THEN Resized(Value(r.size)) ELSE file.bytes
         /\ Applied(r).mode = Update(file.mode, r.mode)
         /\ Applied(r).modified = Update(file.modified, r.modified)
         /\ Applied(r).accessed = Update(file.accessed, r.accessed)
<1> DEFINE b == IF Known(r.size) THEN Resized(Value(r.size)) ELSE file.bytes
<1>1. b \in Seq(Byte)
  <2>1. CASE Known(r.size)
    <3>1. PICK n \in Nat : r.size = {n}
      BY <2>1 DEF Requests, Option, Known
    <3>2. Value(r.size) \in Nat
      BY <3>1, ValueOne
    <3> QED BY <2>1, <3>2, ResizedIs
  <2>2. CASE ~Known(r.size)
    BY <2>2 DEF Files
  <2> QED BY <2>1, <2>2
<1>2. /\ Update(file.mode, r.mode) \in Modes
      /\ Update(file.modified, r.modified) \in Option(Nat)
      /\ Update(file.accessed, r.accessed) \in Option(Nat)
  BY DEF Update, Requests, Files
<1>3. Applied(r) = [file EXCEPT !.bytes = b, !.mode = Update(@, r.mode),
                     !.modified = Update(@, r.modified), !.accessed = Update(@, r.accessed)]
  BY DEF Applied
<1> HIDE DEF b
<1>4. /\ Applied(r) \in Files /\ Applied(r).kind = file.kind /\ Applied(r).bytes = b
      /\ Applied(r).mode = Update(file.mode, r.mode)
      /\ Applied(r).modified = Update(file.modified, r.modified)
      /\ Applied(r).accessed = Update(file.accessed, r.accessed)
  BY <1>1, <1>2, <1>3 DEF Files
<1> QED BY <1>4 DEF b

LEMMA PartsAre ==
  ASSUME NEW r \in Requests, NEW part \in Parts(r)
  PROVE  /\ part \in Requests
         /\ part.size \in {{}, r.size} /\ part.mode \in {{}, r.mode}
         /\ part.modified \in {{}, r.modified}
BY DEF Parts, Requests, Option, Modes

LEMMA PermissionsTyped ==
  ASSUME NEW f \in Files, NEW requested, ~PermissionsRefused(f, requested)
  PROVE  Permissions(f, requested) \in Modes
<1>1. CASE ~Toggles(f, requested)
  BY <1>1 DEF Permissions, Modes, Option
<1>2. CASE Toggles(f, requested)
  <2>1. requested # Keep
    BY <1>2 DEF Toggles
  <2>2. Known(f.mode)
    BY <1>2, <2>1 DEF PermissionsRefused
  <2>3. PICK m \in SUBSET ModeBits : f.mode = {m}
    BY <2>2 DEF Files, Modes, Option, Known
  <2>4. Value(f.mode) = m
    BY <2>3, ValueOne
  <2>5. /\ m \ WriteBits \in SUBSET ModeBits
        /\ m \cup {"owner-writes"} \in SUBSET ModeBits
    BY DEF ModeBits, WriteBits
  <2> QED BY <1>2, <2>4, <2>5 DEF Permissions, Modes, Option
<1> QED BY <1>1, <1>2

(***************************************************************************)
(* What each action does.                                                  *)
(***************************************************************************)
Fixed == <<mount, focus, writable>>

\* A callback that begins: its call, at its first step, with nothing done yet.
Begun(op) ==
  /\ call' \in Calls /\ call'.op = op /\ call'.done = 0
  /\ call'.result \in {"pending", "refused"}
  /\ call'.result = "pending" <=> call'.step # "returned"
  /\ UNCHANGED Fixed

LEMMA ReadBegins ==
  ASSUME NEW offset \in Nat, NEW length \in Nat, Read(offset, length)
  PROVE  /\ call.step = "idle" /\ focus = "contents" /\ Begun("read")
         /\ call'.step = "chunks" /\ call'.answer = <<>>
         /\ call'.modified = 0 /\ call'.accessed = 0
         /\ UNCHANGED <<file, start, granted>>
<1>1. call' = [NoCall EXCEPT !.op = "read", !.step = "chunks", !.result = "pending",
                             !.offset = offset, !.length = length]
  BY DEF Read, Begin
<1>2. call' \in Calls
  BY <1>1, NoCallTyped DEF Calls, ContentOps
<1> QED BY <1>1, <1>2 DEF Read, Begin, Contents, NoCall, Begun, Fixed

LEMMA WriteBegins ==
  ASSUME mount \in {"windows", "fuse"},
         NEW offset \in Nat, NEW length \in Nat, NEW eof \in BOOLEAN, NEW constrained \in BOOLEAN,
         Write(offset, length, eof, constrained)
  PROVE  /\ call.step = "idle" /\ focus = "contents" /\ Begun("write")
         /\ call'.step \in {"look", "chunks"}
         /\ call'.step = "chunks" => ~call'.eof /\ ~call'.constrained
         /\ call'.modified = 0 /\ call'.accessed = 0
         /\ UNCHANGED <<file, start, granted>>
<1>1. call' = [NoCall EXCEPT !.op = "write", !.result = "pending",
                             !.step = IF mount = "windows" THEN "look" ELSE "chunks",
                             !.offset = offset, !.length = length,
                             !.eof = eof, !.constrained = constrained]
  BY DEF Write, Begin
<1>2. call' \in Calls
  BY <1>1, NoCallTyped DEF Calls, ContentOps
<1> QED BY <1>1, <1>2 DEF Write, Begin, Contents, NoCall, Begun, Fixed

LEMMA SizeBegins ==
  ASSUME NEW size \in Nat, NEW allocation \in BOOLEAN, SetSize(size, allocation)
  PROVE  /\ call.step = "idle" /\ focus = "contents" /\ Begun("resize")
         /\ call'.step \in {"look", "set"} /\ (call'.step = "set" => ~call'.allocation)
         /\ call'.request = [NoChange EXCEPT !.size = {call'.size}]
         /\ call'.modified = 0 /\ call'.accessed = 0
         /\ UNCHANGED <<file, start, granted>>
<1>1. call' = [NoCall EXCEPT !.op = "resize", !.result = "pending",
                             !.step = IF allocation THEN "look" ELSE "set",
                             !.size = size, !.allocation = allocation,
                             !.request.size = {size}]
  BY DEF SetSize, Begin
<1>2. [NoChange EXCEPT !.size = {size}] \in Requests
  BY DEF NoChange, Requests, Option, Modes
<1>3. call'.request = [NoChange EXCEPT !.size = {size}] /\ call'.size = size
  BY <1>1 DEF NoCall
<1>4. call' \in Calls
  BY <1>1, <1>2, <1>3, NoCallTyped DEF Calls, ContentOps
<1> QED BY <1>1, <1>3, <1>4 DEF SetSize, Begin, NoCall, Begun, Fixed

LEMMA OverwriteBegins ==
  ASSUME NEW attributes \in SUBSET Flags, NEW replace \in BOOLEAN, Overwrite(attributes, replace)
  PROVE  /\ call.step = "idle" /\ focus = "metadata" /\ file.kind = "file" /\ Begun("overwrite")
         /\ call'.step \in {"look", "returned"}
         /\ call'.modified = 0 /\ call'.accessed = 0
         /\ UNCHANGED <<file, start, granted>>
<1> DEFINE c == [NoCall EXCEPT !.op = "overwrite", !.step = "look", !.result = "pending",
                   !.attributes = CreationAttributes(attributes), !.replace = replace]
<1>1. call' \in {c, Returned(c, "refused")}
  BY DEF Overwrite, Begin
<1>2. CreationAttributes(attributes) \in SUBSET Flags
  BY DEF CreationAttributes
<1>3. c \in Calls
  BY <1>2, NoCallTyped DEF Calls, MetaOps, LookingOps
<1>4. /\ c.op = "overwrite" /\ c.step = "look" /\ c.result = "pending" /\ c.done = 0
      /\ c.modified = 0 /\ c.accessed = 0
  BY DEF NoCall
<1>5. call.step = "idle" /\ focus = "metadata" /\ file.kind = "file"
      /\ UNCHANGED <<mount, focus, writable, file, start, granted>>
  BY DEF Overwrite, Begin
<1> HIDE DEF c
<1> QED BY <1>1, <1>3, <1>4, <1>5, ReturnedIs DEF Begun, Fixed

LEMMA BasicBegins ==
  ASSUME NEW attributes \in SUBSET Flags, NEW created \in Nat, NEW accessed \in Nat,
         NEW modified \in Nat, NEW changed \in Nat,
         SetBasicInfo(attributes, created, accessed, modified, changed)
  PROVE  /\ call.step = "idle" /\ focus = "metadata" /\ Begun("basic")
         /\ call'.step \in {"look", "returned"}
         /\ call'.step = "look" => call'.modified \in Shown /\ call'.accessed \in Shown
         /\ UNCHANGED <<file, start, granted>>
<1> DEFINE c == [NoCall EXCEPT !.op = "basic", !.step = "look", !.result = "pending",
                   !.attributes = attributes, !.modified = modified, !.accessed = accessed]
<1>1. \/ call' = Returned(c, "refused")
      \/ call' = c /\ ~TimeRefused(accessed) /\ ~TimeRefused(modified)
  BY DEF SetBasicInfo, Begin
<1>2. c \in Calls
  BY NoCallTyped DEF Calls, MetaOps, LookingOps
<1>3. /\ c.op = "basic" /\ c.step = "look" /\ c.result = "pending" /\ c.done = 0
      /\ c.modified = modified /\ c.accessed = accessed
  BY DEF NoCall
<1>4. call.step = "idle" /\ focus = "metadata"
      /\ UNCHANGED <<mount, focus, writable, file, start, granted>>
  BY DEF SetBasicInfo, Begin
<1> HIDE DEF c
<1> QED BY <1>1, <1>2, <1>3, <1>4, ReturnedIs DEF Begun, Fixed, TimeRefused, Shown

LEMMA CreateBegins ==
  ASSUME NEW attributes \in SUBSET Flags, NEW mode \in Modes, Create(attributes, mode)
  PROVE  /\ focus = "metadata" /\ Begun("create") /\ call'.step = "look"
         /\ call'.modified = 0 /\ call'.accessed = 0
         /\ file' \in Files /\ file'.kind = "file" /\ file'.mode = mode
         /\ start' = file' /\ granted' = mode
<1>1. call' = [NoCall EXCEPT !.op = "create", !.step = "look", !.result = "pending",
                             !.attributes = CreationAttributes(attributes)]
  BY DEF Create
<1>2. CreationAttributes(attributes) \in SUBSET Flags
  BY DEF CreationAttributes
<1>3. call' \in Calls
  BY <1>1, <1>2, NoCallTyped DEF Calls, MetaOps, LookingOps
<1>4. <<>> \in Seq(Byte)
  BY EmptySeq
<1>5. file' \in Files /\ file'.kind = "file" /\ file'.mode = mode
  BY <1>4 DEF Create, Files, Option
<1> QED BY <1>1, <1>3, <1>5 DEF Create, NoCall, Begun, Fixed

LEMMA SetAttrBegins ==
  ASSUME NEW owned \in BOOLEAN, NEW mode \in Modes, NEW modified \in Option(Nat),
         SetAttr(owned, mode, modified)
  PROVE  /\ call.step = "idle" /\ focus = "metadata" /\ Begun("setattr")
         /\ call'.step \in {"set", "returned"}
         /\ call'.modified = 0 /\ call'.accessed = 0
         /\ UNCHANGED <<file, start, granted>>
<1> DEFINE c == [NoCall EXCEPT !.op = "setattr", !.step = "set", !.result = "pending",
                   !.request.mode = mode, !.request.modified = modified]
<1>1. call' \in {c, Returned(c, "refused")}
  BY DEF SetAttr, Begin
<1>2. [NoChange EXCEPT !.mode = mode, !.modified = modified] \in Requests
  BY DEF NoChange, Requests, Option, Modes
<1>3. c.request = [NoChange EXCEPT !.mode = mode, !.modified = modified]
  BY DEF NoCall, NoChange
<1>4. c \in Calls
  BY <1>2, <1>3, NoCallTyped DEF Calls, MetaOps
<1>5. /\ c.op = "setattr" /\ c.step = "set" /\ c.result = "pending" /\ c.done = 0
      /\ c.modified = 0 /\ c.accessed = 0
  BY DEF NoCall
<1>6. call.step = "idle" /\ focus = "metadata"
      /\ UNCHANGED <<mount, focus, writable, file, start, granted>>
  BY DEF SetAttr, Begin
<1> HIDE DEF c
<1> QED BY <1>1, <1>4, <1>5, <1>6, ReturnedIs DEF Begun, Fixed

\* A step of a callback towards its end.
Steps(op, from) ==
  /\ call.op = op /\ call.step = from
  /\ UNCHANGED <<mount, focus, writable, start>>
Ends(result) == call' = Returned(call, result) /\ UNCHANGED file

LEMMA NextLengthIs ==
  ASSUME TypeInv, call.done < call.length
  PROVE  NextLength \in 1 .. call.length - call.done
<1>1. call.length \in Nat /\ call.done \in Nat /\ Chunk \in Nat \ {0}
  BY AccessAssumption DEF TypeInv, Calls
<1>2. NextLength = IF call.length - call.done <= Chunk THEN call.length - call.done ELSE Chunk
  BY <1>1, MinTwo DEF NextLength
<1> QED BY <1>1, <1>2

LEMMA ReadChunkIs ==
  ASSUME TypeInv, StepInv, ReadChunk
  PROVE  /\ Steps("read", "chunks") /\ UNCHANGED <<file, granted>>
         /\ \/ call.done = call.length /\ Ends("ok")
            \/ Ends("failed")
            \/ Place >= Size /\ Ends("ok")
            \/ \E k \in 1 .. call.length - call.done :
                 Place + k <= Size /\ call' = Received(k)
<1>1. /\ Steps("read", "chunks") /\ UNCHANGED <<file, granted>>
  BY DEF ReadChunk, Aside, Steps
<1>2. CASE call.done = call.length
  BY <1>1, <1>2 DEF ReadChunk, Return, Ends
<1>3. ASSUME call.done # call.length, NEW k \in Given,
             call' = IF k = 0 THEN Returned(call, "ok") ELSE Received(k)
      PROVE  \/ Place >= Size /\ Ends("ok")
             \/ \E j \in 1 .. call.length - call.done : Place + j <= Size /\ call' = Received(j)
  <2>1. call.length \in Nat /\ call.done \in Nat /\ call.offset \in Nat /\ call.done < call.length
    BY <1>3 DEF TypeInv, Calls, StepInv
  <2>2. NextLength \in 1 .. call.length - call.done
    BY <2>1, NextLengthIs
  <2>3. Size \in Nat
    BY BytesAre DEF TypeInv, Files, Size
  <2>4. Place \in Nat
    BY <2>1 DEF Place
  <2>5. k \in 0 .. NextLength /\ IF Place >= Size THEN k = 0 ELSE k > 0 /\ k <= Size - Place
    BY <1>3 DEF Given
  <2>6. CASE k = 0
    BY <2>6, <2>5, <1>1, <1>3, <2>3, <2>4 DEF Ends
  <2>7. CASE k # 0
    <3>1. k \in 1 .. call.length - call.done /\ Place + k <= Size
      BY <2>1, <2>2, <2>3, <2>4, <2>5, <2>7
    <3> QED BY <3>1, <1>3, <2>7
  <2> QED BY <2>6, <2>7
<1>4. CASE call.done # call.length
  <2>1. CASE Return("failed")
    BY <1>1, <2>1 DEF Return, Ends
  <2>2. CASE \E k \in Given : call' = IF k = 0 THEN Returned(call, "ok") ELSE Received(k)
    BY <1>1, <1>3, <1>4, <2>2
  <2> QED BY <1>4, <2>1, <2>2 DEF ReadChunk
<1> QED BY <1>1, <1>2, <1>4

LEMMA ReceivedIs ==
  ASSUME TypeInv, NEW k \in Nat, Place + k <= Size
  PROVE  /\ Received(k) \in Calls
         /\ Received(k) = [call EXCEPT !.answer = Received(k).answer, !.done = call.done + k]
         /\ Received(k).done = call.done + k
         /\ Len(Received(k).answer) = Len(call.answer) + k
         /\ \A i \in 1 .. Len(call.answer) : Received(k).answer[i] = call.answer[i]
         /\ \A i \in 1 .. k : Received(k).answer[Len(call.answer) + i] = file.bytes[Place + i]
<1> DEFINE s == SubSeq(file.bytes, Place + 1, Place + k)
<1>1. file.bytes \in Seq(Byte) /\ call.answer \in Seq(Byte)
  BY DEF TypeInv, Files, Calls
<1>2. Size \in Nat /\ Size = Len(file.bytes) /\ Place \in Nat
  BY <1>1, BytesAre DEF Size, Place, TypeInv, Calls
<1>3. \A i \in Place + 1 .. Place + k : file.bytes[i] \in Byte
  BY <1>1, <1>2, BytesAre
<1>4. /\ s \in Seq(Byte) /\ Len(s) = k /\ \A i \in 1 .. k : s[i] = file.bytes[Place + i]
  <2>1. s \in Seq(Byte)
    BY <1>1, <1>2
  <2>2. Len(s) = k
    BY <1>1, <1>2
  <2>3. \A i \in 1 .. k : s[i] = file.bytes[Place + i]
    BY <1>1, <1>2
  <2> QED BY <2>1, <2>2, <2>3
<1>5. Received(k) = [call EXCEPT !.answer = call.answer \o s, !.done = call.done + k]
  BY DEF Received
<1> HIDE DEF s
<1>6. /\ call.answer \o s \in Seq(Byte) /\ Len(call.answer \o s) = Len(call.answer) + k
      /\ \A i \in 1 .. Len(call.answer) : (call.answer \o s)[i] = call.answer[i]
      /\ \A i \in 1 .. k : (call.answer \o s)[Len(call.answer) + i] = s[i]
  <2>1. Len(call.answer) \in Nat
    BY <1>1, BytesAre
  <2>2. /\ call.answer \o s \in Seq(Byte) /\ Len(call.answer \o s) = Len(call.answer) + Len(s)
        /\ \A i \in 1 .. Len(call.answer) + Len(s) :
             (call.answer \o s)[i] = IF i <= Len(call.answer) THEN call.answer[i]
                                                              ELSE s[i - Len(call.answer)]
    BY <1>1, <1>4, ConcatProperties
  <2> QED BY <1>4, <2>1, <2>2
<1>7. /\ Received(k) \in Calls /\ Received(k).done = call.done + k
      /\ Received(k).answer = call.answer \o s
  <2>1. call \in Calls /\ call.done + k \in Nat
    BY DEF TypeInv, Calls
  <2>2. call.answer \o s \in Seq(Byte)
    BY <1>6
  <2> DEFINE a == call.answer \o s
             d == call.done + k
  <2>3. a \in Seq(Byte) /\ d \in Nat /\ Received(k) = [call EXCEPT !.answer = a, !.done = d]
    BY <1>5, <2>1, <2>2
  <2> HIDE DEF a, d
  <2>4. Received(k) \in Calls /\ Received(k).done = d /\ Received(k).answer = a
    BY <2>1, <2>3 DEF Calls
  <2> QED BY <2>4 DEF a, d
<1> QED BY <1>4, <1>5, <1>6, <1>7

LEMMA WriteLookIs ==
  ASSUME TypeInv, StepInv, WriteLook
  PROVE  /\ Steps("write", "look") /\ UNCHANGED <<file, granted>>
         /\ \/ Ends("failed")
            \/ /\ call' \in Calls /\ call'.op = "write" /\ call'.step = "chunks"
               /\ call'.result = call.result /\ call'.done = call.done
               /\ call'.eof = call.eof /\ call'.constrained = call.constrained
               /\ call'.modified = call.modified /\ call'.accessed = call.accessed
               /\ call'.found = Size
               /\ call'.eof => call'.offset = Size
               /\ call'.constrained /\ call'.length > 0 => call'.offset + call'.length <= Size
<1>1. Steps("write", "look") /\ UNCHANGED <<file, granted>>
  BY DEF WriteLook, Fails, Aside, Steps
<1>2. CASE Fails
  BY <1>1, <1>2 DEF Fails, Return, Ends
<1>3. CASE ~Fails
  <2> DEFINE offset == IF call.eof THEN Size ELSE call.offset
  <2>1. call' = [call EXCEPT !.step = "chunks", !.found = Size, !.offset = offset,
                             !.length = WriteLength(offset)]
    BY <1>3 DEF WriteLook
  <2>2. Size \in Nat /\ offset \in Nat /\ call.length \in Nat
    BY BytesAre DEF TypeInv, Files, Calls, Size
  <2>3. WriteLength(offset) \in Nat
        /\ (call.constrained /\ WriteLength(offset) > 0 => offset + WriteLength(offset) <= Size)
    <3>1. CASE ~call.constrained
      BY <2>2, <3>1 DEF WriteLength
    <3>2. CASE call.constrained
      <4> DEFINE room == Max({Size - offset, 0})
      <4>1. room = IF Size - offset >= 0 THEN Size - offset ELSE 0
        BY <2>2, MaxTwo
      <4> HIDE DEF room
      <4>2. WriteLength(offset) = Min({call.length, room})
        BY <3>2 DEF WriteLength, room
      <4>3. WriteLength(offset) = IF call.length <= room THEN call.length ELSE room
        BY <2>2, <4>1, <4>2, MinTwo
      <4> QED BY <2>2, <4>1, <4>3
    <3> QED BY <3>1, <3>2
  <2> HIDE DEF offset
  <2>4. call' \in Calls /\ call'.offset = offset /\ call'.length = WriteLength(offset)
    BY <2>1, <2>2, <2>3 DEF TypeInv, Calls
  <2>5. call'.eof => offset = Size
    BY <2>1 DEF offset, TypeInv, Calls
  <2> QED BY <1>1, <2>1, <2>3, <2>4, <2>5 DEF Steps, TypeInv, Calls
<1> QED BY <1>2, <1>3

\* The file with k bytes of the buffer written.
LEMMA WrittenIs ==
  ASSUME TypeInv, NEW k \in Nat, k <= NextLength
  PROVE  /\ Written(k) \in Seq(Byte)
         /\ Len(Written(k)) = IF k = 0 \/ Size >= Place + k THEN Size ELSE Place + k
         /\ \A i \in 1 .. Len(Written(k)) :
              Written(k)[i] = IF i \in Place + 1 .. Place + k THEN New(i - call.offset)
                              ELSE IF i <= Size THEN file.bytes[i] ELSE Zero
<1>1. file.bytes \in Seq(Byte) /\ call.offset \in Nat /\ call.done \in Nat
  BY DEF TypeInv, Files, Calls
<1>2. Size \in Nat /\ (\A i \in 1 .. Size : file.bytes[i] \in Byte)
      /\ Place \in Nat /\ Place = call.offset + call.done
  BY <1>1, BytesAre DEF Size, Place
<1> DEFINE n == IF k = 0 THEN Size ELSE Max({Size, Place + k})
           b(i) == IF i \in Place + 1 .. Place + k THEN New(i - call.offset)
                   ELSE IF i <= Size THEN file.bytes[i] ELSE Zero
<1>3. n \in Nat /\ n = IF k = 0 \/ Size >= Place + k THEN Size ELSE Place + k
  BY <1>2, MaxTwo
<1>4. Written(k) = [i \in 1 .. n |-> b(i)]
  BY DEF Written
<1> HIDE DEF n
<1>5. \A i \in 1 .. n : b(i) \in Byte
  <2> SUFFICES ASSUME NEW i \in 1 .. n PROVE b(i) \in Byte
    OBVIOUS
  <2>1. CASE i \in Place + 1 .. Place + k
    <3>1. i - call.offset \in Nat
      BY <1>1, <1>2, <2>1
    <3> QED BY <2>1, <3>1, MarksAre
  <2>2. CASE i \notin Place + 1 .. Place + k
    BY <1>2, <1>3, <2>2, MarksAre
  <2> QED BY <2>1, <2>2
<1>6. [i \in 1 .. n |-> b(i)] \in [1 .. n -> Byte]
  BY <1>5
<1>7. Written(k) \in Seq(Byte) /\ Len(Written(k)) = n
  BY <1>3, <1>4, <1>6, SequenceOf
<1> QED BY <1>3, <1>4, <1>7

LEMMA WriteChunkIs ==
  ASSUME TypeInv, StepInv, WriteChunk
  PROVE  /\ Steps("write", "chunks") /\ UNCHANGED granted
         /\ call.done < call.length
         /\ \E k \in 0 .. call.length - call.done :
              /\ k <= NextLength
              /\ file' = [file EXCEPT !.bytes = Written(k)]
              /\ file' \in Files /\ file'.bytes = Written(k)
              /\ UNCHANGED <<file.kind, file.mode, file.modified, file.accessed>>
              /\ \/ call' = Returned(call, "failed")
                 \/ call' = [call EXCEPT !.done = @ + k] /\ call' \in Calls
<1>1. Steps("write", "chunks") /\ UNCHANGED granted /\ call.done < call.length
  BY DEF WriteChunk, Aside, Steps
<1>2. NextLength \in 1 .. call.length - call.done /\ call.length \in Nat /\ call.done \in Nat
  BY <1>1, NextLengthIs DEF TypeInv, Calls
<1>3. PICK k \in 0 .. NextLength :
        /\ file' = [file EXCEPT !.bytes = Written(k)]
        /\ \/ call' = Returned(call, "failed")
           \/ call' = [call EXCEPT !.done = @ + k]
  BY <1>2 DEF WriteChunk, Return
<1>4. k \in 0 .. call.length - call.done /\ k \in Nat /\ k <= NextLength
  BY <1>2
<1>5. Written(k) \in Seq(Byte)
  BY <1>4, WrittenIs
<1>6. /\ file' \in Files /\ file'.bytes = Written(k)
      /\ UNCHANGED <<file.kind, file.mode, file.modified, file.accessed>>
  BY <1>3, <1>5 DEF TypeInv, Files
<1>7. call' = [call EXCEPT !.done = @ + k] => call' \in Calls
  <2> DEFINE d == call.done + k
  <2>1. d \in Nat /\ call \in Calls
    BY <1>2, <1>4 DEF TypeInv
  <2> HIDE DEF d
  <2>2. call' = [call EXCEPT !.done = d] => call' \in Calls
    BY <2>1 DEF Calls
  <2> QED BY <2>2 DEF d
<1> QED BY <1>1, <1>3, <1>4, <1>6, <1>7

LEMMA WriteEndIs ==
  ASSUME WriteEnd
  PROVE  /\ Steps("write", "chunks") /\ UNCHANGED granted /\ call.done = call.length
         /\ Ends("ok") \/ Ends("failed")
BY DEF WriteEnd, Return, Aside, Steps, Ends

\* A metadata callback looks: it fails, refuses, or knows what it will ask for.
LEMMA LooksAre ==
  ASSUME TypeInv, StepInv, Look \/ LookOverwrite
  PROVE  /\ call.op \in LookingOps /\ Steps(call.op, "look") /\ UNCHANGED <<file, granted>>
         /\ \/ Ends("failed")
            \/ Ends("refused")
            \/ /\ ~Refused /\ Asked \in Requests
               /\ call' \in Calls
               /\ call' = [call EXCEPT !.request = Asked, !.step = call'.step]
               /\ call'.request = Asked
               /\ call'.step = IF Asked = NoChange THEN "fill" ELSE "set"
<1>1. /\ call.op \in LookingOps /\ Steps(call.op, "look") /\ UNCHANGED <<file, granted>>
      /\ call' = Validated \/ call' = Returned(call, "failed")
  BY DEF Look, LookOverwrite, Return, Aside, Steps, LookingOps
<1>2. CASE call' = Validated /\ ~Refused /\ ~(Asked # NoChange /\ ~writable)
  <2>1. call' = [call EXCEPT !.request = Asked,
                             !.step = IF Asked = NoChange THEN "fill" ELSE "set"]
    BY <1>2 DEF Validated
  <2>2. Asked \in Requests
    <3>1. Permissions(file, Requested) \in Modes
      BY <1>2, PermissionsTyped DEF Refused, TypeInv
    <3>2. call.modified \in Shown /\ call.accessed \in Shown
      BY <1>1 DEF StepInv, Steps
    <3>3. UnixSeconds(call.modified) \in Option(Nat) /\ UnixSeconds(call.accessed) \in Option(Nat)
      BY <3>2, UnixIs
    <3> QED BY <3>1, <3>3 DEF Asked, Requests, Option
  <2>3. /\ call' \in Calls /\ call'.request = Asked
        /\ call'.step = IF Asked = NoChange THEN "fill" ELSE "set"
    BY <2>1, <2>2 DEF TypeInv, Calls
  <2> QED BY <1>1, <1>2, <2>1, <2>2, <2>3
<1>3. CASE call' = Validated /\ (Refused \/ (Asked # NoChange /\ ~writable))
  BY <1>1, <1>3 DEF Validated, Ends
<1>4. CASE call' = Returned(call, "failed")
  BY <1>1, <1>4 DEF Ends
<1> QED BY <1>1, <1>2, <1>3, <1>4

LEMMA LookSizeIs ==
  ASSUME TypeInv, LookSize
  PROVE  /\ Steps("resize", "look") /\ UNCHANGED <<file, granted>>
         /\ \/ Ends("failed")
            \/ /\ call' = [call EXCEPT !.step = call'.step] /\ call' \in Calls
               /\ call'.step = IF call.size < Size THEN "set" ELSE "fill"
<1>1. Steps("resize", "look") /\ UNCHANGED <<file, granted>>
  BY DEF LookSize, Fails, Aside, Steps
<1>2. CASE Fails
  BY <1>1, <1>2 DEF Fails, Return, Ends
<1>3. CASE call' = [call EXCEPT !.step = IF call.size < Size THEN "set" ELSE "fill"]
  BY <1>1, <1>3 DEF TypeInv, Calls
<1> QED BY <1>1, <1>2, <1>3 DEF LookSize

\* The request that changes the metadata succeeds, or fails after a part of it.
LEMMA SetIs ==
  ASSUME TypeInv, Set
  PROVE  /\ call.step = "set" /\ Steps(call.op, "set")
         /\ granted' = IF call.op = "setattr" THEN file'.mode ELSE granted
         /\ \/ /\ file' = Applied(call.request)
               /\ call' = [call EXCEPT !.step = "fill"] /\ call' \in Calls
            \/ \E part \in Parts(call.request) :
                 file' = Applied(part) /\ call' = Returned(call, "failed")
         /\ \E r \in Requests :
              /\ file' = Applied(r)
              /\ r.size \in {{}, call.request.size} /\ r.mode \in {{}, call.request.mode}
              /\ r.modified \in {{}, call.request.modified}
<1>1. call.request \in Requests
  BY DEF TypeInv, Calls
<1>2. /\ call.step = "set" /\ Steps(call.op, "set")
      /\ granted' = IF call.op = "setattr" THEN file'.mode ELSE granted
      /\ \/ file' = Applied(call.request) /\ call' = [call EXCEPT !.step = "fill"]
         \/ \E part \in Parts(call.request) :
              file' = Applied(part) /\ call' = Returned(call, "failed")
  BY DEF Set, Return, Steps
<1>3. call' = [call EXCEPT !.step = "fill"] => call' \in Calls
  BY DEF TypeInv, Calls
<1>4. CASE file' = Applied(call.request) /\ call' = [call EXCEPT !.step = "fill"]
  BY <1>1, <1>2, <1>3, <1>4
<1>5. CASE \E part \in Parts(call.request) :
             file' = Applied(part) /\ call' = Returned(call, "failed")
  BY <1>1, <1>2, <1>5, PartsAre
<1> QED BY <1>2, <1>4, <1>5

LEMMA FillIs ==
  ASSUME Fill
  PROVE  /\ call.step = "fill" /\ Steps(call.op, "fill") /\ UNCHANGED granted
         /\ Ends("ok") \/ Ends("failed")
BY DEF Fill, Return, Aside, Steps, Ends

LEMMA ReplyIs ==
  ASSUME TypeInv, Reply
  PROVE  /\ call.step = "returned" /\ call' = NoCall
         /\ file' = Marked(file) /\ start' = file' /\ file' \in Files
         /\ file'.mode = file.mode /\ UNCHANGED <<mount, focus, writable, granted>>
         /\ \A i \in DOMAIN file'.bytes : file'.bytes[i] = Old(i)
BY MarkedIs DEF Reply, TypeInv

LEMMA AppendIs ==
  ASSUME TypeInv, OthersAppend
  PROVE  /\ focus = "contents" /\ call.step \notin {"idle", "returned"}
         /\ UNCHANGED <<call, mount, focus, writable, start, granted>>
         /\ file' \in Files /\ UNCHANGED <<file.kind, file.mode, file.modified, file.accessed>>
         /\ Size' = Size + 1 /\ file'.bytes[Size + 1] = Other
         /\ \A i \in 1 .. Size : file'.bytes[i] = file.bytes[i]
<1>1. file.bytes \in Seq(Byte) /\ Other \in Byte
  BY MarksAre DEF TypeInv, Files
<1>2. file' = [file EXCEPT !.bytes = Append(file.bytes, Other)]
  BY DEF OthersAppend
<1> DEFINE b == Append(file.bytes, Other)
<1>3. /\ b \in Seq(Byte) /\ Len(b) = Len(file.bytes) + 1 /\ b[Len(file.bytes) + 1] = Other
      /\ \A i \in 1 .. Len(file.bytes) : b[i] = file.bytes[i]
  BY <1>1, AppendProperties
<1> HIDE DEF b
<1>4. /\ file' \in Files /\ UNCHANGED <<file.kind, file.mode, file.modified, file.accessed>>
      /\ file'.bytes = b
  BY <1>2, <1>3 DEF TypeInv, Files, b
<1> QED BY <1>3, <1>4 DEF OthersAppend, Aside, Size

\* Any callback but create that begins.
Starting ==
  /\ call.step = "idle" /\ UNCHANGED <<file, start, granted>>
  /\ call'.op \in ContentOps \cup MetaOps /\ Begun(call'.op)
  /\ call'.result # "refused" => call'.modified \in Shown /\ call'.accessed \in Shown
  /\ IF call'.op \in ContentOps THEN focus = "contents" ELSE focus = "metadata"
  /\ call'.op = "read" => call'.step = "chunks" /\ call'.answer = <<>>
  /\ call'.op = "write" =>
       /\ call'.step \in {"look", "chunks"}
       /\ call'.step = "chunks" => ~call'.eof /\ ~call'.constrained
  /\ call'.op = "resize" =>
       /\ call'.step \in {"look", "set"} /\ (call'.step = "set" => ~call'.allocation)
       /\ call'.request = [NoChange EXCEPT !.size = {call'.size}]
  /\ call'.op \in LookingOps => call'.step \in {"look", "returned"}
  /\ call'.op = "overwrite" => file.kind = "file"
  /\ call'.op = "setattr" => call'.step \in {"set", "returned"}
  /\ call'.op # "create"

Creating ==
  /\ focus = "metadata" /\ Begun("create") /\ call'.step = "look"
  /\ call'.modified \in Shown /\ call'.accessed \in Shown
  /\ file' \in Files /\ file'.kind = "file"
  /\ start' = file' /\ granted' = file'.mode /\ granted' \in Modes

LEMMA NextCases ==
  ASSUME TypeInv, StepInv, Next
  PROVE  \/ Starting \/ Creating
         \/ ReadChunk \/ WriteLook \/ WriteChunk \/ WriteEnd
         \/ Look \/ LookOverwrite \/ LookSize \/ Set \/ Fill
         \/ Reply \/ OthersAppend
<1>1. 0 .. MaxSize \subseteq Nat /\ 1 .. MaxBuffer \subseteq Nat /\ Times \subseteq Nat
      /\ Attempts \subseteq SUBSET Flags /\ 0 \in Shown /\ {0, Epoch} \subseteq Nat
  BY AccessAssumption, TimeAssumption DEF Shown
<1>2. mount \in {"windows", "fuse"}
  BY DEF TypeInv
<1> USE DEF ContentOps, MetaOps, LookingOps
<1>3. ASSUME NEW offset \in 0 .. MaxSize, NEW length \in 1 .. MaxBuffer, Read(offset, length)
      PROVE  Starting
  <2>1. offset \in Nat /\ length \in Nat
    BY <1>1
  <2> QED BY <1>1, <1>3, <2>1, ReadBegins DEF Starting, Begun
<1>4. ASSUME NEW offset \in 0 .. MaxSize, NEW length \in 1 .. MaxBuffer,
             NEW eof \in BOOLEAN, NEW constrained \in BOOLEAN,
             Write(offset, length, eof, constrained)
      PROVE  Starting
  <2>1. offset \in Nat /\ length \in Nat
    BY <1>1
  <2> QED BY <1>1, <1>2, <1>4, <2>1, WriteBegins DEF Starting, Begun
<1>5. ASSUME NEW size \in 0 .. MaxSize, NEW allocation \in BOOLEAN, SetSize(size, allocation)
      PROVE  Starting
  <2>1. size \in Nat
    BY <1>1
  <2> QED BY <1>1, <1>5, <2>1, SizeBegins DEF Starting, Begun
<1>6. ASSUME NEW attributes \in Attempts, NEW replace \in BOOLEAN, Overwrite(attributes, replace)
      PROVE  Starting
  <2>1. attributes \in SUBSET Flags
    BY <1>1
  <2> QED BY <1>1, <1>6, <2>1, OverwriteBegins DEF Starting, Begun
<1>7. ASSUME NEW attributes \in Attempts, NEW mode \in {{}, {{}}, {ModeBits \ Special}},
             Create(attributes, mode)
      PROVE  Creating
  <2>1. attributes \in SUBSET Flags /\ mode \in Modes
    BY <1>1 DEF Modes, Option
  <2> QED BY <1>1, <1>7, <2>1, CreateBegins DEF Creating
<1>8. ASSUME NEW attributes \in Attempts, NEW created \in {0, Epoch}, NEW changed \in {0, Epoch},
             NEW accessed \in {0, Epoch}, NEW modified \in Times,
             SetBasicInfo(attributes, created, accessed, modified, changed)
      PROVE  Starting
  <2>1. /\ attributes \in SUBSET Flags
        /\ created \in Nat /\ changed \in Nat /\ accessed \in Nat /\ modified \in Nat
    BY <1>1
  <2>2. /\ call.step = "idle" /\ focus = "metadata" /\ Begun("basic")
        /\ call'.step \in {"look", "returned"}
        /\ call'.step = "look" => call'.modified \in Shown /\ call'.accessed \in Shown
        /\ UNCHANGED <<file, start, granted>>
    BY <1>8, <2>1, BasicBegins
  <2> QED BY <2>2 DEF Starting, Begun
<1>9. ASSUME NEW owned \in BOOLEAN, NEW mode \in {{}, {{}}, {ModeBits}}, NEW modified \in {{}, {1}},
             SetAttr(owned, mode, modified)
      PROVE  Starting
  <2>1. mode \in Modes /\ modified \in Option(Nat)
    BY DEF Modes, Option
  <2> QED BY <1>1, <1>9, <2>1, SetAttrBegins DEF Starting, Begun
<1>10. CASE \E offset \in 0 .. MaxSize, length \in 1 .. MaxBuffer :
              \/ Read(offset, length)
              \/ \E eof, constrained \in BOOLEAN : Write(offset, length, eof, constrained)
  BY <1>3, <1>4, <1>10
<1>11. CASE \E size \in 0 .. MaxSize, allocation \in BOOLEAN : SetSize(size, allocation)
  BY <1>5, <1>11
<1>12. CASE \E attributes \in Attempts :
              \/ \E replace \in BOOLEAN : Overwrite(attributes, replace)
              \/ \E mode \in {{}, {{}}, {ModeBits \ Special}} : Create(attributes, mode)
              \/ \E created, changed \in {0, Epoch}, accessed \in {0, Epoch}, modified \in Times :
                   SetBasicInfo(attributes, created, accessed, modified, changed)
  BY <1>6, <1>7, <1>8, <1>12
<1>13. CASE \E owned \in BOOLEAN, mode \in {{}, {{}}, {ModeBits}}, modified \in {{}, {1}} :
              SetAttr(owned, mode, modified)
  BY <1>9, <1>13
<1> QED BY <1>10, <1>11, <1>12, <1>13 DEF Next

(***************************************************************************)
(* The invariant holds at first and is kept.                               *)
(***************************************************************************)
LEMMA InitFile ==
  ASSUME Init
  PROVE  /\ file \in Files /\ \A i \in DOMAIN file.bytes : file.bytes[i] = Old(i)
         /\ file.mode \in Modes
<1>1. PICK n \in 0 .. MaxSize : file.bytes = [i \in 1 .. n |-> Old(i)]
  BY DEF Init
<1>2. n \in Nat
  BY AccessAssumption
<1>3. [i \in 1 .. n |-> Old(i)] \in [1 .. n -> Byte]
  BY <1>2, MarksAre
<1>4. file.bytes \in Seq(Byte)
  BY <1>1, <1>2, <1>3, SequenceOf
<1>5. {{}, {0}, {MaxTime}} \subseteq Option(Nat)
  BY TimeAssumption DEF Option
<1>6. /\ file = [kind |-> file.kind, bytes |-> file.bytes, mode |-> file.mode,
                 modified |-> file.modified, accessed |-> file.accessed]
      /\ file.kind \in {"file", "directory"}
      /\ file.mode \in Modes
      /\ file.modified \in {{}, {0}, {MaxTime}} /\ file.accessed \in {{}, {0}}
  BY DEF Init, Modes, Option
<1>7. file \in Files
  BY <1>4, <1>5, <1>6 DEF Files
<1> QED BY <1>1, <1>3, <1>6, <1>7

LEMMA InitInv == Init => IInv
<1> SUFFICES ASSUME Init PROVE IInv
  OBVIOUS
<1>1. /\ file \in Files /\ \A i \in DOMAIN file.bytes : file.bytes[i] = Old(i)
      /\ file.mode \in Modes
  BY InitFile
<1>2. call = NoCall /\ start = file /\ granted = file.mode
  BY DEF Init
<1>3. /\ call.op = "none" /\ call.step = "idle" /\ call.result = "pending"
      /\ call.done = 0 /\ call.length = 0 /\ call.modified = 0 /\ call.accessed = 0
  BY <1>2 DEF NoCall
<1>4. TypeInv
  BY <1>1, <1>2, NoCallTyped DEF TypeInv, Init
<1>5. StepInv
  BY <1>3 DEF StepInv, ContentOps, MetaOps, LookingOps, Shown
<1>6. QuietInv
  BY <1>1, <1>2 DEF QuietInv
<1>7. ReadInv /\ WriteInv /\ SizeInv /\ ShownInv /\ ModifiedInv
  BY <1>3 DEF ReadInv, WriteInv, SizeInv, ShownInv, ModifiedInv, LookingOps
<1>8. ModeInv
  BY <1>2, <1>3 DEF ModeInv, Tame
<1> QED BY <1>4, <1>5, <1>6, <1>7, <1>8 DEF IInv

LEMMA TypeStep ==
  ASSUME TypeInv, StepInv, Next
  PROVE  TypeInv'
<1> USE DEF Fixed
<1>1. CASE Starting
  BY <1>1 DEF Starting, Begun, TypeInv
<1>2. CASE Creating
  BY <1>2 DEF Creating, Begun, TypeInv
<1>3. CASE ReadChunk
  <2>1. call' \in Calls
    <3>1. CASE call' \in {Returned(call, "ok"), Returned(call, "failed")}
      BY <3>1, ReturnedIs DEF TypeInv
    <3>2. ASSUME NEW k \in 1 .. call.length - call.done, Place + k <= Size, call' = Received(k)
          PROVE  call' \in Calls
      <4>1. k \in Nat
        BY DEF TypeInv, Calls
      <4> QED BY <3>2, <4>1, ReceivedIs
    <3> QED BY <1>3, <3>1, <3>2, ReadChunkIs DEF Ends
  <2> QED BY <1>3, <2>1, ReadChunkIs DEF Steps, TypeInv
<1>4. CASE WriteLook
  <2>1. call' \in Calls
    BY <1>4, WriteLookIs, ReturnedIs DEF Ends, TypeInv
  <2> QED BY <1>4, <2>1, WriteLookIs DEF Steps, TypeInv
<1>5. CASE WriteChunk
  <2>1. call' \in Calls /\ file' \in Files
    BY <1>5, WriteChunkIs, ReturnedIs DEF TypeInv
  <2> QED BY <1>5, <2>1, WriteChunkIs DEF Steps, TypeInv
<1>6. CASE WriteEnd
  <2>1. call' \in Calls
    BY <1>6, WriteEndIs, ReturnedIs DEF Ends, TypeInv
  <2> QED BY <1>6, <2>1, WriteEndIs DEF Steps, Ends, TypeInv
<1>7. CASE Look \/ LookOverwrite
  <2>1. call' \in Calls
    BY <1>7, LooksAre, ReturnedIs DEF Ends, TypeInv
  <2> QED BY <1>7, <2>1, LooksAre DEF Steps, TypeInv
<1>8. CASE LookSize
  <2>1. call' \in Calls
    BY <1>8, LookSizeIs, ReturnedIs DEF Ends, TypeInv
  <2> QED BY <1>8, <2>1, LookSizeIs DEF Steps, TypeInv
<1>9. CASE Set
  <2>1. call' \in Calls
    BY <1>9, SetIs, ReturnedIs DEF TypeInv
  <2>2. file' \in Files
    BY <1>9, SetIs, AppliedIs DEF TypeInv
  <2>3. file'.mode \in Modes
    BY <2>2 DEF Files
  <2> QED BY <1>9, <2>1, <2>2, <2>3, SetIs DEF Steps, TypeInv
<1>10. CASE Fill
  <2>1. call' \in Calls
    BY <1>10, FillIs, ReturnedIs DEF Ends, TypeInv
  <2> QED BY <1>10, <2>1, FillIs DEF Steps, Ends, TypeInv
<1>11. CASE Reply
  BY <1>11, ReplyIs, NoCallTyped DEF TypeInv
<1>12. CASE OthersAppend
  BY <1>12, AppendIs DEF TypeInv
<1> QED BY <1>1, <1>2, <1>3, <1>4, <1>5, <1>6, <1>7, <1>8, <1>9, <1>10, <1>11, <1>12, NextCases

\* The ways in which a step leaves the call: it returns, it goes on, or it is
\* answered.
LEMMA StepStep ==
  ASSUME TypeInv, StepInv, Next
  PROVE  StepInv'
<1> USE DEF Fixed, ContentOps, MetaOps, LookingOps
<1>0. call \in Calls /\ call.done \in Nat /\ call.length \in Nat
  BY DEF TypeInv, Calls
<1>1. CASE Starting
  <2>1. call'.length \in Nat
    BY <1>1 DEF Starting, Begun, Calls
  <2> QED BY <1>1, <2>1 DEF Starting, Begun, StepInv
<1>2. CASE Creating
  <2>1. call'.length \in Nat
    BY <1>2 DEF Creating, Begun, Calls
  <2> QED BY <1>2, <2>1 DEF Creating, Begun, StepInv
\* A callback that returns.
<1>3. ASSUME call.step \notin {"idle", "returned"}, NEW r \in {"ok", "failed", "refused"},
             call' = Returned(call, r), UNCHANGED <<file.kind, focus>>
      PROVE  StepInv'
  BY <1>0, <1>3, ReturnedIs DEF StepInv
<1>4. CASE ReadChunk
  <2>1. ASSUME NEW k \in 1 .. call.length - call.done, Place + k <= Size, call' = Received(k)
        PROVE  StepInv'
    <3>1. k \in Nat /\ call.done + k <= call.length
      BY <1>0
    <3>2. /\ call' = [call EXCEPT !.answer = call'.answer, !.done = call.done + k]
          /\ call'.done = call.done + k
      BY <2>1, <3>1, ReceivedIs
    <3>3. /\ call'.op = call.op /\ call'.step = call.step /\ call'.result = call.result
          /\ call'.length = call.length
          /\ call'.modified = call.modified /\ call'.accessed = call.accessed
      BY <1>0, <3>2 DEF Calls
    <3> QED BY <1>4, <3>1, <3>2, <3>3, ReadChunkIs DEF StepInv, Steps
  <2> QED BY <1>3, <1>4, <2>1, ReadChunkIs DEF Steps, Ends
<1>5. CASE WriteLook
  <2>1. CASE Ends("failed")
    BY <1>3, <1>5, <2>1, WriteLookIs DEF Steps, Ends
  <2>2. CASE ~Ends("failed")
    <3>1. call.step = "look" /\ call.done = 0 /\ call'.done <= call'.length
      BY <1>5, <2>2, WriteLookIs DEF Calls, Steps, StepInv
    <3> QED BY <1>5, <2>2, <3>1, WriteLookIs DEF StepInv, Steps
  <2> QED BY <2>1, <2>2
<1>6. CASE WriteChunk
  <2>1. PICK k \in 0 .. call.length - call.done :
              call' \in {Returned(call, "failed"), [call EXCEPT !.done = @ + k]}
    BY <1>6, WriteChunkIs
  <2>2. call.op = "write" /\ call.step = "chunks" /\ UNCHANGED <<file.kind, focus>>
    BY <1>6, WriteChunkIs DEF Steps
  <2>3. CASE call' = [call EXCEPT !.done = @ + k]
    <3>1. /\ call'.op = call.op /\ call'.step = call.step /\ call'.result = call.result
          /\ call'.length = call.length /\ call'.done = call.done + k
          /\ call'.modified = call.modified /\ call'.accessed = call.accessed
      BY <1>0, <2>3 DEF Calls
    <3> QED BY <1>0, <2>2, <3>1 DEF StepInv
  <2> QED BY <1>3, <2>1, <2>2, <2>3
<1>7. CASE WriteEnd
  BY <1>3, <1>7, WriteEndIs DEF Steps, Ends
<1>8. CASE Look \/ LookOverwrite
  <2>1. CASE Ends("failed") \/ Ends("refused")
    BY <1>3, <1>8, <2>1, LooksAre DEF Steps, Ends
  <2>2. CASE call' = [call EXCEPT !.request = Asked, !.step = call'.step]
             /\ call'.step \in {"set", "fill"}
    <3>1. /\ call'.op = call.op /\ call'.result = call.result /\ call'.length = call.length
          /\ call'.done = call.done
          /\ call'.modified = call.modified /\ call'.accessed = call.accessed
      BY <1>0, <2>2 DEF Calls
    <3> QED BY <1>0, <1>8, <2>2, <3>1, LooksAre DEF StepInv, Steps
  <2> QED BY <1>8, <2>1, <2>2, LooksAre
<1>9. CASE LookSize
  <2>1. CASE Ends("failed")
    BY <1>3, <1>9, <2>1, LookSizeIs DEF Steps, Ends
  <2>2. CASE call' = [call EXCEPT !.step = call'.step] /\ call'.step \in {"set", "fill"}
    <3>1. /\ call'.op = call.op /\ call'.result = call.result /\ call'.length = call.length
          /\ call'.done = call.done
          /\ call'.modified = call.modified /\ call'.accessed = call.accessed
      BY <1>0, <2>2 DEF Calls
    <3> QED BY <1>0, <1>9, <2>2, <3>1, LookSizeIs DEF StepInv, Steps
  <2> QED BY <1>9, <2>1, <2>2, LookSizeIs
<1>10. CASE Set
  <2>1. file'.kind = file.kind
    BY <1>10, SetIs, AppliedIs DEF TypeInv
  <2>2. CASE call' = Returned(call, "failed")
    BY <1>3, <1>10, <2>1, <2>2, SetIs DEF Steps
  <2>3. CASE call' = [call EXCEPT !.step = "fill"]
    <3>1. /\ call'.op = call.op /\ call'.result = call.result /\ call'.length = call.length
          /\ call'.done = call.done /\ call'.step = "fill"
          /\ call'.modified = call.modified /\ call'.accessed = call.accessed
      BY <1>0, <2>3 DEF Calls
    <3> QED BY <1>0, <1>10, <2>1, <3>1, SetIs DEF StepInv, Steps
  <2> QED BY <1>10, <2>2, <2>3, SetIs
<1>11. CASE Fill
  BY <1>3, <1>11, FillIs DEF Steps, Ends
<1>12. CASE Reply
  <2>1. /\ call'.op = "none" /\ call'.step = "idle" /\ call'.result = "pending"
        /\ call'.done = 0 /\ call'.length = 0 /\ call'.modified = 0 /\ call'.accessed = 0
    BY <1>12, ReplyIs DEF NoCall
  <2> QED BY <2>1 DEF StepInv, Shown
<1>13. CASE OthersAppend
  BY <1>13, AppendIs DEF StepInv
<1> QED BY <1>1, <1>2, <1>4, <1>5, <1>6, <1>7, <1>8, <1>9, <1>10, <1>11, <1>12, <1>13, NextCases

LEMMA QuietStep ==
  ASSUME TypeInv, StepInv, QuietInv, Next
  PROVE  QuietInv'
<1> USE DEF ContentOps, MetaOps, LookingOps
<1>0. call \in Calls
  BY DEF TypeInv
\* A step that leaves the file alone and begins nothing.
<1>1. ASSUME UNCHANGED <<file, start, focus>>, call.step # "idle", call'.step # "idle",
             \/ focus = "metadata" /\ call.step = "look"
             \/ call'.step \in {"chunks", "fill", "returned"} /\ call'.result # "refused"
             \/ focus = "contents" /\ call'.result # "refused"
      PROVE  QuietInv'
  BY <1>1 DEF QuietInv
<1>2. CASE Starting
  <2>1. call.step = "idle" /\ UNCHANGED <<file, start>> /\ call'.op # "none"
    BY <1>2 DEF Starting
  <2>2. call'.step # "idle"
    BY <1>2 DEF Starting, Begun
  <2> QED BY <2>1, <2>2 DEF QuietInv
<1>3. CASE Creating
  BY <1>3 DEF Creating, QuietInv
<1>4. CASE ReadChunk
  <2>1. call'.step # "idle" /\ call'.result # "refused"
    <3>1. CASE call' \in {Returned(call, "ok"), Returned(call, "failed")}
      BY <1>0, <3>1, ReturnedIs
    <3>2. ASSUME NEW k \in 1 .. call.length - call.done, Place + k <= Size, call' = Received(k)
          PROVE  call'.step # "idle" /\ call'.result # "refused"
      <4>1. k \in Nat
        BY DEF TypeInv, Calls
      <4>2. call' = [call EXCEPT !.answer = call'.answer, !.done = call.done + k]
        BY <3>2, <4>1, ReceivedIs
      <4>3. call'.step = call.step /\ call'.result = call.result
        BY <1>0, <4>2 DEF Calls
      <4> QED BY <1>4, <4>3, ReadChunkIs DEF Steps, StepInv
    <3> QED BY <1>4, <3>1, <3>2, ReadChunkIs DEF Ends
  <2> QED BY <1>1, <1>4, <2>1, ReadChunkIs DEF Steps, StepInv
<1>5. CASE WriteLook
  <2>1. call'.step # "idle" /\ call'.result # "refused"
    BY <1>0, <1>5, WriteLookIs, ReturnedIs DEF Ends, Steps, StepInv
  <2> QED BY <1>1, <1>5, <2>1, WriteLookIs DEF Steps, StepInv
<1>6. CASE WriteChunk
  <2>1. call.op = "write" /\ focus = "contents" /\ UNCHANGED <<focus, start>>
        /\ call.step = "chunks" /\ call.result = "pending"
    BY <1>6, WriteChunkIs DEF Steps, StepInv
  <2>2. PICK k \in 0 .. call.length - call.done :
              call' \in {Returned(call, "failed"), [call EXCEPT !.done = @ + k]}
    BY <1>6, WriteChunkIs
  <2>3. call'.step # "idle" /\ call'.result # "refused"
    BY <1>0, <2>1, <2>2, ReturnedIs DEF Calls
  <2> QED BY <2>1, <2>3 DEF QuietInv
<1>7. CASE WriteEnd
  <2>1. call'.step = "returned" /\ call'.result # "refused"
    BY <1>0, <1>7, WriteEndIs, ReturnedIs DEF Ends
  <2> QED BY <1>1, <1>7, <2>1, WriteEndIs DEF Steps, Ends
<1>8. CASE Look \/ LookOverwrite
  <2>1. call'.step # "idle"
    BY <1>0, <1>8, LooksAre, ReturnedIs DEF Ends
  <2> QED BY <1>1, <1>8, <2>1, LooksAre DEF Steps, StepInv
<1>9. CASE LookSize
  <2>1. call.step = "look" /\ call.op = "resize" /\ focus = "contents" /\ call.result = "pending"
    BY <1>9, LookSizeIs DEF Steps, StepInv
  <2>2. CASE Ends("failed")
    BY <1>0, <1>1, <1>9, <2>1, <2>2, LookSizeIs, ReturnedIs DEF Ends, Steps
  <2>3. CASE call' = [call EXCEPT !.step = call'.step] /\ call'.step \in {"set", "fill"}
    <3>1. call'.result = "pending"
      BY <1>0, <2>1, <2>3 DEF Calls
    <3> QED BY <1>1, <1>9, <2>1, <2>3, <3>1, LookSizeIs DEF Steps
  <2> QED BY <1>9, <2>2, <2>3, LookSizeIs
<1>10. CASE Set
  <2>1. call'.step \in {"fill", "returned"} /\ call'.result # "refused"
    <3>1. CASE call' = [call EXCEPT !.step = "fill"]
      BY <1>0, <1>10, <3>1, SetIs DEF Calls, StepInv
    <3>2. CASE call' = Returned(call, "failed")
      BY <1>0, <3>2, ReturnedIs
    <3> QED BY <1>10, <3>1, <3>2, SetIs
  <2> QED BY <2>1 DEF QuietInv
<1>11. CASE Fill
  <2>1. call'.step = "returned" /\ call'.result # "refused"
    BY <1>0, <1>11, FillIs, ReturnedIs DEF Ends
  <2> QED BY <2>1 DEF QuietInv
<1>12. CASE Reply
  BY <1>12, ReplyIs DEF QuietInv
<1>13. CASE OthersAppend
  <2>1. focus = "contents" /\ UNCHANGED <<call, focus>> /\ call.step \notin {"idle", "returned"}
    BY <1>13, AppendIs
  <2> QED BY <2>1 DEF QuietInv, StepInv
<1> QED BY <1>2, <1>3, <1>4, <1>5, <1>6, <1>7, <1>8, <1>9, <1>10, <1>11, <1>12, <1>13, NextCases

\* The callback stays the same until it is answered.
LEMMA SameOp ==
  ASSUME TypeInv, StepInv, Next, ~Starting, ~Creating, ~Reply
  PROVE  call'.op = call.op /\ call.op # "none" /\ call.step # "idle"
         /\ UNCHANGED <<mount, focus, start>>
<1>0. call \in Calls
  BY DEF TypeInv
<1>1. call'.op = call.op
  <2>1. ASSUME NEW r \in {"ok", "failed", "refused"}, call' = Returned(call, r)
        PROVE  call'.op = call.op
    BY <1>0, <2>1, ReturnedIs
  <2>2. CASE ReadChunk
    <3>1. ASSUME NEW k \in 1 .. call.length - call.done, Place + k <= Size, call' = Received(k)
          PROVE  call'.op = call.op
      <4>1. k \in Nat
        BY DEF TypeInv, Calls
      <4>2. call' = [call EXCEPT !.answer = call'.answer, !.done = call.done + k]
        BY <3>1, <4>1, ReceivedIs
      <4> QED BY <1>0, <4>2 DEF Calls
    <3> QED BY <2>1, <2>2, <3>1, ReadChunkIs DEF Ends
  <2>3. CASE WriteLook
    BY <2>1, <2>3, WriteLookIs DEF Ends, Steps
  <2>4. CASE WriteChunk
    <3>1. PICK k \in 0 .. call.length - call.done :
              call' \in {Returned(call, "failed"), [call EXCEPT !.done = @ + k]}
      BY <2>4, WriteChunkIs
    <3> QED BY <1>0, <2>1, <3>1 DEF Calls
  <2>5. CASE WriteEnd \/ Fill
    BY <2>1, <2>5, WriteEndIs, FillIs DEF Ends
  <2>6. CASE Look \/ LookOverwrite
    <3>1. CASE call' = [call EXCEPT !.request = Asked, !.step = call'.step]
      BY <1>0, <3>1 DEF Calls
    <3> QED BY <2>1, <2>6, <3>1, LooksAre DEF Ends
  <2>7. CASE LookSize
    <3>1. CASE call' = [call EXCEPT !.step = call'.step]
      BY <1>0, <3>1 DEF Calls
    <3> QED BY <2>1, <2>7, <3>1, LookSizeIs DEF Ends
  <2>8. CASE Set
    <3>1. CASE call' = [call EXCEPT !.step = "fill"]
      BY <1>0, <3>1 DEF Calls
    <3> QED BY <2>1, <2>8, <3>1, SetIs
  <2>9. CASE OthersAppend
    BY <2>9, AppendIs
  <2> QED BY <2>2, <2>3, <2>4, <2>5, <2>6, <2>7, <2>8, <2>9, NextCases
<1>2. call.step # "idle" /\ UNCHANGED <<mount, focus, start>>
  BY NextCases, ReadChunkIs, WriteLookIs, WriteChunkIs, WriteEndIs, LooksAre, LookSizeIs,
     SetIs, FillIs, AppendIs DEF Steps
<1> QED BY <1>1, <1>2 DEF StepInv

LEMMA ReadStep ==
  ASSUME TypeInv, StepInv, QuietInv, ReadInv, Next
  PROVE  ReadInv'
<1> SUFFICES ASSUME call'.op = "read" PROVE ReadInv'
  BY DEF ReadInv
<1>0. /\ call \in Calls /\ call.done \in Nat /\ call.length \in Nat /\ call.offset \in Nat
      /\ Size \in Nat /\ Len(start.bytes) \in Nat
  BY BytesAre DEF TypeInv, Calls, Files, Size
<1>1. CASE Starting
  <2>1. /\ call'.done = 0 /\ call'.answer = <<>> /\ call'.step = "chunks"
        /\ call'.result = "pending" /\ file' = file /\ start' = start /\ call.step = "idle"
    BY <1>1 DEF Starting, Begun
  <2>2. Len(start'.bytes) <= Size' /\ Len(call'.answer) = 0
    BY <1>0, <2>1 DEF QuietInv, Size
  <2> QED BY <2>1, <2>2 DEF ReadInv
<1>2. CASE ~Starting
  <2>1. ~Creating /\ ~Reply
    <3>1. Creating => call'.op = "create"
      BY DEF Creating, Begun
    <3>2. Reply => call'.op = "none"
      BY ReplyIs DEF NoCall
    <3> QED BY <3>1, <3>2
  <2>2. call.op = "read" /\ start' = start
    BY <1>2, <2>1, SameOp
  <2>3. CASE ReadChunk
    <3>1. Steps("read", "chunks") /\ UNCHANGED file /\ call.result = "pending"
      BY <2>3, ReadChunkIs DEF Steps, StepInv
    <3>2. CASE call' = Returned(call, "failed")
      BY <1>0, <2>2, <3>1, <3>2, ReturnedIs DEF ReadInv, Size
    <3>3. CASE call' = Returned(call, "ok") /\ (call.done = call.length \/ Place >= Size)
      <4>1. /\ call'.answer = call.answer /\ call'.done = call.done /\ call'.length = call.length
            /\ call'.offset = call.offset /\ UNCHANGED <<file, start>>
        BY <1>0, <2>2, <3>1, <3>3, ReturnedIs
      <4>2. call.done = call.length \/ call.offset + call.done >= Size
        BY <3>3 DEF Place
      <4> QED BY <2>2, <4>1, <4>2 DEF ReadInv, Size
    <3>4. ASSUME NEW k \in 1 .. call.length - call.done, Place + k <= Size, call' = Received(k)
          PROVE  ReadInv'
      <4>1. k \in Nat /\ k > 0
        BY <1>0
      <4>2. /\ call' = [call EXCEPT !.answer = call'.answer, !.done = call.done + k]
            /\ call'.done = call.done + k
            /\ Len(call'.answer) = Len(call.answer) + k
            /\ \A i \in 1 .. Len(call.answer) : call'.answer[i] = call.answer[i]
            /\ \A i \in 1 .. k : call'.answer[Len(call.answer) + i] = file.bytes[Place + i]
        BY <3>4, <4>1, ReceivedIs
      <4>3. call'.offset = call.offset /\ call'.result = "pending" /\ Len(call.answer) = call.done
        BY <1>0, <2>2, <3>1, <4>2 DEF Calls, ReadInv
      <4>4. ASSUME NEW i \in 1 .. call.done + k
            PROVE  call'.answer[i] = file.bytes[call.offset + i]
        <5>1. CASE i \in 1 .. call.done
          BY <2>2, <4>2, <4>3, <5>1 DEF ReadInv
        <5>2. CASE i \notin 1 .. call.done
          <6>1. i - call.done \in 1 .. k
            BY <1>0, <4>1, <5>2
          <6>2. call'.answer[call.done + (i - call.done)] = file.bytes[Place + (i - call.done)]
            BY <4>2, <4>3, <6>1
          <6>3. call.done + (i - call.done) = i /\ Place + (i - call.done) = call.offset + i
            BY <1>0, <4>1 DEF Place
          <6> QED BY <6>2, <6>3
        <5> QED BY <5>1, <5>2
      <4>5. call.offset + (call.done + k) <= Size
        BY <1>0, <3>4, <4>1 DEF Place
      <4>6. Len(call'.answer) = call'.done
        BY <4>2, <4>3
      <4> QED BY <2>2, <3>1, <4>2, <4>3, <4>4, <4>5, <4>6 DEF ReadInv, Size
    <3> QED BY <2>3, <3>2, <3>3, <3>4, ReadChunkIs DEF Ends
  <2>4. CASE OthersAppend
    <3>1. /\ UNCHANGED call /\ Size' = Size + 1 /\ call.result = "pending"
          /\ \A i \in 1 .. Size : file'.bytes[i] = file.bytes[i]
      BY <2>4, AppendIs DEF StepInv
    <3>2. ASSUME NEW i \in 1 .. call.done
          PROVE  call.answer[i] = file'.bytes[call.offset + i]
      <4>1. call.offset + i \in 1 .. Size
        BY <1>0, <2>2 DEF ReadInv
      <4> QED BY <2>2, <3>1, <4>1 DEF ReadInv
    <3> QED BY <1>0, <2>2, <3>1, <3>2 DEF ReadInv
  <2>5. ReadChunk \/ OthersAppend
    BY <1>2, <2>1, <2>2, NextCases, WriteLookIs, WriteChunkIs, WriteEndIs, LooksAre, LookSizeIs,
       SetIs, FillIs DEF Steps, StepInv, LookingOps, MetaOps
  <2> QED BY <2>3, <2>4, <2>5
<1> QED BY <1>1, <1>2

\* Writing on from where the buffer has landed so far.
LEMMA LandedOn ==
  ASSUME TypeInv, NEW k \in Nat, k <= NextLength, Landed(file, start, call, call.done),
         NEW f, f.bytes = Written(k), NEW c, c.offset = call.offset
  PROVE  Landed(f, start, c, call.done + k)
<1> DEFINE w == Written(k)
           o == call.offset
           d == call.done
<1>1. o \in Nat /\ d \in Nat /\ Size \in Nat /\ Place = o + d /\ Len(start.bytes) \in Nat
      /\ DOMAIN file.bytes = 1 .. Size /\ DOMAIN start.bytes = 1 .. Len(start.bytes)
  BY BytesAre DEF TypeInv, Calls, Files, Size, Place
<1>2. /\ w \in Seq(Byte)
      /\ Len(w) = IF k = 0 \/ Size >= o + d + k THEN Size ELSE o + d + k
      /\ \A i \in 1 .. Len(w) : w[i] = IF i \in o + d + 1 .. o + d + k THEN New(i - o)
                                       ELSE IF i <= Size THEN file.bytes[i] ELSE Zero
  BY <1>1, WrittenIs
<1>3. DOMAIN w = 1 .. Len(w) /\ Len(w) \in Nat
  BY <1>2, BytesAre
<1>4. /\ \A i \in 1 .. Size : file.bytes[i][1] = "new" <=> i \in o + 1 .. o + d
      /\ \A i \in o + 1 .. o + d : i \in 1 .. Size /\ file.bytes[i] = New(i - o)
      /\ Len(start.bytes) <= Size
      /\ \A i \in 1 .. Len(start.bytes) : i \notin o + 1 .. o + d => file.bytes[i] = Old(i)
  BY <1>1 DEF Landed, Size
<1> HIDE DEF w, o, d
<1>5. \A i \in 1 .. Len(w) : w[i][1] = "new" <=> i \in o + 1 .. o + (d + k)
  <2> SUFFICES ASSUME NEW i \in 1 .. Len(w)
               PROVE  w[i][1] = "new" <=> i \in o + 1 .. o + (d + k)
    OBVIOUS
  <2>1. CASE i \in o + d + 1 .. o + d + k
    <3>1. w[i] = New(i - o) /\ i \in o + 1 .. o + (d + k)
      BY <1>1, <1>2, <2>1
    <3> QED BY <3>1, MarksAre
  <2>2. CASE i \notin o + d + 1 .. o + d + k /\ i <= Size
    BY <1>1, <1>2, <1>4, <2>2
  <2>3. CASE i \notin o + d + 1 .. o + d + k /\ ~(i <= Size)
    <3>1. w[i] = Zero /\ i \notin o + 1 .. o + d
      BY <1>1, <1>2, <1>4, <2>3
    <3>2. i \notin o + 1 .. o + (d + k)
      BY <1>1, <2>3, <3>1
    <3> QED BY <3>1, <3>2, MarksAre
  <2> QED BY <2>1, <2>2, <2>3
<1>6. \A i \in o + 1 .. o + (d + k) : i \in 1 .. Len(w) /\ w[i] = New(i - o)
  <2> SUFFICES ASSUME NEW i \in o + 1 .. o + (d + k) PROVE i \in 1 .. Len(w) /\ w[i] = New(i - o)
    OBVIOUS
  <2>1. CASE i \in o + d + 1 .. o + d + k
    <3>1. k # 0 /\ Len(w) >= o + d + k
      BY <1>1, <1>2, <2>1
    <3>2. i \in 1 .. Len(w)
      BY <1>1, <1>3, <2>1, <3>1
    <3> QED BY <1>2, <2>1, <3>2
  <2>2. CASE i \notin o + d + 1 .. o + d + k
    <3>1. i \in o + 1 .. o + d
      BY <1>1, <2>2
    <3>2. i \in 1 .. Size /\ file.bytes[i] = New(i - o)
      BY <1>4, <3>1
    <3> QED BY <1>1, <1>2, <2>2, <3>2
  <2> QED BY <2>1, <2>2
<1>7. Len(start.bytes) <= Len(w)
  BY <1>1, <1>2, <1>4
<1>8. \A i \in 1 .. Len(start.bytes) : i \notin o + 1 .. o + (d + k) => w[i] = Old(i)
  BY <1>1, <1>2, <1>4, <1>7
<1> QED BY <1>1, <1>3, <1>5, <1>6, <1>7, <1>8 DEF Landed, w, o, d

LEMMA WriteStep ==
  ASSUME TypeInv, StepInv, QuietInv, WriteInv, Next
  PROVE  WriteInv'
<1> SUFFICES ASSUME call'.op = "write" PROVE WriteInv'
  BY DEF WriteInv
<1>0. /\ call \in Calls /\ call.done \in Nat /\ call.length \in Nat /\ call.offset \in Nat
      /\ Size \in Nat /\ Len(start.bytes) \in Nat
      /\ DOMAIN file.bytes = 1 .. Size /\ DOMAIN start.bytes = 1 .. Len(start.bytes)
  BY BytesAre DEF TypeInv, Calls, Files, Size
<1>1. CASE Starting
  <2>1. /\ call'.done = 0 /\ call'.step \in {"look", "chunks"}
        /\ call'.step = "chunks" => ~call'.eof /\ ~call'.constrained
        /\ file' = file /\ start' = start /\ call.step = "idle" /\ call' \in Calls
    BY <1>1 DEF Starting, Begun
  <2>2. start = file /\ \A i \in 1 .. Size : file.bytes[i] = Old(i)
    BY <1>0, <2>1 DEF QuietInv
  <2>3. call'.offset \in Nat
    BY <2>1 DEF Calls
  <2>4. Landed(file', start', call', 0)
    <3>1. call'.offset + 1 .. call'.offset + 0 = {}
      BY <2>3
    <3>2. \A i \in 1 .. Size : file.bytes[i][1] # "new"
      BY <2>2, MarksAre
    <3>3. file' = file /\ start' = file
      BY <2>1, <2>2
    <3>4. Len(start'.bytes) <= Len(file'.bytes)
      BY <1>0, <3>3 DEF Size
    <3> QED BY <1>0, <2>2, <3>1, <3>2, <3>3, <3>4 DEF Landed
  <2>5. call'.step = "chunks" => Allowed(start', call', call'.length)
    BY <2>1 DEF Allowed
  <2> QED BY <2>1, <2>4, <2>5 DEF WriteInv
<1>2. CASE ~Starting
  <2>1. ~Creating /\ ~Reply
    <3>1. Creating => call'.op = "create"
      BY DEF Creating, Begun
    <3>2. Reply => call'.op = "none"
      BY ReplyIs DEF NoCall
    <3> QED BY <3>1, <3>2
  <2>2. call.op = "write" /\ start' = start
    BY <1>2, <2>1, SameOp
  <2>3. CASE WriteLook
    <3>1. UNCHANGED file /\ call.step = "look" /\ call.done = 0 /\ Landed(file, start, call, 0)
      BY <2>2, <2>3, WriteLookIs DEF Steps, StepInv, WriteInv
    <3>2. CASE Ends("failed")
      <4>1. /\ call'.offset = call.offset /\ call'.length = call.length /\ call'.done = 0
            /\ call'.result = "failed" /\ call'.step = "returned"
        BY <1>0, <3>1, <3>2, ReturnedIs DEF Ends
      <4>2. Landed(file', start', call', 0) /\ Allowed(start', call', 0) /\ 0 \in call'.done .. call'.length
        BY <1>0, <2>2, <3>1, <4>1 DEF Landed, Allowed
      <4>3. \E k \in call'.done .. call'.length :
              Landed(file', start', call', k) /\ Allowed(start', call', k) /\ (call'.result = "ok" => k = call'.length)
        BY <4>1, <4>2
      <4> QED BY <4>1, <4>3 DEF WriteInv
    <3>3. CASE ~Ends("failed")
      <4>1. /\ call' \in Calls /\ call'.step = "chunks" /\ call'.done = 0
            /\ call'.found = Size /\ (call'.eof => call'.offset = Size)
            /\ call'.constrained /\ call'.length > 0 => call'.offset + call'.length <= Size
        BY <2>3, <3>1, <3>3, WriteLookIs
      <4>2. call'.offset \in Nat
        BY <4>1 DEF Calls
      <4>3. Landed(file', start', call', 0)
        <5>1. UNCHANGED <<file, start>>
          BY <2>2, <3>1
        <5>2. call.offset + 1 .. call.offset + 0 = {} /\ call'.offset + 1 .. call'.offset + 0 = {}
          BY <1>0, <4>2
        <5> QED BY <3>1, <5>1, <5>2 DEF Landed
      <4>4. Allowed(start', call', call'.length)
        <5>1. Len(start.bytes) <= Size
          BY <3>1 DEF Landed, Size
        <5> QED BY <1>0, <2>2, <4>1, <5>1 DEF Allowed
      <4> QED BY <4>1, <4>3, <4>4 DEF WriteInv
    <3> QED BY <3>2, <3>3
  <2>4. CASE WriteChunk
    <3>1. call.step = "chunks" /\ Landed(file, start, call, call.done) /\ Allowed(start, call, call.length)
      BY <2>2, <2>4, WriteChunkIs DEF Steps, WriteInv
    <3>2. PICK k \in 0 .. call.length - call.done :
            /\ k <= NextLength /\ file'.bytes = Written(k)
            /\ call' = Returned(call, "failed") \/ call' = [call EXCEPT !.done = @ + k]
      BY <2>4, WriteChunkIs
    <3>3. k \in Nat /\ call.done + k \in call.done .. call.length
      BY <1>0
    <3>4. call'.offset = call.offset
      BY <1>0, <3>2, ReturnedIs DEF Calls
    <3>7. Landed(file', start', call', call.done + k)
      BY <2>2, <3>1, <3>2, <3>3, <3>4, LandedOn
    <3>5. CASE call' = Returned(call, "failed")
      <4>1. /\ call'.offset = call.offset /\ call'.length = call.length /\ call'.done = call.done
            /\ call'.result = "failed" /\ call'.step = "returned" /\ call'.eof = call.eof
            /\ call'.constrained = call.constrained /\ call'.found = call.found
            /\ call.found \in Nat
        BY <1>0, <3>5, ReturnedIs DEF Calls
      <4> DEFINE j == call.done + k
      <4>2. Landed(file', start', call', j) /\ j \in call'.done .. call'.length
        BY <3>3, <3>7, <4>1
      <4>3. Allowed(start', call', j)
        <5>1. call.done + k > 0 => call.length > 0
          BY <1>0, <3>3
        <5>2. call.offset + call.length <= call.found => call.offset + (call.done + k) <= call.found
          BY <1>0, <3>3, <4>1
        <5> QED BY <2>2, <3>1, <4>1, <5>1, <5>2 DEF Allowed
      <4> HIDE DEF j
      <4>4. \E i \in call'.done .. call'.length :
              Landed(file', start', call', i) /\ Allowed(start', call', i) /\ (call'.result = "ok" => i = call'.length)
        BY <4>1, <4>2, <4>3
      <4> QED BY <4>1, <4>4 DEF WriteInv
    <3>6. CASE call' = [call EXCEPT !.done = @ + k]
      <4>1. /\ call'.offset = call.offset /\ call'.length = call.length
            /\ call'.done = call.done + k /\ call'.step = "chunks" /\ call'.eof = call.eof
            /\ call'.constrained = call.constrained /\ call'.found = call.found
        BY <1>0, <3>1, <3>6 DEF Calls
      <4>2. Landed(file', start', call', call'.done)
        BY <3>7, <4>1
      <4>3. Allowed(start', call', call'.length)
        BY <2>2, <3>1, <4>1 DEF Allowed
      <4> QED BY <4>1, <4>2, <4>3 DEF WriteInv
    <3> QED BY <3>2, <3>5, <3>6
  <2>5. CASE WriteEnd
    <3>1. /\ UNCHANGED file /\ call.step = "chunks" /\ call.done = call.length
          /\ Landed(file, start, call, call.done) /\ Allowed(start, call, call.length)
      BY <2>2, <2>5, WriteEndIs DEF Steps, WriteInv, Ends
    <3>2. /\ call'.offset = call.offset /\ call'.length = call.length /\ call'.done = call.done
          /\ call'.step = "returned" /\ call'.eof = call.eof
          /\ call'.constrained = call.constrained /\ call'.found = call.found
      BY <1>0, <2>5, WriteEndIs, ReturnedIs DEF Ends
    <3> DEFINE j == call.length
    <3>3. Landed(file', start', call', j) /\ Allowed(start', call', j) /\ j \in call'.done .. call'.length
      <4>1. j \in call'.done .. call'.length
        BY <1>0, <3>1, <3>2 DEF Calls
      <4>2. start' = start /\ file' = file
        BY <2>2, <3>1
      <4>3. Landed(file', start', call', j)
        BY <3>1, <3>2, <4>2 DEF Landed
      <4>4. Allowed(start', call', j)
        BY <3>1, <3>2, <4>2 DEF Allowed
      <4> QED BY <4>1, <4>3, <4>4
    <3>4. j = call'.length
      BY <3>2
    <3> HIDE DEF j
    <3>5. \E i \in call'.done .. call'.length :
            Landed(file', start', call', i) /\ Allowed(start', call', i) /\ (call'.result = "ok" => i = call'.length)
      BY <3>3, <3>4
    <3> QED BY <3>2, <3>5 DEF WriteInv
  <2>6. CASE OthersAppend
    <3>1. /\ UNCHANGED call /\ Size' = Size + 1 /\ call.step \in {"look", "chunks"}
          /\ \A i \in 1 .. Size : file'.bytes[i] = file.bytes[i]
          /\ file'.bytes[Size + 1] = Other /\ DOMAIN file'.bytes = 1 .. Size + 1
      <4>1. file'.bytes \in Seq(Byte)
        BY <2>6, AppendIs DEF Files
      <4>2. Len(file'.bytes) = Size + 1 /\ DOMAIN file'.bytes = 1 .. Size + 1
        BY <2>6, <4>1, AppendIs, BytesAre DEF Size
      <4>3. call.step \in {"look", "chunks"}
        BY <1>0, <2>2, <2>6, AppendIs DEF StepInv, Calls, MetaOps, LookingOps
      <4> QED BY <2>6, <4>2, <4>3, AppendIs
    <3>2. Landed(file, start, call, call.done)
      BY <2>2, <3>1 DEF WriteInv, StepInv
    <3>3. Landed(file', start', call', call.done)
      <4> DEFINE I == call.offset + 1 .. call.offset + call.done
      <4>1. /\ \A i \in 1 .. Size : file.bytes[i][1] = "new" <=> i \in I
            /\ \A i \in I : i \in 1 .. Size /\ file.bytes[i] = New(i - call.offset)
            /\ Len(start.bytes) <= Size
            /\ \A i \in 1 .. Len(start.bytes) : i \notin I => file.bytes[i] = Old(i)
        BY <1>0, <3>2 DEF Landed, Size
      <4> HIDE DEF I
      <4>2. Size + 1 \notin I /\ file'.bytes[Size + 1][1] # "new"
        BY <1>0, <3>1, <4>1, MarksAre
      <4>3. \A i \in 1 .. Size + 1 : i = Size + 1 \/ i \in 1 .. Size
        BY <1>0
      <4>4. \A i \in 1 .. Size + 1 : file'.bytes[i][1] = "new" <=> i \in I
        BY <3>1, <4>1, <4>2, <4>3
      <4>5. \A i \in I : i \in 1 .. Size + 1 /\ file'.bytes[i] = New(i - call.offset)
        BY <1>0, <3>1, <4>1
      <4>6. \A i \in 1 .. Len(start.bytes) : i \notin I => file'.bytes[i] = Old(i)
        BY <1>0, <3>1, <4>1
      <4>7. Len(start.bytes) <= Len(file'.bytes)
        BY <1>0, <3>1, <4>1 DEF Size
      <4> QED BY <1>0, <2>2, <3>1, <4>4, <4>5, <4>6, <4>7 DEF Landed, I
    <3>4. call.step = "look" => call.done = 0
      BY DEF StepInv
    <3>5. call'.step = "chunks" => Allowed(start', call', call'.length)
      BY <2>2, <3>1 DEF WriteInv, Allowed
    <3> QED BY <2>2, <3>1, <3>3, <3>4, <3>5 DEF WriteInv
  <2>7. WriteLook \/ WriteChunk \/ WriteEnd \/ OthersAppend
    BY <1>2, <2>1, <2>2, NextCases, ReadChunkIs, LooksAre, LookSizeIs,
       SetIs, FillIs DEF Steps, StepInv, LookingOps, MetaOps
  <2> QED BY <2>3, <2>4, <2>5, <2>6, <2>7
<1> QED BY <1>1, <1>2

LEMMA SizeStep ==
  ASSUME TypeInv, StepInv, QuietInv, SizeInv, Next
  PROVE  SizeInv'
<1> SUFFICES ASSUME call'.op = "resize" PROVE SizeInv'
  BY DEF SizeInv
<1>0. /\ call \in Calls /\ call.size \in Nat /\ Size \in Nat /\ Len(start.bytes) \in Nat
      /\ DOMAIN file.bytes = 1 .. Size /\ DOMAIN start.bytes = 1 .. Len(start.bytes)
  BY BytesAre DEF TypeInv, Calls, Files, Size
<1>1. CASE Starting
  <2>1. /\ call'.step \in {"look", "set"} /\ (call'.step = "set" => ~call'.allocation)
        /\ call'.request = [NoChange EXCEPT !.size = {call'.size}]
        /\ call'.result \in {"pending", "refused"}
        /\ file' = file /\ start' = start /\ call.step = "idle"
    BY <1>1 DEF Starting, Begun
  <2>2. start = file /\ \A i \in 1 .. Size : file.bytes[i] = Old(i)
    BY <1>0, <2>1 DEF QuietInv
  <2>3. KeptTo(Len(start.bytes)) /\ NoZero
    BY <1>0, <2>2, MarksAre DEF KeptTo, NoZero
  <2>4. KeptTo(Len(start.bytes))' /\ NoZero'
    BY <2>1, <2>3 DEF KeptTo, NoZero
  <2> QED BY <2>1, <2>4 DEF SizeInv
<1>2. CASE ~Starting
  <2>1. ~Creating /\ ~Reply
    <3>1. Creating => call'.op = "create"
      BY DEF Creating, Begun
    <3>2. Reply => call'.op = "none"
      BY ReplyIs DEF NoCall
    <3> QED BY <3>1, <3>2
  <2>2. call.op = "resize" /\ start' = start
    BY <1>2, <2>1, SameOp
  <2>3. call.request = [NoChange EXCEPT !.size = {call.size}]
    BY <2>2 DEF SizeInv
  \* A callback that fails leaves only its request.
  <2>4. ASSUME call' = Returned(call, "failed") PROVE SizeInv'
    <3>1. call'.step = "returned" /\ call'.result = "failed" /\ call'.request = call.request
          /\ call'.size = call.size
      BY <1>0, <2>4, ReturnedIs
    <3> QED BY <2>3, <3>1 DEF SizeInv
  <2>5. CASE LookSize
    <3>1. UNCHANGED <<file, start>> /\ call.step = "look" /\ call.result = "pending"
          /\ KeptTo(Len(start.bytes)) /\ NoZero
      BY <2>2, <2>5, LookSizeIs DEF Steps, StepInv, SizeInv
    <3>2. KeptTo(Len(start.bytes))' /\ NoZero'
      BY <3>1 DEF KeptTo, NoZero
    <3>3. CASE /\ call' = [call EXCEPT !.step = call'.step]
               /\ call'.step = IF call.size < Size THEN "set" ELSE "fill"
      <4>1. /\ call'.request = call.request /\ call'.size = call.size
            /\ call'.allocation = call.allocation /\ call'.result = "pending"
        BY <1>0, <3>1, <3>3 DEF Calls
      <4>2. call'.step = "set" => call'.size < Size'
        BY <1>0, <3>1, <3>3, <4>1 DEF Size
      <4>3. call'.step \in {"set", "fill"}
        BY <3>3
      <4>4. KeptTo(call.size)'
        BY <1>0, <2>2, <3>2, <4>1 DEF KeptTo
      <4> QED BY <2>3, <3>2, <4>1, <4>2, <4>3, <4>4 DEF SizeInv
    <3> QED BY <2>4, <2>5, <3>3, LookSizeIs DEF Ends
  <2>6. CASE Set
    <3>1. call.step = "set" /\ KeptTo(Len(start.bytes)) /\ NoZero /\ call.result = "pending"
          /\ (call.allocation => call.size < Size)
      BY <2>2, <2>6, SetIs DEF SizeInv, StepInv
    <3>2. CASE file' = Applied(call.request) /\ call' = [call EXCEPT !.step = "fill"]
      <4>1. /\ call'.request = call.request /\ call'.size = call.size
            /\ call'.allocation = call.allocation /\ call'.result = "pending"
            /\ call'.step = "fill" /\ call.request \in Requests
        BY <1>0, <3>1, <3>2 DEF Calls
      <4>2. call.request.size = {call.size}
        BY <2>3 DEF NoChange
      <4>3. file'.bytes = Resized(call.size)
        <5>1. Known(call.request.size) /\ Value(call.request.size) = call.size
          BY <4>2, ValueOne
        <5>2. Applied(call.request).bytes = Resized(Value(call.request.size))
          BY <4>1, <5>1, AppliedIs DEF TypeInv
        <5> QED BY <3>2, <5>1, <5>2
      <4>4. /\ file'.bytes \in Seq(Byte) /\ Len(file'.bytes) = call.size
            /\ \A i \in 1 .. call.size :
                 file'.bytes[i] = IF i <= Size THEN file.bytes[i] ELSE Zero
        BY <1>0, <4>3, ResizedIs DEF TypeInv
      <4>5. DOMAIN file'.bytes = 1 .. call.size
        BY <4>4, BytesAre
      <4>6. \A i \in 1 .. Len(start.bytes) :
              i <= call.size => i \in DOMAIN file'.bytes /\ file'.bytes[i] = Old(i)
        BY <1>0, <3>1, <4>4, <4>5 DEF KeptTo
      <4>7. call.allocation => \A i \in DOMAIN file'.bytes : file'.bytes[i] # Zero
        <5> SUFFICES ASSUME call.allocation, NEW i \in 1 .. call.size PROVE file'.bytes[i] # Zero
          BY <4>5
        <5>1. i \in 1 .. Size
          BY <1>0, <3>1
        <5> QED BY <1>0, <3>1, <4>4, <5>1 DEF NoZero
      <4> QED BY <1>0, <2>2, <2>3, <4>1, <4>6, <4>7 DEF SizeInv, KeptTo, NoZero
    <3> QED BY <2>4, <2>6, <3>2, SetIs
  <2>7. CASE Fill
    <3>1. UNCHANGED <<file, start>> /\ call.step = "fill"
      BY <2>2, <2>7, FillIs DEF Ends
    <3>2. KeptTo(call.size) /\ (call.allocation => NoZero)
      BY <2>2, <3>1 DEF SizeInv
    <3>3. CASE call' = Returned(call, "ok")
      <4>1. /\ call'.step = "returned" /\ call'.request = call.request /\ call'.size = call.size
            /\ call'.allocation = call.allocation
        BY <1>0, <3>3, ReturnedIs
      <4> QED BY <2>3, <3>1, <3>2, <4>1 DEF SizeInv, KeptTo, NoZero
    <3> QED BY <2>4, <2>7, <3>3, FillIs DEF Ends
  <2>8. CASE OthersAppend
    <3>1. /\ UNCHANGED call /\ Size' = Size + 1
          /\ \A i \in 1 .. Size : file'.bytes[i] = file.bytes[i]
          /\ file'.bytes[Size + 1] = Other /\ DOMAIN file'.bytes = 1 .. Size + 1
      <4>1. file'.bytes \in Seq(Byte)
        BY <2>8, AppendIs DEF Files
      <4>2. DOMAIN file'.bytes = 1 .. Size + 1
        BY <2>8, <4>1, AppendIs, BytesAre DEF Size
      <4> QED BY <2>8, <4>2, AppendIs
    <3>2. ASSUME NEW n \in Nat, KeptTo(n) PROVE KeptTo(n)'
      BY <1>0, <2>2, <3>1, <3>2 DEF KeptTo
    <3>3. NoZero => NoZero'
      <4>1. \A i \in 1 .. Size + 1 : i = Size + 1 \/ i \in 1 .. Size
        BY <1>0
      <4> QED BY <1>0, <3>1, <4>1, MarksAre DEF NoZero
    <3>4. KeptTo(Len(start.bytes)) => KeptTo(Len(start.bytes))'
      BY <1>0, <2>2, <3>2 DEF KeptTo
    <3>5. KeptTo(call.size) => KeptTo(call.size)'
      BY <1>0, <3>1, <3>2 DEF KeptTo
    <3>6. call.size < Size => call'.size < Size'
      BY <1>0, <3>1
    <3> QED BY <2>2, <3>1, <3>3, <3>4, <3>5, <3>6 DEF SizeInv
  <2>9. LookSize \/ Set \/ Fill \/ OthersAppend
    BY <1>2, <2>1, <2>2, NextCases, ReadChunkIs, WriteLookIs, WriteChunkIs, WriteEndIs, LooksAre
       DEF Steps, StepInv, LookingOps, MetaOps
  <2> QED BY <2>5, <2>6, <2>7, <2>8, <2>9
<1> QED BY <1>1, <1>2

\* A request that is not refused keeps the mode tame, and sets or clears
\* read-only as it was asked for.
LEMMA ModeIs ==
  ASSUME NEW option \in Modes, Known(option)
  PROVE  Value(option) \in SUBSET ModeBits /\ option = {Value(option)}
<1>1. PICK m \in SUBSET ModeBits : option = {m}
  BY DEF Modes, Option, Known
<1> QED BY <1>1, ValueOne

LEMMA TogglesKnown ==
  ASSUME NEW f \in Files, NEW requested, ~PermissionsRefused(f, requested), Toggles(f, requested)
  PROVE  /\ Known(f.mode) /\ f.kind = "file" /\ requested # Keep
         /\ Permissions(f, requested) =
              {IF "readonly" \in requested THEN Value(f.mode) \ WriteBits
                                           ELSE Value(f.mode) \cup {"owner-writes"}}
BY DEF PermissionsRefused, Toggles, Permissions

LEMMA PermissionsTame ==
  ASSUME NEW f \in Files, NEW requested, ~PermissionsRefused(f, requested), Tame(f.mode)
  PROVE  Permissions(f, requested) = {} \/ Tame(Permissions(f, requested))
<1>1. CASE ~Toggles(f, requested)
  BY <1>1 DEF Permissions
<1>2. CASE Toggles(f, requested)
  <2> DEFINE m == IF "readonly" \in requested THEN Value(f.mode) \ WriteBits
                                              ELSE Value(f.mode) \cup {"owner-writes"}
  <2>1. Permissions(f, requested) = {m} /\ Known(f.mode)
    BY <1>2, TogglesKnown
  <2>2. Known(Permissions(f, requested)) /\ Value(Permissions(f, requested)) = m
    BY <2>1, ValueOne
  <2>3. /\ m \ WriteBits = Value(f.mode) \ WriteBits
        /\ m \cap WriteBits \subseteq (Value(f.mode) \cap WriteBits) \cup {"owner-writes"}
    BY DEF WriteBits
  <2> HIDE DEF m
  <2> QED BY <2>1, <2>2, <2>3 DEF Tame
<1> QED BY <1>1, <1>2

LEMMA PermissionsShow ==
  ASSUME NEW f \in Files, NEW requested, ~PermissionsRefused(f, requested), requested # Keep
  PROVE  IF Permissions(f, requested) = {}
           THEN "readonly" \in Attributes(f) <=> "readonly" \in requested
           ELSE f.kind = "file" /\
                (Value(Permissions(f, requested)) \cap WriteBits = {} <=> "readonly" \in requested)
<1>1. CASE ~Toggles(f, requested)
  <2>1. Permissions(f, requested) = {}
    BY <1>1 DEF Permissions
  <2>2. CASE f.kind = "file"
    BY <1>1, <2>1, <2>2 DEF Toggles
  <2>3. CASE f.kind # "file"
    <3>1. "readonly" \notin requested
      BY <2>3 DEF PermissionsRefused
    <3>2. "readonly" \notin Attributes(f)
      BY <2>3 DEF Attributes
    <3> QED BY <2>1, <3>1, <3>2
  <2> QED BY <2>2, <2>3
<1>2. CASE Toggles(f, requested)
  <2> DEFINE m == IF "readonly" \in requested THEN Value(f.mode) \ WriteBits
                                              ELSE Value(f.mode) \cup {"owner-writes"}
  <2>1. Permissions(f, requested) = {m} /\ f.kind = "file"
    BY <1>2, TogglesKnown
  <2>2. Permissions(f, requested) # {} /\ Value(Permissions(f, requested)) = m
    BY <2>1, ValueOne
  <2>3. m \cap WriteBits = {} <=> "readonly" \in requested
    BY DEF WriteBits
  <2> QED BY <2>1, <2>2, <2>3
<1> QED BY <1>1, <1>2

\* What a step may do to the metadata of a file, and of the call.
MetaKept == UNCHANGED <<file.kind, file.mode, file.modified, granted>>

LEMMA MetaSteps ==
  ASSUME TypeInv, StepInv, Next, ~Starting, ~Creating, ~Reply, ~Set
  PROVE  MetaKept
<1>1. CASE ReadChunk \/ WriteLook \/ WriteEnd \/ Look \/ LookOverwrite \/ LookSize \/ Fill
  BY <1>1, ReadChunkIs, WriteLookIs, WriteEndIs, LooksAre, LookSizeIs, FillIs DEF Ends, MetaKept
<1>2. CASE WriteChunk
  BY <1>2, WriteChunkIs DEF MetaKept
<1>3. CASE OthersAppend
  BY <1>3, AppendIs DEF MetaKept
<1> QED BY <1>1, <1>2, <1>3, NextCases

\* A callback for metadata is looking, setting, filling in its reply, or done.
LEMMA MetaSame ==
  ASSUME TypeInv, StepInv, Next, call'.op \in LookingOps, ~Starting, ~Creating
  PROVE  /\ call'.op = call.op /\ UNCHANGED start
         /\ call'.attributes = call.attributes /\ call'.replace = call.replace
         /\ call'.modified = call.modified
         /\ \/ Look \/ LookOverwrite
            \/ Set /\ call' \in {[call EXCEPT !.step = "fill"], Returned(call, "failed")}
            \/ Fill /\ (Ends("ok") \/ Ends("failed"))
<1>0. call \in Calls
  BY DEF TypeInv
<1>1. ~Reply
  BY ReplyIs DEF NoCall, LookingOps
<1>2. call'.op = call.op /\ UNCHANGED <<start, focus>> /\ focus = "metadata"
  BY <1>1, SameOp DEF StepInv, MetaOps
<1>3. Look \/ LookOverwrite \/ Set \/ Fill
  BY <1>1, <1>2, NextCases, ReadChunkIs, WriteLookIs, WriteChunkIs, WriteEndIs, LookSizeIs, AppendIs
     DEF Steps, LookingOps
<1>4. ASSUME NEW r \in {"ok", "failed", "refused"}, call' = Returned(call, r)
      PROVE  /\ call'.attributes = call.attributes /\ call'.replace = call.replace
             /\ call'.modified = call.modified
  BY <1>0, <1>4, ReturnedIs
<1>5. CASE Look \/ LookOverwrite
  <2>1. CASE call' = [call EXCEPT !.request = Asked, !.step = call'.step]
    BY <1>0, <1>2, <1>5, <2>1 DEF Calls
  <2> QED BY <1>2, <1>4, <1>5, <2>1, LooksAre DEF Ends
<1>6. CASE Set
  <2>1. CASE call' = [call EXCEPT !.step = "fill"]
    BY <1>0, <1>2, <1>6, <2>1 DEF Calls
  <2> QED BY <1>2, <1>4, <1>6, <2>1, SetIs
<1>7. CASE Fill
  BY <1>2, <1>4, <1>7, FillIs DEF Ends
<1> QED BY <1>3, <1>5, <1>6, <1>7

\* A callback that has looked asks for what its permissions say, of the file as
\* it was when the callback began.
LEMMA LookedIs ==
  ASSUME TypeInv, StepInv, QuietInv, Look \/ LookOverwrite
  PROVE  /\ file = start /\ UNCHANGED <<file, start, granted>> /\ call.op \in LookingOps
         /\ \/ call'.step = "returned" /\ call'.result \in {"failed", "refused"}
            \/ /\ ~Refused /\ call'.request = Asked /\ call'.result = "pending"
               /\ call'.step = IF Asked = NoChange THEN "fill" ELSE "set"
<1>0. call \in Calls
  BY DEF TypeInv
<1>1. /\ call.op \in LookingOps /\ call.step = "look" /\ UNCHANGED <<file, start, granted>>
      /\ focus = "metadata" /\ call.result = "pending"
  BY LooksAre DEF Steps, StepInv, MetaOps
<1>2. file = start
  BY <1>1 DEF QuietInv
<1>3. CASE Ends("failed") \/ Ends("refused")
  BY <1>0, <1>1, <1>2, <1>3, ReturnedIs DEF Ends
<1>4. CASE /\ ~Refused /\ call' = [call EXCEPT !.request = Asked, !.step = call'.step]
           /\ call'.request = Asked /\ call'.step = IF Asked = NoChange THEN "fill" ELSE "set"
  <2>1. call'.result = "pending"
    BY <1>0, <1>1, <1>4 DEF Calls
  <2> QED BY <1>1, <1>2, <1>4, <2>1
<1> QED BY <1>3, <1>4, LooksAre

LEMMA ModeStep ==
  ASSUME TypeInv, StepInv, QuietInv, SizeInv, ModeInv, Next
  PROVE  ModeInv'
<1>0. call \in Calls /\ file \in Files /\ call.request \in Requests
  BY DEF TypeInv, Calls
<1>1. CASE Starting
  <2>1. /\ UNCHANGED <<file, granted>>
        /\ call'.step = "set" => call'.op \notin LookingOps
    BY <1>1 DEF Starting
  <2> QED BY <2>1 DEF ModeInv, Tame
<1>2. CASE Creating
  <2>1. call'.step = "look" /\ granted' = file'.mode
    BY <1>2 DEF Creating
  <2> QED BY <2>1 DEF ModeInv, Tame
<1>3. CASE Reply
  <2>1. call'.step = "idle" /\ file'.mode = file.mode /\ granted' = granted
    BY <1>3, ReplyIs DEF NoCall
  <2> QED BY <2>1 DEF ModeInv, Tame
<1>4. CASE Set
  <2>1. call'.step # "set"
    <3>1. CASE call' = [call EXCEPT !.step = "fill"]
      BY <1>0, <3>1 DEF Calls
    <3>2. CASE call' = Returned(call, "failed")
      BY <1>0, <3>2, ReturnedIs
    <3> QED BY <1>4, <3>1, <3>2, SetIs
  <2>2. PICK r \in Requests : file' = Applied(r) /\ r.mode \in {{}, call.request.mode}
    BY <1>4, SetIs
  <2>3. file'.mode = IF Known(r.mode) THEN r.mode ELSE file.mode
    BY <1>0, <2>2, AppliedIs DEF Update
  <2>4. call.step = "set" /\ granted' = IF call.op = "setattr" THEN file'.mode ELSE granted
    BY <1>4, SetIs
  <2>5. CASE call.op = "setattr"
    BY <2>1, <2>4, <2>5 DEF ModeInv, Tame
  <2>6. CASE call.op = "resize"
    <3>1. call.request.mode = {}
      BY <2>6 DEF SizeInv, NoChange
    <3>2. file'.mode = file.mode /\ granted' = granted
      BY <2>2, <2>3, <2>4, <2>6, <3>1 DEF Known
    <3> QED BY <2>1, <3>2 DEF ModeInv, Tame
  <2>7. CASE call.op \in LookingOps
    <3>1. granted' = granted
      BY <2>4, <2>7 DEF LookingOps
    <3>2. Tame(file'.mode)
      BY <2>2, <2>3, <2>4, <2>7 DEF ModeInv, Known
    <3> QED BY <2>1, <3>1, <3>2 DEF ModeInv, Tame
  <2> QED BY <2>4, <2>5, <2>6, <2>7 DEF StepInv, MetaOps
<1>5. CASE ~Starting /\ ~Creating /\ ~Reply /\ ~Set
  <2>1. file'.mode = file.mode /\ granted' = granted
    BY <1>5, MetaSteps DEF MetaKept
  <2>2. Tame(file.mode)'
    BY <2>1 DEF ModeInv, Tame
  <2>3. ASSUME call'.step = "set", call'.op \in LookingOps
        PROVE  call'.request.mode = {} \/ Tame(call'.request.mode)
    <3>1. Look \/ LookOverwrite
      <4>1. Fill => call'.step = "returned"
        BY <1>0, FillIs, ReturnedIs DEF Ends
      <4> QED BY <1>5, <2>3, <4>1, MetaSame
    <3>2. ~Refused /\ call'.request = Asked
      BY <2>3, <3>1, LookedIs
    <3>3. call'.request.mode = Permissions(file, Requested)
      BY <3>2 DEF Asked
    <3>4. ~PermissionsRefused(file, Requested)
      BY <3>2 DEF Refused
    <3> QED BY <1>0, <3>3, <3>4, PermissionsTame DEF ModeInv
  <2> QED BY <2>1, <2>2, <2>3 DEF ModeInv, Tame
<1> QED BY <1>1, <1>2, <1>3, <1>4, <1>5

\* What is requested of a file that is as it was at the start.
LEMMA RequestedIs ==
  ASSUME TypeInv, file = start, call.op \in LookingOps, ~Refused, call.attributes # Keep
  PROVE  Requested # Keep /\ ("readonly" \in Requested <=> Wanted)
<1>1. CASE call.op = "overwrite" /\ ~call.replace
  <2>1. call.attributes \ {"archive"} \subseteq Supported
    BY <1>1 DEF Refused, CreationRefused, CreationAttributes
  <2>2. Attributes(file) \subseteq Supported
    BY DEF Attributes, Supported
  <2>3. "hidden" \notin Requested
    BY <1>1, <2>1, <2>2 DEF Requested, Supported
  <2> QED BY <1>1, <2>3 DEF Requested, Wanted, Keep, Flags
<1>2. CASE ~(call.op = "overwrite" /\ ~call.replace)
  BY <1>2 DEF Requested, Wanted
<1> QED BY <1>1, <1>2

LEMMA ShownStep ==
  ASSUME TypeInv, StepInv, QuietInv, ShownInv, Next
  PROVE  ShownInv'
<1> SUFFICES ASSUME call'.op \in LookingOps, call'.attributes # Keep PROVE ShownInv'
  BY DEF ShownInv
<1>0. call \in Calls /\ file \in Files /\ call.request \in Requests
  BY DEF TypeInv, Calls
<1>1. CASE Starting \/ Creating
  <2>1. call'.step \in {"look", "returned"} /\ call'.result # "ok"
    BY <1>1 DEF Starting, Creating, Begun
  <2> QED BY <2>1 DEF ShownInv
<1>2. CASE ~Starting /\ ~Creating
  <2>1. /\ call'.op = call.op /\ UNCHANGED start
        /\ call'.attributes = call.attributes /\ call'.replace = call.replace
    BY <1>2, MetaSame
  <2>2. Wanted' = Wanted
    BY <2>1 DEF Wanted, Attributes
  <2>3. CASE Look \/ LookOverwrite
    <3>1. file = start /\ UNCHANGED file
      BY <2>3, LookedIs
    <3>2. CASE call'.step = "returned" /\ call'.result \in {"failed", "refused"}
      BY <3>2 DEF ShownInv
    <3>3. CASE /\ ~Refused /\ call'.request = Asked /\ call'.result = "pending"
               /\ call'.step = IF Asked = NoChange THEN "fill" ELSE "set"
      <4>1. Requested # Keep /\ ("readonly" \in Requested <=> Wanted)
        BY <2>1, <3>1, <3>3, RequestedIs
      <4>2. ~PermissionsRefused(file, Requested)
        BY <3>3 DEF Refused
      <4>3. call'.request.mode = Permissions(file, Requested)
        BY <3>3 DEF Asked
      <4>4. IF call'.request.mode = {} THEN "readonly" \in Attributes(file) <=> Wanted
            ELSE file.kind = "file" /\ (Value(call'.request.mode) \cap WriteBits = {} <=> Wanted)
        BY <1>0, <4>1, <4>2, <4>3, PermissionsShow
      <4>5. CASE Asked = NoChange
        <5>1. call'.request.mode = {} /\ call'.step = "fill"
          BY <3>3, <4>5 DEF NoChange
        <5> QED BY <2>2, <3>1, <3>3, <4>4, <5>1 DEF ShownInv, Attributes
      <4>6. CASE Asked # NoChange
        <5>1. call'.step = "set"
          BY <3>3, <4>6
        <5> QED BY <2>2, <3>1, <3>3, <4>4, <5>1 DEF ShownInv, Attributes
      <4> QED BY <4>5, <4>6
    <3> QED BY <2>3, <3>2, <3>3, LookedIs
  <2>4. CASE Set /\ call' \in {[call EXCEPT !.step = "fill"], Returned(call, "failed")}
    <3>1. CASE call' = Returned(call, "failed")
      <4>1. call'.step = "returned" /\ call'.result = "failed"
        BY <1>0, <3>1, ReturnedIs
      <4> QED BY <4>1 DEF ShownInv
    <3>2. CASE call' = [call EXCEPT !.step = "fill"]
      <4>1. call'.step = "fill" /\ call.step = "set"
        BY <1>0, <2>4, <3>2, SetIs DEF Calls
      <4>2. file' = Applied(call.request)
        <5>1. call' # Returned(call, "failed")
          BY <1>0, <4>1, ReturnedIs
        <5> QED BY <2>4, <5>1, SetIs
      <4>3. file'.kind = file.kind
            /\ file'.mode = IF Known(call.request.mode) THEN call.request.mode ELSE file.mode
        BY <1>0, <4>2, AppliedIs DEF Update
      <4>4. "readonly" \in Attributes(file') <=> Wanted
        <5>1. CASE call.request.mode = {}
          <6>1. "readonly" \in Attributes(file) <=> Wanted
            BY <2>1, <4>1, <5>1 DEF ShownInv
          <6>2. file'.mode = file.mode
            BY <4>3, <5>1 DEF Known
          <6> QED BY <4>3, <6>1, <6>2 DEF Attributes
        <5>2. CASE call.request.mode # {}
          <6>1. file.kind = "file" /\ (Value(call.request.mode) \cap WriteBits = {} <=> Wanted)
            BY <2>1, <4>1, <5>2 DEF ShownInv
          <6>2. file'.mode = call.request.mode /\ Known(file'.mode)
            BY <4>3, <5>2 DEF Known
          <6> QED BY <4>3, <6>1, <6>2 DEF Attributes
        <5> QED BY <5>1, <5>2
      <4> QED BY <2>2, <4>1, <4>4 DEF ShownInv, Attributes
    <3> QED BY <2>4, <3>1, <3>2
  <2>5. CASE Fill /\ (Ends("ok") \/ Ends("failed"))
    <3>1. call'.step = "returned" /\ UNCHANGED file /\ call.step = "fill"
      BY <1>0, <2>5, FillIs, ReturnedIs DEF Ends
    <3>2. "readonly" \in Attributes(file) <=> Wanted
      BY <2>1, <3>1 DEF ShownInv
    <3> QED BY <2>2, <3>1, <3>2 DEF ShownInv, Attributes
  <2> QED BY <1>2, <2>3, <2>4, <2>5, MetaSame
<1> QED BY <1>1, <1>2

LEMMA ModifiedStep ==
  ASSUME TypeInv, StepInv, QuietInv, ModifiedInv, Next
  PROVE  ModifiedInv'
<1> SUFFICES ASSUME call'.op = "basic" PROVE ModifiedInv'
  BY DEF ModifiedInv
<1>0. call \in Calls /\ file \in Files /\ call.request \in Requests /\ "basic" \in LookingOps
  BY DEF TypeInv, Calls, LookingOps
<1>1. CASE Starting \/ Creating
  <2>1. call'.step \in {"look", "returned"} /\ call'.result # "ok"
    BY <1>0, <1>1 DEF Starting, Creating, Begun
  <2> QED BY <2>1 DEF ModifiedInv
<1>2. CASE ~Starting /\ ~Creating
  <2>1. call.op = "basic" /\ UNCHANGED start /\ call'.modified = call.modified
    BY <1>0, <1>2, MetaSame
  <2>2. CASE Look \/ LookOverwrite
    <3>1. file = start /\ UNCHANGED file
      BY <2>2, LookedIs
    <3>2. CASE call'.step = "returned" /\ call'.result \in {"failed", "refused"}
      BY <3>2 DEF ModifiedInv
    <3>3. CASE /\ call'.request = Asked /\ call'.result = "pending"
               /\ call'.step = IF Asked = NoChange THEN "fill" ELSE "set"
      <4>1. call'.request.modified = UnixSeconds(call.modified)
        BY <3>3 DEF Asked
      <4>2. Asked = NoChange => call.modified = 0
        BY <3>3, <4>1 DEF NoChange, UnixSeconds
      <4> QED BY <2>1, <3>1, <3>3, <4>1, <4>2 DEF ModifiedInv
    <3> QED BY <2>2, <3>2, <3>3, LookedIs
  <2>3. CASE Set /\ call' \in {[call EXCEPT !.step = "fill"], Returned(call, "failed")}
    <3>1. CASE call' = Returned(call, "failed")
      <4>1. call'.step = "returned" /\ call'.result = "failed"
        BY <1>0, <3>1, ReturnedIs
      <4> QED BY <4>1 DEF ModifiedInv
    <3>2. CASE call' = [call EXCEPT !.step = "fill"]
      <4>1. call'.step = "fill" /\ call.step = "set"
        BY <1>0, <2>3, <3>2, SetIs DEF Calls
      <4>2. file' = Applied(call.request)
        <5>1. call' # Returned(call, "failed")
          BY <1>0, <4>1, ReturnedIs
        <5> QED BY <2>3, <5>1, SetIs
      <4>3. file'.modified = IF Known(call.request.modified) THEN call.request.modified
                                                             ELSE file.modified
        BY <1>0, <4>2, AppliedIs DEF Update
      <4>4. call.request.modified = UnixSeconds(call.modified) /\ file = start
        BY <2>1, <4>1 DEF ModifiedInv, QuietInv, StepInv, MetaOps, LookingOps
      <4>5. Known(UnixSeconds(call.modified)) <=> call.modified # 0
        BY DEF UnixSeconds, Known
      <4> QED BY <2>1, <4>1, <4>3, <4>4, <4>5 DEF ModifiedInv
    <3> QED BY <2>3, <3>1, <3>2
  <2>4. CASE Fill /\ (Ends("ok") \/ Ends("failed"))
    <3>1. call'.step = "returned" /\ UNCHANGED file /\ call.step = "fill"
      BY <1>0, <2>4, FillIs, ReturnedIs DEF Ends
    <3> QED BY <2>1, <3>1 DEF ModifiedInv
  <2> QED BY <1>0, <1>2, <2>2, <2>3, <2>4, MetaSame
<1> QED BY <1>1, <1>2

LEMMA Stutters == IInv /\ UNCHANGED vars => IInv'
<1> SUFFICES ASSUME IInv, UNCHANGED vars PROVE IInv'
  OBVIOUS
<1>1. UNCHANGED <<mount, focus, writable, file, call, start, granted>>
  BY DEF vars
<1>2. TypeInv' /\ StepInv' /\ QuietInv'
  BY <1>1 DEF IInv, TypeInv, StepInv, QuietInv
<1>3. ReadInv' /\ WriteInv' /\ SizeInv'
  BY <1>1 DEF IInv, ReadInv, WriteInv, Landed, Allowed, SizeInv, KeptTo, NoZero, Size
<1>4. ModeInv' /\ ShownInv' /\ ModifiedInv'
  BY <1>1 DEF IInv, ModeInv, Tame, ShownInv, Wanted, Attributes, ModifiedInv
<1> QED BY <1>2, <1>3, <1>4 DEF IInv

\* The invariant holds in every state.
LEMMA Always == Spec => []IInv
<1>1. Init => IInv
  BY InitInv
<1>2. IInv /\ [Next]_vars => IInv'
  <2>1. IInv /\ Next => IInv'
    BY TypeStep, StepStep, QuietStep, ReadStep, WriteStep, SizeStep, ModeStep, ShownStep,
       ModifiedStep DEF IInv
  <2> QED BY <2>1, Stutters
<1> QED BY <1>1, <1>2, PTL DEF Spec

(***************************************************************************)
(* The theorems.                                                           *)
(***************************************************************************)
\* Every state has its type, and no callback goes past the end of its buffer.
THEOREM TypeCorrect == Spec => []TypeOK
<1>1. IInv => TypeOK
  <2> SUFFICES ASSUME IInv PROVE TypeOK
    OBVIOUS
  <2>1. TypeInv /\ StepInv
    BY DEF IInv
  <2>2. ASSUME NEW f \in Files
        PROVE  /\ f.kind \in {"file", "directory"} /\ f.bytes \in Seq(Byte)
               /\ f.mode \subseteq SUBSET ModeBits
               /\ f.modified \cup f.accessed \subseteq Nat
    BY DEF Files, Modes, Option
  <2>3. DOMAIN call = DOMAIN NoCall
    BY <2>1, NoCallTyped DEF TypeInv, Calls
  <2>4. call.step \in {"idle", "look", "chunks", "set", "fill", "returned"}
        /\ call.result \in {"pending", "ok", "failed", "refused"}
    BY <2>1 DEF TypeInv, Calls
  <2> QED BY <2>1, <2>2, <2>3, <2>4 DEF TypeInv, StepInv, TypeOK, Byte
<1> QED BY <1>1, Always, PTL

\* Reads of any length are exact (fs.read of both mounts): they stop early only
\* at the end of the file, however little the provider answers at once.
THEOREM ReadsAlwaysExact == Spec => []ReadsExact
<1>1. IInv => ReadsExact
  <2> SUFFICES ASSUME IInv, Ok("read") PROVE
        /\ \A i \in DOMAIN call.answer : call.answer[i] = file.bytes[call.offset + i]
        /\ Len(call.answer) < call.length =>
             call.offset + Len(call.answer) >= Len(start.bytes)
    BY DEF ReadsExact
  <2>1. call.op = "read" /\ call.result = "ok"
    BY DEF Ok, Done
  <2>2. /\ Len(call.answer) = call.done
        /\ \A i \in 1 .. call.done : call.answer[i] = file.bytes[call.offset + i]
        /\ Len(start.bytes) <= Size
        /\ call.done = call.length \/ call.offset + call.done >= Size
    BY <2>1 DEF IInv, ReadInv
  <2>3. /\ DOMAIN call.answer = 1 .. Len(call.answer)
        /\ call.done \in Nat /\ call.length \in Nat /\ call.offset \in Nat
        /\ Size \in Nat /\ Len(start.bytes) \in Nat
    BY BytesAre DEF IInv, TypeInv, Calls, Files, Size
  <2> QED BY <2>2, <2>3
<1> QED BY <1>1, Always, PTL

\* Writes of any length, in chunks of any size, put a first part of their buffer
\* in its place and leave all else as it was; and a resize keeps what it should.
THEOREM WritesAlwaysInPlace == Spec => []WritesInPlace
<1>1. IInv => WritesInPlace
  <2> SUFFICES ASSUME IInv PROVE WritesInPlace
    OBVIOUS
  <2> DEFINE new  == {i \in DOMAIN file.bytes : file.bytes[i][1] = "new"}
             upto == call.offset + call.length
             Promise ==
               /\ \E k \in call.done .. call.length :
                    /\ new = call.offset + 1 .. call.offset + k
                    /\ call.result = "ok" => k = call.length
               /\ \A i \in new : file.bytes[i] = New(i - call.offset)
               /\ \A i \in DOMAIN start.bytes :
                    i \notin new => i \in DOMAIN file.bytes /\ file.bytes[i] = Old(i)
               /\ call.eof => \A i \in DOMAIN start.bytes : i \notin new
               /\ call.constrained => \A i \in new : i <= call.found
  <2>0. /\ call \in Calls /\ call.done \in Nat /\ call.length \in Nat /\ call.offset \in Nat
        /\ call.size \in Nat /\ call.found \in Nat /\ Size \in Nat /\ Len(start.bytes) \in Nat
        /\ DOMAIN file.bytes = 1 .. Size /\ DOMAIN start.bytes = 1 .. Len(start.bytes)
    BY BytesAre DEF IInv, TypeInv, Calls, Files, Size
  <2>1. ASSUME Done("write") PROVE Promise
    <3>1. PICK k \in call.done .. call.length :
            /\ Landed(file, start, call, k) /\ Allowed(start, call, k)
            /\ call.result = "ok" => k = call.length
      BY <2>1 DEF IInv, WriteInv, Done
    <3> DEFINE I == call.offset + 1 .. call.offset + k
    <3>2. /\ \A i \in 1 .. Size : file.bytes[i][1] = "new" <=> i \in I
          /\ \A i \in I : i \in 1 .. Size /\ file.bytes[i] = New(i - call.offset)
          /\ Len(start.bytes) <= Size
          /\ \A i \in 1 .. Len(start.bytes) : i \notin I => file.bytes[i] = Old(i)
      BY <2>0, <3>1 DEF Landed, Size
    <3>3. new = I
      BY <2>0, <3>2
    <3>4. k \in Nat
      BY <2>0
    <3>5. call.eof => \A i \in 1 .. Len(start.bytes) : i \notin I
      BY <2>0, <3>1, <3>4 DEF Allowed
    <3>6. call.constrained => \A i \in I : i <= call.found
      BY <2>0, <3>1, <3>4 DEF Allowed
    <3>7. \A i \in 1 .. Len(start.bytes) : i \in 1 .. Size
      BY <2>0, <3>2
    <3>8. \E j \in call.done .. call.length :
            /\ new = call.offset + 1 .. call.offset + j
            /\ call.result = "ok" => j = call.length
      BY <3>1, <3>3
    <3> HIDE DEF new, I
    <3> QED BY <2>0, <3>2, <3>3, <3>5, <3>6, <3>7, <3>8
  <2>2. ASSUME Ok("resize")
        PROVE  /\ \A i \in DOMAIN start.bytes :
                    i <= call.size => i \in DOMAIN file.bytes /\ file.bytes[i] = Old(i)
               /\ call.allocation => \A i \in DOMAIN file.bytes : file.bytes[i] # Zero
    BY <2>2 DEF IInv, SizeInv, KeptTo, NoZero, Ok, Done
  <2> QED BY <2>1, <2>2 DEF WritesInPlace
<1> QED BY <1>1, Always, PTL

\* A callback that refuses a request of any attributes, times or owner has
\* changed nothing (set_basic_info, overwrite, setattr).
THEOREM RefusedNeverChanges == Spec => []RefusedChangesNothing
<1>1. IInv => RefusedChangesNothing
  BY DEF IInv, QuietInv, RefusedChangesNothing
<1> QED BY <1>1, Always, PTL

\* Whatever the attributes that applications ask for and however requests fail,
\* the mode stays as granted but for its write bits, and read-only shows
\* (attributes, permissions).
THEOREM OnlyOwnerEverWrites == Spec => []OnlyOwnerWrite
<1>1. IInv => OnlyOwnerWrite
  <2> SUFFICES ASSUME IInv PROVE OnlyOwnerWrite
    OBVIOUS
  <2>1. Tame(file.mode)
    BY DEF IInv, ModeInv
  <2>2. ASSUME NEW op \in {"basic", "create", "overwrite"}, Ok(op), call.attributes # Keep
        PROVE  "readonly" \in Attributes(file)
                 <=> \/ "readonly" \in call.attributes
                     \/ op = "overwrite" /\ ~call.replace /\ "readonly" \in Attributes(start)
    <3>1. call.op = op /\ call.op \in LookingOps /\ call.result = "ok"
      BY <2>2 DEF Ok, Done, LookingOps
    <3> QED BY <2>2, <3>1 DEF IInv, ShownInv, Wanted
  <2> QED BY <2>1, <2>2 DEF Tame, OnlyOwnerWrite
<1> QED BY <1>1, Always, PTL

\* Division rounds down, and takes a multiple back.
LEMMA Rounding ==
  ASSUME NEW n \in Nat, NEW d \in Nat \ {0}
  PROVE  /\ n \div d \in Nat
         /\ (n \div d) * d <= n /\ n < (n \div d) * d + d
         /\ (n * d) \div d = n
BY Z3

\* For any epoch, ticks and limits: a modification time that was set reads back
\* rounded down, one that was not asked for stays, and a time is shown as itself
\* or not at all (filetime, unix_seconds).
THEOREM TimesAlwaysKept == Spec => []TimesKept
<1>1. IInv => TimesKept
  <2> SUFFICES ASSUME IInv PROVE TimesKept
    OBVIOUS
  <2>0. {Epoch, Ticks, MaxTime, MaxWord} \subseteq Nat \ {0} /\ Epoch < MaxTime /\ MaxTime < MaxWord
    BY TimeAssumption
  <2>1. ASSUME Ok("basic"), call.modified # 0
        PROVE  /\ FileTime(file.modified) <= call.modified
               /\ call.modified < FileTime(file.modified) + Ticks
    <3> DEFINE n == call.modified - Epoch
               s == n \div Ticks
    <3>1. call.op = "basic" /\ call.result = "ok"
      BY <2>1 DEF Ok, Done
    <3>2. call.modified \in Epoch .. MaxTime
      BY <2>1, <3>1 DEF IInv, StepInv, Shown
    <3>3. n \in Nat
      BY <2>0, <3>2
    <3>4. file.modified = {s}
      BY <2>1, <3>1 DEF IInv, ModifiedInv, UnixSeconds
    <3>5. s \in Nat /\ s * Ticks <= n /\ n < s * Ticks + Ticks
      BY <2>0, <3>3, Rounding
    <3> DEFINE p == s * Ticks
    <3>6. p \in Nat
      BY <2>0, <3>5
    <3>7. Known(file.modified) /\ Value(file.modified) = s
      BY <3>4, ValueOne
    <3>8. p <= MaxWord /\ p + Epoch <= MaxTime
      <4> HIDE DEF p, s
      <4>1. p <= n
        BY <3>5 DEF p
      <4> QED BY <2>0, <3>2, <3>3, <3>6, <4>1
    <3>9. FileTime(file.modified) = p + Epoch
      BY <3>7, <3>8 DEF FileTime
    <3>10. p <= n /\ n < p + Ticks
      BY <3>5
    <3> HIDE DEF p, s
    <3> QED BY <2>0, <3>2, <3>3, <3>6, <3>9, <3>10
  <2>2. ASSUME Ok("basic"), call.modified = 0 PROVE file.modified = start.modified
    BY <2>2 DEF IInv, ModifiedInv, Ok, Done
  <2>3. ASSUME FileTime(file.modified) # 0
        PROVE  UnixSeconds(FileTime(file.modified)) = file.modified
    <3>1. Known(file.modified)
      BY <2>3 DEF FileTime
    <3>2. PICK s \in Nat : file.modified = {s}
      BY <3>1 DEF IInv, TypeInv, Files, Option, Known
    <3> DEFINE p == s * Ticks
    <3>3. FileTime(file.modified) = p + Epoch
      BY <2>3, <3>2, ValueOne DEF FileTime
    <3>4. p \in Nat /\ p \div Ticks = s
      BY <2>0, Rounding
    <3> HIDE DEF p
    <3>5. (p + Epoch) - Epoch = p /\ p + Epoch # 0
      BY <2>0, <3>4
    <3>6. UnixSeconds(p + Epoch) = {s}
      BY <3>4, <3>5 DEF UnixSeconds
    <3> QED BY <3>2, <3>3, <3>6
  <2> QED BY <2>1, <2>2, <2>3 DEF TimesKept
<1> QED BY <1>1, Always, PTL
=============================================================================
