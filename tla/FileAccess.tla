----------------------------- MODULE FileAccess -----------------------------
(***************************************************************************)
(* Reading, writing and changing the metadata of one remote file, or the   *)
(* metadata of a directory: the callbacks of src/windows.rs and            *)
(* src/fuse.rs that make several requests, and what Server::dispatch has   *)
(* the provider do.                                                        *)
(*                                                                         *)
(* A callback takes one step per request; each request may fail, a write   *)
(* or an update after it did a part of its work.  Between the steps other  *)
(* clients append to the file.  Callbacks of one mount come one by one.    *)
(*                                                                         *)
(* Bytes are told apart by where they come from.  Bounds: a behaviour is   *)
(* about the contents or about the metadata (focus), and files are short.  *)
(***************************************************************************)
EXTENDS WindowsAttributes, Sequences, FiniteSetsExt

CONSTANTS
  Chunk,        (* MOUNT_IO_CHUNK                                          *)
  MaxSize,      (* bound: bytes in the file when a callback begins         *)
  MaxBuffer,    (* bound: bytes read or written by a callback              *)
  Times,        (* FILETIMEs that an application may ask for               *)
  Attempts      (* attributes that an application may ask for              *)

ASSUME AccessAssumption ==
  /\ Chunk \in Nat \ {0}
  /\ {MaxSize, MaxBuffer} \cup Times \subseteq Nat
  /\ Attempts \subseteq SUBSET Flags

VARIABLES
  mount,        (* "windows" or "fuse"                                     *)
  focus,        (* what the behaviour is about: "contents" or "metadata"   *)
  writable,     (* FsCapabilities.writable                                 *)
  file,         (* the remote file                                         *)
  call,         (* the callback: its arguments, variables and result       *)
  start,        (* history: the file when the callback began               *)
  granted       (* history: the mode as created or set by a chmod          *)

vars == <<mount, focus, writable, file, call, start, granted>>

Old(i) == <<"old", i>>
New(i) == <<"new", i>>
Other  == <<"other", 0>>
Zero   == <<"zero", 0>>

Size   == Len(file.bytes)

\* FsSetMetadata.
NoChange == [size |-> {}, mode |-> {}, modified |-> {}, accessed |-> {}]

NoCall == [op |-> "none", step |-> "idle", result |-> "pending",
           offset |-> 0, length |-> 0, eof |-> FALSE, constrained |-> FALSE,
           done |-> 0, found |-> 0, answer |-> <<>>, size |-> 0, allocation |-> FALSE,
           attributes |-> Keep, replace |-> FALSE, modified |-> 0, accessed |-> 0,
           request |-> NoChange]

TypeOK ==
  /\ mount \in {"windows", "fuse"} /\ focus \in {"contents", "metadata"}
  /\ writable \in BOOLEAN
  /\ \A f \in {file, start} :
       /\ f.kind \in {"file", "directory"}
       /\ f.bytes \in Seq({"old", "new", "other", "zero"} \X Nat)
       /\ f.mode \subseteq SUBSET ModeBits
       /\ f.modified \cup f.accessed \subseteq Nat
  /\ DOMAIN call = DOMAIN NoCall
  /\ call.step \in {"idle", "look", "chunks", "set", "fill", "returned"}
  /\ call.result \in {"pending", "ok", "failed", "refused"}
  /\ call.done <= call.length

Marked(f) == [f EXCEPT !.bytes = [i \in DOMAIN f.bytes |-> Old(i)]]

Init ==
  /\ mount \in {"windows", "fuse"} /\ focus \in {"contents", "metadata"}
  /\ writable \in BOOLEAN
  /\ file \in [kind : {"file", "directory"}, bytes : {[i \in 1 .. n |-> Old(i)] : n \in 0 .. MaxSize},
               mode : {{}} \cup {{m} : m \in SUBSET ModeBits},
               modified : {{}, {0}, {MaxTime}}, accessed : {{}, {0}}]
  /\ focus = "contents" =>
       writable /\ file.kind = "file" /\ file.mode = {} /\ file.modified = {} /\ file.accessed = {}
  /\ focus = "metadata" => Size = IF file.kind = "file" THEN 1 ELSE 0
  /\ file.kind = "directory" => file.mode = {}
  /\ call = NoCall
  /\ start = file
  /\ granted = file.mode

(***************************************************************************)
(* Callbacks begin, fail and return.                                       *)
(***************************************************************************)
Begin(c) ==
  /\ call.step = "idle"
  /\ call' = c
  /\ UNCHANGED <<mount, focus, writable, file, start, granted>>

Returned(c, result) == [c EXCEPT !.step = "returned", !.result = result]
Return(result)      == call' = Returned(call, result)
Fails               == Return("failed") /\ UNCHANGED file
Aside               == UNCHANGED <<mount, focus, writable, start, granted>>

\* The application has its reply.  The history starts again from the file as it is.
Reply ==
  /\ call.step = "returned"
  /\ call' = NoCall
  /\ file' = Marked(file)
  /\ start' = file'
  /\ UNCHANGED <<mount, focus, writable, granted>>

Contents == focus = "contents" /\ Size <= MaxSize

Read(offset, length) ==
  /\ Contents
  /\ Begin([NoCall EXCEPT !.op = "read", !.step = "chunks", !.result = "pending",
                          !.offset = offset, !.length = length])

\* A Windows write asks for the size first.
Write(offset, length, eof, constrained) ==
  /\ Contents
  /\ mount = "fuse" => ~eof /\ ~constrained
  /\ Begin([NoCall EXCEPT !.op = "write", !.result = "pending",
                          !.step = IF mount = "windows" THEN "look" ELSE "chunks",
                          !.offset = offset, !.length = length,
                          !.eof = eof, !.constrained = constrained])

\* set_file_size; over FUSE, setattr.
SetSize(size, allocation) ==
  /\ focus = "contents"
  /\ mount = "fuse" => ~allocation
  /\ Begin([NoCall EXCEPT !.op = "resize", !.result = "pending",
                          !.step = IF allocation THEN "look" ELSE "set",
                          !.size = size, !.allocation = allocation,
                          !.request.size = {size}])

\* overwrite; archive is dropped before it looks.
Overwrite(attributes, replace) ==
  /\ focus = "metadata" /\ mount = "windows" /\ file.kind = "file"
  /\ Begin(LET c == [NoCall EXCEPT !.op = "overwrite", !.step = "look", !.result = "pending",
                       !.attributes = CreationAttributes(attributes), !.replace = replace]
           IN  IF writable THEN c ELSE Returned(c, "refused"))

\* set_basic_info.  A change time is omitted if it comes with another one.
SetBasicInfo(attributes, created, accessed, modified, changed) ==
  /\ focus = "metadata" /\ mount = "windows"
  /\ Begin(LET omitted == changed # 0 /\ (accessed # 0 \/ modified # 0)
               c == [NoCall EXCEPT !.op = "basic", !.step = "look", !.result = "pending",
                       !.attributes = attributes, !.modified = modified, !.accessed = accessed]
           IN  IF \/ UnsupportedTimes(created, IF omitted THEN 0 ELSE changed)
                  \/ TimeRefused(accessed) \/ TimeRefused(modified)
                 THEN Returned(c, "refused") ELSE c)

\* create: the file is new, with a mode of the server's choice.
Create(attributes, mode) ==
  /\ focus = "metadata" /\ mount = "windows"
  /\ call.step = "idle" /\ file.kind = "file"
  /\ writable /\ ~CreationRefused(attributes, FALSE)
  /\ file' = [kind |-> "file", bytes |-> <<>>, mode |-> mode, modified |-> {0}, accessed |-> {0}]
  /\ start' = file'
  /\ granted' = mode
  /\ call' = [NoCall EXCEPT !.op = "create", !.step = "look", !.result = "pending",
                            !.attributes = CreationAttributes(attributes)]
  /\ UNCHANGED <<mount, focus, writable>>

\* setattr: an owner that is not the user's is refused; a time before 1970 is
\* no time at all (seconds).
SetAttr(owned, mode, modified) ==
  /\ focus = "metadata" /\ mount = "fuse"
  /\ Begin(LET c == [NoCall EXCEPT !.op = "setattr", !.step = "set", !.result = "pending",
                       !.request.mode = mode, !.request.modified = modified]
           IN  IF owned THEN c ELSE Returned(c, "refused"))

(***************************************************************************)
(* The loops of read and write.                                            *)
(***************************************************************************)
NextLength == Min({call.length - call.done, Chunk})
Place      == call.offset + call.done

\* The provider gives some of what is there, and nothing only at the end.
Given == {k \in 0 .. NextLength : IF Place >= Size THEN k = 0
                                                   ELSE k > 0 /\ k <= Size - Place}
Received(k) == [call EXCEPT !.answer = @ \o SubSeq(file.bytes, Place + 1, Place + k),
                            !.done = @ + k]

\* Fault: a short reply is taken for the end.
ReadChunkShort ==
  /\ call.op = "read" /\ call.step = "chunks"
  /\ IF call.done = call.length THEN Return("ok")
     ELSE \/ Return("failed")
          \/ \E k \in Given : call' = IF k < NextLength THEN Returned(Received(k), "ok")
                                                        ELSE Received(k)
  /\ UNCHANGED file
  /\ Aside
ReadChunk ==
  /\ call.op = "read" /\ call.step = "chunks"
  /\ IF call.done = call.length THEN Return("ok")
     ELSE \/ Return("failed")
          \/ \E k \in Given : call' = IF k = 0 THEN Returned(call, "ok") ELSE Received(k)
  /\ UNCHANGED file
  /\ Aside

\* Fault: the room left is counted from the start of the file.
WriteLengthFromStart(offset) == IF call.constrained THEN Min({call.length, Size}) ELSE call.length
WriteLength(offset) ==
  IF call.constrained THEN Min({call.length, Max({Size - offset, 0})}) ELSE call.length

\* The metadata that a Windows write begins with.
WriteLook ==
  /\ call.op = "write" /\ call.step = "look"
  /\ \/ LET offset == IF call.eof THEN Size ELSE call.offset
        IN  /\ call' = [call EXCEPT !.step = "chunks", !.found = Size, !.offset = offset,
                                    !.length = WriteLength(offset)]
            /\ UNCHANGED file
     \/ Fails
  /\ Aside

\* k bytes of the buffer in their place; a gap before them is filled.
Written(k) ==
  [i \in 1 .. IF k = 0 THEN Size ELSE Max({Size, Place + k}) |->
     IF i \in Place + 1 .. Place + k THEN New(i - call.offset)
     ELSE IF i <= Size THEN file.bytes[i] ELSE Zero]

\* Server::dispatch acknowledges a write that the provider has done; one that
\* fails may have done a part of it.
WriteChunk ==
  /\ call.op = "write" /\ call.step = "chunks" /\ call.done < call.length
  /\ \/ /\ file' = [file EXCEPT !.bytes = Written(NextLength)]
        /\ call' = [call EXCEPT !.done = @ + NextLength]
     \/ /\ \E k \in 0 .. NextLength : file' = [file EXCEPT !.bytes = Written(k)]
        /\ Return("failed")
  /\ Aside

\* The metadata that a Windows write ends with may fail, after the write.
WriteEnd ==
  /\ call.op = "write" /\ call.step = "chunks" /\ call.done = call.length
  /\ Return("ok") \/ (mount = "windows" /\ Return("failed"))
  /\ UNCHANGED file
  /\ Aside

(***************************************************************************)
(* The metadata callbacks look, set and look again.                        *)
(***************************************************************************)
Requested ==
  IF call.op = "overwrite" /\ ~call.replace THEN call.attributes \cup Attributes(file)
                                            ELSE call.attributes
Refused == \/ call.op = "overwrite" /\ CreationRefused(call.attributes, FALSE)
           \/ PermissionsRefused(file, Requested)
Asked   == [size     |-> IF call.op = "overwrite" THEN {0} ELSE {},
            mode     |-> Permissions(file, Requested),
            modified |-> UnixSeconds(call.modified),
            accessed |-> UnixSeconds(call.accessed)]

Validated ==
  IF Refused \/ (Asked # NoChange /\ ~writable)
    THEN Returned(call, "refused")
    ELSE [call EXCEPT !.request = Asked, !.step = IF Asked = NoChange THEN "fill" ELSE "set"]

\* Everything is validated before anything is set.
Look ==
  /\ call.op \in {"basic", "create"} /\ call.step = "look"
  /\ call' = Validated \/ Return("failed")
  /\ UNCHANGED file
  /\ Aside

\* Fault: an overwrite truncates before it has validated the attributes.
LookTruncating ==
  /\ call.op = "overwrite" /\ call.step = "look"
  /\ file' = [file EXCEPT !.bytes = <<>>]
  /\ call' = Validated
  /\ Aside
LookOverwrite ==
  /\ call.op = "overwrite" /\ call.step = "look"
  /\ call' = Validated \/ Return("failed")
  /\ UNCHANGED file
  /\ Aside

\* An allocation size only ever shortens the file.
LookSize ==
  /\ call.op = "resize" /\ call.step = "look"
  /\ \/ /\ call' = [call EXCEPT !.step = IF call.size < Size THEN "set" ELSE "fill"]
        /\ UNCHANGED file
     \/ Fails
  /\ Aside

Resized(n) == [i \in 1 .. n |-> IF i <= Size THEN file.bytes[i] ELSE Zero]
Applied(request) ==
  [file EXCEPT !.bytes = IF Known(request.size) THEN Resized(Value(request.size)) ELSE @,
               !.mode = Update(@, request.mode),
               !.modified = Update(@, request.modified),
               !.accessed = Update(@, request.accessed)]
Parts(request) == [size : {{}, request.size}, mode : {{}, request.mode},
                   modified : {{}, request.modified}, accessed : {{}, request.accessed}]

\* SetFileMetadata, or SetMetadata without a handle: one that fails may have
\* done a part of it.
Set ==
  /\ call.step = "set"
  /\ \/ /\ file' = Applied(call.request)
        /\ call' = [call EXCEPT !.step = "fill"]
     \/ /\ \E part \in Parts(call.request) : file' = Applied(part)
        /\ Return("failed")
  /\ granted' = IF call.op = "setattr" THEN file'.mode ELSE granted
  /\ UNCHANGED <<mount, focus, writable, start>>

Fill ==
  /\ call.step = "fill"
  /\ Return("ok") \/ Return("failed")
  /\ UNCHANGED file
  /\ Aside

\* Another client appends to the file.
OthersAppend ==
  /\ focus = "contents" /\ call.step \notin {"idle", "returned"}
  /\ Size <= MaxSize
  /\ file' = [file EXCEPT !.bytes = Append(@, Other)]
  /\ UNCHANGED call
  /\ Aside

Next ==
  \/ \E offset \in 0 .. MaxSize, length \in 1 .. MaxBuffer :
       \/ Read(offset, length)
       \/ \E eof, constrained \in BOOLEAN : Write(offset, length, eof, constrained)
  \/ \E size \in 0 .. MaxSize, allocation \in BOOLEAN : SetSize(size, allocation)
  \/ \E attributes \in Attempts :
       \/ \E replace \in BOOLEAN : Overwrite(attributes, replace)
       \/ \E mode \in {{}, {{}}, {ModeBits \ Special}} : Create(attributes, mode)
       \/ \E created, changed \in {0, Epoch}, accessed \in {0, Epoch}, modified \in Times :
            SetBasicInfo(attributes, created, accessed, modified, changed)
  \/ \E owned \in BOOLEAN, mode \in {{}, {{}}, {ModeBits}}, modified \in {{}, {1}} :
       SetAttr(owned, mode, modified)
  \/ ReadChunk \/ WriteLook \/ WriteChunk \/ WriteEnd
  \/ Look \/ LookOverwrite \/ LookSize \/ Set \/ Fill
  \/ Reply \/ OthersAppend

Spec == Init /\ [][Next]_vars

(***************************************************************************)
(* Properties.                                                             *)
(***************************************************************************)
Done(op) == call.op = op /\ call.step = "returned"
Ok(op)   == Done(op) /\ call.result = "ok"

\* A read that succeeds returns the bytes from its offset on, without a gap,
\* and ends early only at the end of the file, though the provider answers a
\* request with less than was asked for and the file grows.
ReadsExact ==
  Ok("read") =>
    /\ \A i \in DOMAIN call.answer : call.answer[i] = file.bytes[call.offset + i]
    /\ Len(call.answer) < call.length => call.offset + Len(call.answer) >= Len(start.bytes)

\* A write puts its buffer where it was asked to: all of it if it succeeds, and
\* some first part of it if it fails, the acknowledged chunks at least; nothing
\* that was in the file outside of that place, or that an append found there,
\* is changed; and a constrained one does not make the file longer.  Setting a
\* size keeps what is below it, and an allocation size never adds to the file.
WritesInPlace ==
  /\ Done("write") =>
       LET new  == {i \in DOMAIN file.bytes : file.bytes[i][1] = "new"}
           upto == call.offset + call.length
       IN  /\ \E k \in call.done .. call.length :
                /\ new = call.offset + 1 .. call.offset + k
                /\ call.result = "ok" => k = call.length
           /\ \A i \in new : file.bytes[i] = New(i - call.offset)
           /\ \A i \in DOMAIN start.bytes :
                i \notin new => i \in DOMAIN file.bytes /\ file.bytes[i] = Old(i)
           /\ call.eof => \A i \in DOMAIN start.bytes : i \notin new
           /\ call.constrained => \A i \in new : i <= call.found
  /\ Ok("resize") =>
       /\ \A i \in DOMAIN start.bytes :
            i <= call.size => i \in DOMAIN file.bytes /\ file.bytes[i] = Old(i)
       /\ call.allocation => \A i \in DOMAIN file.bytes : file.bytes[i] # Zero

\* A callback that refuses what it is asked for (unsupported attributes, times
\* or owners, a read-only mount) has not changed any part of the file.
RefusedChangesNothing ==
  call.step = "returned" /\ call.result = "refused" => file = start

\* Whatever applications do to the attributes of a file, in any order and with
\* requests that fail midway, only its write bits change: group and others never
\* get a bit that they did not have, special bits stay.  And a request that
\* succeeded shows: read-only is set or clear as it was asked for.
OnlyOwnerWrite ==
  /\ Known(granted) = Known(file.mode)
  /\ Known(granted) =>
       /\ Value(file.mode) \ WriteBits = Value(granted) \ WriteBits
       /\ Value(file.mode) \cap WriteBits \subseteq Value(granted) \cup {"owner-writes"}
  /\ \A op \in {"basic", "create", "overwrite"} :
       Ok(op) /\ call.attributes # Keep =>
         "readonly" \in Attributes(file)
           <=> \/ "readonly" \in call.attributes
               \/ op = "overwrite" /\ ~call.replace /\ "readonly" \in Attributes(start)

\* A modification time that was set is read back rounded down to the second, and
\* one that was not asked for stays, also when a change time was omitted.  What
\* is shown to Windows is the remote time or nothing.
TimesKept ==
  /\ Ok("basic") =>
       IF call.modified = 0 THEN file.modified = start.modified
       ELSE /\ FileTime(file.modified) <= call.modified
            /\ call.modified < FileTime(file.modified) + Ticks
  /\ FileTime(file.modified) # 0 => UnixSeconds(FileTime(file.modified)) = file.modified
==============================================================================
