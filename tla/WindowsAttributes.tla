-------------------------- MODULE WindowsAttributes --------------------------
(***************************************************************************)
(* What Windows sees of a remote file's permissions and times, and what it *)
(* may ask of them: src/windows_attributes.rs and src/windows_times.rs.    *)
(*                                                                         *)
(* A bit mask is the set of its bits.  The times keep their arithmetic     *)
(* with smaller constants.                                                 *)
(***************************************************************************)
EXTENDS Integers

CONSTANTS
  Epoch,        (* EPOCH: 1970 as a FILETIME                               *)
  Ticks,        (* TICKS_PER_SECOND                                        *)
  MaxTime,      (* i64::MAX, the last FILETIME                             *)
  MaxWord       (* u64::MAX                                                *)

ASSUME TimeAssumption ==
  /\ {Epoch, Ticks, MaxTime, MaxWord} \subseteq Nat \ {0}
  /\ Epoch < MaxTime /\ MaxTime < MaxWord

\* Mode bits: readable by the owner, writable by three, and 0o7000.
WriteBits == {"owner-writes", "group-writes", "others-write"}   \* 0o222
Special   == {"special"}
ModeBits  == {"owner-reads"} \cup WriteBits \cup Special

\* File attributes; hidden stands for every one that is not supported.
Supported == {"readonly", "directory", "normal"}
Flags     == Supported \cup {"archive", "hidden"}
Keep      == Flags              \* INVALID_FILE_ATTRIBUTES: all bits are set

\* Metadata: kind, the mode as an option, and times as options.  An option is a
\* set of at most one value.
Known(option)      == option # {}
Value(option)      == CHOOSE v \in option : TRUE
Update(old, option) == IF Known(option) THEN option ELSE old

(***************************************************************************)
(* Attributes.                                                             *)
(***************************************************************************)
Attributes(meta) ==
  IF meta.kind = "directory" THEN {"directory"}
  ELSE IF meta.kind = "file" /\ Known(meta.mode) /\ Value(meta.mode) \cap WriteBits = {}
    THEN {"readonly"} ELSE {"normal"}

\* creation_attributes: what is left to be set, and whether it is refused.
CreationAttributes(requested)         == requested \ {"archive"}
CreationRefused(requested, directory) ==
  \/ ~(CreationAttributes(requested) \subseteq Supported)
  \/ directory /\ "readonly" \in requested

\* permissions: the request is refused ...
Toggles(meta, requested) ==
  /\ requested # Keep /\ meta.kind = "file"
  /\ ("readonly" \in requested) # ("readonly" \in Attributes(meta))
PermissionsRefused(meta, requested) ==
  /\ requested # Keep
  /\ \/ ~(requested \subseteq Supported)
     \/ meta.kind # "file" /\ "readonly" \in requested
     \/ Toggles(meta, requested) /\ (Known(meta.mode) => Value(meta.mode) \cap Special # {})

\* ... or it asks for this mode, or for none.
\* Fault: clearing read-only restores every write bit.
PermissionsForAll(meta, requested) ==
  IF ~Toggles(meta, requested) THEN {}
  ELSE {IF "readonly" \in requested THEN Value(meta.mode) \ WriteBits
                                    ELSE Value(meta.mode) \cup WriteBits}
Permissions(meta, requested) ==
  IF ~Toggles(meta, requested) THEN {}
  ELSE {IF "readonly" \in requested THEN Value(meta.mode) \ WriteBits
                                    ELSE Value(meta.mode) \cup {"owner-writes"}}

(***************************************************************************)
(* Times.                                                                  *)
(***************************************************************************)
\* filetime: zero is unavailable, also when the multiplication or the addition
\* overflows or the sum is no FILETIME.
FileTime(seconds) ==
  IF /\ Known(seconds)
     /\ Value(seconds) * Ticks <= MaxWord
     /\ Value(seconds) * Ticks + Epoch <= MaxTime
    THEN Value(seconds) * Ticks + Epoch ELSE 0

\* unix_seconds: zero leaves the time alone.
TimeRefused(time) == time # 0 /\ time \notin Epoch .. MaxTime
\* Fault: it rounds to the next second.
UnixSecondsRounded(time) == IF time = 0 THEN {} ELSE {(time - Epoch + Ticks - 1) \div Ticks}
UnixSeconds(time)        == IF time = 0 THEN {} ELSE {(time - Epoch) \div Ticks}

\* validate_unsupported_times.
UnsupportedTimes(created, changed) == created # 0 \/ changed # 0
==============================================================================
