# Verification of ShellCanvas DriveBridge

DriveBridge is the process that shows a remote filesystem of the ShellCanvas
desktop as a local drive: through WinFsp on Windows, through FUSE on Linux and
macOS. The desktop starts it with two inherited pipes and serves its requests;
the provider of the remote filesystem lives in the desktop. This directory holds
TLA+ models of the program, the TLC configurations that check them, and proofs
for TLAPS.

Paths in this file are relative to the repository (`src/…` is the bridge,
`vendor/filesystem-sdk/src/…` the SDK that both ends share).

## 1. The system

```
 applications ──▶ WinFsp / FUSE ──▶ callbacks (one thread) ─┐
                                                            ├─ Client (mutex, pipes) ══▶ Server::serve ──▶ provider
                    lifecycle thread, run(): poll, report ──┘                             │
                          │ mounts, unmounts, exits                                       ▼
                          └────────────────────────────────────────── BridgeControl ◀── desktop (detach)
```

| Part | State | Operations | What makes it correct |
|---|---|---|---|
| `BridgeControl` (`bridge_control.rs`) | phase, message, a pending detach | `request_detach`, `poll`, `report`, `fail`, `snapshot` | a directive is handed out once and only for a request; Detached is said only of a mount that is gone, and is final |
| `Client` (`wire.rs` 376–446) | mutex over the two pipe ends and a closed flag, next identity | `call` | each caller gets its own reply; after any failure nothing is sent again; the mutex always comes back |
| `Server` (`wire.rs` 137–374) | last identity, open files, open directory streams | `serve`, `dispatch`, `close` | requests act once and in order; nothing acts after a timeout; every handle is closed in the end |
| `MountGate` (`mount_gate.rs`) | count of guards, detaching flag | `enter`, drop, `begin_detach` | no file opens behind an accepted detach |
| Windows mount (`windows.rs`) | contexts with handles, guards and a directory cursor; the host | the WinFsp callbacks, `Drop for Context`, `run` | both sides agree on the open handles; a detach means nothing is open; a lost desktop ends the mount |
| Open handle registry (`windows_handles.rs`) | weak references to all contexts | register, rename, flush | paths of open contexts follow renames; a flush of the volume reaches every live writer and hides no failure |
| FUSE mount (`fuse.rs`) | open files and directories, session thread, unmount helper | the FUSE callbacks, `run` | the same, when helpers hang and others unmount |
| FUSE inode table (`fuse.rs` `State`) | nodes, paths, open files and directories | lookup, forget, release, and the table's part of create, mkdir, remove, rename | an inode names the object it was looked up as, for as long as the kernel refers to it and no longer |
| Directory cursors (`fuse.rs` 80–127, `windows.rs` 545–617) | handle, buffered entries, place | `readdir`, `read_directory` | replies continue exactly at the offset or marker |
| Reads, writes and metadata updates (both mounts) | none of their own: a callback makes several requests on one file | `read`, `write`, `set_file_size`, `overwrite`, `set_basic_info`; `read`, `write`, `setattr` | a success is the whole of what was asked for, a failure a first part of it, a refusal nothing |
| Attribute and time mapping (`windows_attributes.rs`, `windows_times.rs`) | none | `attributes`, `creation_attributes`, `permissions`, `filetime`, `unix_seconds` | no application widens who may do what with a remote file; times survive the round trip |
| Drive letters, path types, probe, CLI, scripts | none to speak of | queries, string work | – |

What is hard here: two threads share one pipe client whose `std::sync::Mutex` is
not fair; a detach decision races with opens, with callbacks that are under way
and with unmounts nobody asked for; every remote call may fail, and after a
timeout nobody knows whether it acted; the unmount helper may outlive its
deadline; RELEASE and FORGET arrive late and in any order; other clients edit the
remote tree; a cursor must survive failed calls, seeks and buffers of three
different sizes; a write, a metadata update or a flush of the volume makes several
requests and may fail at any of them. `PROJECT.json` lists these hazards line by line, with the
properties that cover each.

## 2. Modules

| Module | Models | Composition |
|---|---|---|
| `BridgeControl` | `bridge_control.rs`, one action per method (each holds the mutex throughout) | – |
| `Channel` | what a request/reply exchange promises to the code above it | abstract |
| `ChannelSpec` | `Channel` with arbitrary calls and answers | extends `Channel` |
| `Wire` | `Client::call` and `Server::serve` with frames, identities and the lock | implements `ChannelSpec` |
| `BridgeServer` | `Server::dispatch`: handle tables, Poll, Report; the end of `serve` | extends `BridgeControl`, `Channel` |
| `Attachment` | what an attachment promises to its user, on any system | abstract |
| `WindowsMount` | `windows.rs` callbacks and `run`, `mount_gate.rs`, `blocks_detach` | extends `BridgeServer`; implements `Attachment` |
| `FuseMount` | `fuse.rs` callbacks and `run` | extends `BridgeServer`; implements `Attachment` |
| `FuseInodes` | `State` in `fuse.rs`, the kernel's references, the remote tree | – |
| `OpenHandles` | `windows_handles.rs`, the contexts it refers to, the remote tree | – |
| `DirectoryServer` | directory streams and pages in `Server::dispatch` | – |
| `FuseDirectory` | `Directory::prepare` and `readdir` | extends `DirectoryServer` |
| `WindowsDirectory` | `read_directory` | extends `DirectoryServer` |
| `MCDirectories` | – | either of the two cursors, over the same streams |
| `WindowsAttributes` | `windows_attributes.rs`, `windows_times.rs` as operators | – |
| `FileAccess` | the callbacks of both mounts that make several requests on one file | extends `WindowsAttributes` |
| `WindowsMountProofs` | safety of `WindowsMount`; it implements `Attachment` | proofs |
| `FuseMountProofs` | safety of `FuseMount`; it implements `Attachment` | proofs |
| `OpenHandlesProofs` | safety of `OpenHandles` | proofs |
| `WireProofs` | safety of `Wire` | proofs |
| `WireRefinement` | `Wire` implements `ChannelSpec` | proofs |
| `FuseInodesProofs` | safety of `FuseInodes` | proofs |
| `DirectoriesProofs` | safety of both cursors, over the composition that TLC checks | proofs |
| `FileAccessProofs` | safety of `FileAccess` | proofs |
| other `MC…` | symmetry and small sets for the runs | – |

Definitions marked `Fault:` are not part of any specification. Each is a
plausible bug in the code beside it; `PROJECT.json` says for every checked
property which one breaks it.

### How the mounts are modelled

A callback is a sequence of *steps*, one per remote call, each of which sends its
request through `Channel` and goes on with the result: `Exchange` gives the
request of each step, and `Opening`, `Dropping`, `Operating`, `Scanning`
(Windows) or `SessionReturn` (FUSE) what follows. Between a request and its reply
the other thread, the server and the desktop move. WinFsp's coarse guard and
fuser's event loop run one callback at a time, so `step` and `current` are single
variables. A context or descriptor is a slot that can be opened, used, closed and
opened again; a remote handle is named by its slot and purpose, since identities
are never reused and only one exchange is open.

Successive calls of one callback that change nothing in the model (the chunks of
a read, or a metadata request before a write) are one step, "use". Arguments
(paths, data, access rights) are dropped where no property tells them apart;
which contexts can delete or set metadata is kept, because it decides which ones
block a detach.

`run` is `life`: negotiate, mount, report Ready, poll, and on a directive either
shut the gate, unmount and report, or report that the mount is busy. Any
unexpected reply while the mount is up leads to "lost", which tears it down; an
error before the mount, or after the unmount, ends the process directly.

The server answers each request with success or failure as it likes, may run
into its deadline, and may lose its pipe at any time; then it retires, tells
`BridgeControl`, empties its tables and drops the pipe ends.

### How the registry is modelled

The host is a `FileSystemHost` with `CoarseGuard` (`windows.rs:663`): WinFsp runs the
callbacks, `Drop for Context` among them, one at a time, and in `OpenHandles` each of
them is one step. `rename` moves the paths of exactly the contexts at or below what it
moved, and only once the provider has confirmed (`windows_handles.rs` 25–56). A reply
that is an error means that nothing was moved; only a request that was not answered in
time may have moved something, and then the transport is retired.

`flush` of the volume makes one request per writer, and is a loop of steps. Under the
guard no context changes between them, but the server may go away, and each request may
fail by itself. The lock of each descriptor, which `windows_handles.rs:57` keeps for the
duration of its flush, is a second line of defence against a close that the guard already
keeps out; it is never contended and is not modelled.

### How file access is modelled

A callback of `FileAccess` is one step per request. Each may fail; a write or an
update that fails may have done a part of its work. Between the steps other
clients append to the file, which is what the bridge's look at the size before a
write can miss. A byte is told apart by where it came from (old, new, appended,
zero), so that a chunk in the wrong place shows. A behaviour is about the
contents, or about mode and times (`focus`); both start from any small file. The
times keep their arithmetic with smaller constants, including the ends of the
range; a bit mask is the set of its bits.

### External code

These are assumptions about code outside the repository:

- WinFsp delivers callbacks one at a time (the coarse guard), refuses new ones
  once the mount point is gone, and `stop` waits for the one that runs.
- fuser handles one request at a time on one thread. Its session ends in order
  when the kernel unmounts, and may break.
- The kernel refuses an ordinary unmount while anything on the mount is in use,
  delivers RELEASE after `close` has returned, and drops what is undelivered when
  the mount goes away. It counts one reference per successful lookup, and forgets
  at most what it has.
- The provider lists an unchanged directory in the same order each time and adds
  new entries at the end. One entry always fits the buffer of the reader, unless its
  name is too long for `DirInfo::<255>`, which `set_name` refuses on Windows. Entries
  are created during listings over FUSE and deleted during listings over Windows.
- The provider acknowledges all of a write, or fails after a first part of it. It
  may read less than it was asked for, but nothing only at the end of the file. An
  update of metadata that fails may have changed some of what it was asked to.
- WinFsp refuses to rename onto a file that is open.
- Other clients append to a file that a callback works on; they do not overwrite or
  truncate it, after which no offset would mean what it did.
- The requests the mounts make are far below `MAX_FRAME`; `Wire` checks what
  happens to one that is not.

## 3. Runs

| Run | Question | Instance | Distinct states |
|---|---|---|---|
| `windows` | safety of the Windows mount, and that it implements `Attachment` | 2 contexts, symmetric | 167,865 |
| `windows_live` | liveness of the Windows mount | 1 context | 24,753 |
| `fuse` | safety of the FUSE mount, and that it implements `Attachment` | 2 slots, symmetric | 106,880 |
| `fuse_live` | liveness of the FUSE mount | 1 slot | 17,306 |
| `wire` | the exchange over the pipes, and that it implements `Channel` | 2 threads, 2 operations of which one is oversized, 4 calls | 41,373 |
| `inodes` | the inode table, alone on its tree or with other clients | 2 names, 2 levels, 3 objects, 2 handles, 4 inodes; with others 1 handle and 2 references per inode | 266,653 |
| `directories` | `readdir` over a directory that grows, `read_directory` over one that shrinks | 5 entries, the last with a name too long for Windows; batches of up to 3, pages of 2, 4 or 5 openings | 150,420 |
| `open_handles` | the registry: renames, writes and flushes of contexts that come and go | 2 contexts, 1 directory, 2 files, 2 names, 2 levels | 116,874 |
| `files` | reads, writes and metadata updates of both mounts | files of up to 4 bytes, buffers of up to 5, chunks of 2 | 553,711 |
| `windows_warnings`, `windows_restart`, `fuse_rewind` | disagreements, section 6 | – | – |

Safety, stated over several actors or steps:

- **Nothing is open behind an accepted detach** (`NothingOpenAtDetach`,
  `OnlyBrowsingAfterDetach`): neither a local guard nor a remote file handle, and
  only callbacks still run that browse a directory or look at a path.
- **Detached means gone** (`DetachedMeansGone`, both mounts): host or session has
  ended, nothing is open, and the process succeeds only if the desktop shows it.
  In `FuseMount` this holds even if the unmount was the user's or was done by a
  helper that had been given up.
- **Detach only on request** (`DetachOnlyOnRequest`, Windows): a directive is used once;
  after a refusal the mount stays until the desktop asks again.
- **Handles agree** (`HandlesAgree`): while the server serves, and between two
  calls of the callback thread, both sides have the same handles open, whichever
  calls failed. FUSE keeps handles past its session only for descriptors whose
  release was not delivered.
- **Reports are expected** (`ReportsExpected`, FUSE): `run` never reports an event in a
  phase that rejects it, which would tear the mount down.
- **The whole keeps its promise** (`KeepsPromise`): refinement of `Attachment`.
- **The exchange** (`FramesMatch`, `InOrderOnce`, `SuccessIsReal`,
  `TimedOutIsLast`, `ImplementsChannel`).
- **The inode table** (`KernelServed`, `PathsSound` with other clients;
  `PathsComplete`, `SameObject`, `DirsFollow` without them). The last three need
  the tree for themselves: an inode, and an open directory, can only name their
  object by path.
- **The registry** (`FlushHonest`): when a flush of the volume returns, whatever was
  written through an open descriptor is flushed, except through those whose own flush
  failed, wherever it failed or the server was lost; and it reports an error exactly if
  one of its calls failed. (`PathsFollow`): the path of an open context is where its object
  is, through renames of it, above it, and over other files, confirmed or failed.
- **Contents** (`ReadsExact`): a read returns the bytes from its offset on without a
  gap, and ends early only at the end of the file, whatever the provider hands
  over per request. (`WritesInPlace`): a write that fails has written a first part
  of its buffer, with at least the acknowledged chunks, where it was asked to; an
  append overwrites nothing that it found; a constrained write and an allocation
  size never make the file longer.
- **Metadata** (`RefusedChangesNothing`): what is refused has changed nothing.
  (`OnlyOwnerWrite`): no sequence of attribute changes over Windows gives group or
  others a bit they did not have, and a success shows in what is read back.
  (`TimesKept`): times survive the round trip to the second; out-of-range ones are
  shown as unknown and never written.
- **Cursors** (`RepliesExact`, `RepliesFollowMarker`, `HandleOwned`): a reply
  holds exactly the entries after its offset or marker, and the server keeps the
  one stream the cursor reads, or none.

Liveness: callbacks return; a detach request is answered; a mount that is gone is
noticed; a lost server ends the process; the server gets its handles back; the
client's lock comes back.

### Bounds

Every safety property below is also proved without these bounds (section 4). What
the bounds have to be large enough for is liveness, the disagreements, and finding
a wrong formula before a proof is tried.

- *Two contexts or slots.* The interference between contexts goes through the
  gate's count, the handle tables and the one callback that runs; two show a
  context that blocks a detach beside one that is opened, browsed or dropped.
  Liveness uses one: the
  threads contend in the same way, and symmetry reduction is unsound for it.
- *Two contexts, two levels of names* in `OpenHandles`: one context below the
  directory that is renamed, beside one elsewhere; and two writers, so that a flush has
  another one to go on to after the first has failed.
- *Files of four bytes, chunks of two, buffers of five* in `FileAccess`: three
  chunks per callback, so that the first, a middle or the last one fails, is short,
  or meets an append.
- *Four calls* in `Wire`: each thread can fail or time out and come back, with the
  other before, between and after it.
- *Four inodes, two levels, three objects*: a directory with an entry can be
  renamed over, or away and recreated, while an old inode of its path is still
  referenced. With other clients, `SharedLookups` allows two references to an inode,
  so that one that is known, stale or not, can be looked up or created again, and
  `SharedOpen` one handle in all; the other bounds are the same.
- *Five entries, pages of two, batches of up to three*: a batch spans pages, a
  page spans batches, and a seek may fail in the middle of a page. The entry that
  `set_name` refuses is the last, so that it is met in a page of its own, behind others,
  or not at all. Reopenings are
  bounded by `MaxOpens`, which suffices for every seek to fail once.
- Where a bound ends the behaviour (calls made, inodes given out, openings), or
  the process exits, the cfg does not check for deadlock.

### Fairness

- Weak fairness of both threads, the server and its retirement: threads run, and
  every wait of the server has a deadline (`wire.rs` 343–371).
- Weak fairness of the pipe's failure after the process has exited: its ends are
  closed then.
- Strong fairness of the callback thread's *sending*. The mutex is not fair, but
  the lifecycle thread sleeps for a second between two calls
  (`windows.rs` 689–707, `fuse.rs` 878–906), so the callback thread finds the
  mutex free again and again.
- The lifecycle thread has no such claim: callbacks may follow each other without
  a pause. `DetachResolves` is therefore stated for applications that become
  quiet, and says nothing otherwise.
- Applications, the desktop, pipe failures, the helper's success and other
  clients have no fairness.

## 4. Proofs

TLC finds out on a small instance whether a formula holds; TLAPS proves it for every
value of the constants, from the assumptions named in each part. A property is seldom
inductive as it stands. Each part below says which invariant carries it, and why the
weaker one would not do. The inductive invariants were themselves checked by TLC,
on the instances of §3 and with a bounded range where one quantifies over `Nat`.

### The Windows mount

`WindowsMountProofs` proves for every finite nonempty set of contexts, from
`DistinctAssumption` alone (the model values are distinct and the set of contexts is
finite):

| Theorem | Property |
|---|---|
| `TypeCorrect` | `TypeOK` |
| `NothingOpenAlways` | `NothingOpenAtDetach` |
| `OnlyBrowsingAlways` | `OnlyBrowsingAfterDetach` |
| `DetachedAlwaysGone` | `DetachedMeansGone` |
| `DetachAlwaysRequested` | `DetachOnlyOnRequest` |
| `HandlesAlwaysAgree` | `HandlesAgree` |
| `ReportsAlwaysExpected` | `ReportsExpected` |
| `ImplementsAttachment` | `KeepsPromise` |

The strengthening `IInv` has these parts:

- `ExchangeInv`: an open exchange is the one the calling thread's step makes, a
  reply waits only for a caller, a closed client means a stopped server, and a
  server past its retirement has empty tables. Without this an answer could be
  applied to another step.
- `GateInv`: the gate's count is the number of guards; none is left once the gate
  is shut; every context that blocks a detach or is being opened has one. This is
  what `CloseGate` rests on: a count of zero means that no guard is alive. It
  needs finite cardinalities, hence the finiteness of `Contexts`.
- `ContextInv`: only file contexts hold a file, and not at the steps before it is
  opened or after it is given up.
- `RemoteInv`: a file handle on the server is held by a context, or on its way to
  one whose open is not answered yet. With the two above, a file on the server
  implies a guard.
- `HostInv`: how the host, the gate and the step of `run` fit together; a host
  that is down or stopped has no callback.
- `DirectiveInv`: the directive that `run` has in hand was taken from the desktop
  and belongs to a request that is not answered yet.
- `OutcomeInv`: the phase is Detached only after the host has stopped behind a
  shut gate; success only after that was confirmed.

`HandlesAgree` speaks of the moments between two calls; in the middle of one the two
sides differ. A second invariant `HInv`, resting on the first, says how:

- `AgreeInv`: once the server has answered and the dispatcher has not taken the reply
  yet, the server has the handles that the contexts *will* have when it does; at any
  other time, the ones they have.
- `OwnedInv`: a handle has a context that lives, the stream that looks whether a
  directory is empty is closed before its callback returns, and a context that is
  opened or given up has no stream of the other kind.
- `ReportInv`: in which phases `run` can be about to report, or be waiting for an
  answer.

`ImplementsAttachment` uses `IInv` to map each step: the gate's closing is
*GiveUp*, the first guard *BeginUse*, the last one's drop *EndUse*, teardown
without a directive *TearDown*, and each report or failure of the control is the
change of status it makes; everything else stutters.

### The FUSE mount

`FuseMountProofs` proves for any nonempty set of descriptors, from `DistinctAssumption`
alone (the model values are distinct):

| Theorem | Property |
|---|---|
| `TypeCorrect` | `TypeOK` |
| `DetachedAlwaysGone` | `DetachedMeansGone` |
| `DetachAlwaysRequested` | `DetachOnlyOnRequest` |
| `HandlesAlwaysAgree` | `HandlesAgree` |
| `ReportsAlwaysExpected` | `ReportsExpected` |
| `ImplementsAttachment` | `KeepsPromise` |

There is no gate here: what keeps a mount in use from being detached is the kernel.
The parts of `IInv` follow that:

- `ExchangeInv`, `AgreeInv`: as above.
- `SessionInv`: the session has ended in order only after the mount was gone, and a
  mount that is gone has nothing in use. `run` reports Detached only after it has
  joined such a session, whoever unmounted.
- `SlotInv`: a handle belongs to a descriptor that is in use or whose release is still
  to come, which is what may be left over when the session ends.
- `PhaseInv`: which phases the desktop can be in at each step of `run`, before a report
  is answered and after. One phase is compatible with several steps, so this has to be
  said of the report that is under way and of the reply that waits.

### The registry

`OpenHandlesProofs` proves for any number of contexts, names, directories and
files, from `OpenHandlesAssumption` alone (no object is both a directory and a
file):

| Theorem | Property |
|---|---|
| `FlushAlwaysHonest` | `FlushHonest` |
| `PathsAlwaysFollow` | `PathsFollow` |

Both rest on `Shape`, the types with paths as sequences of any length. `FlushHonest`
is strengthened by `Owing`, which says of the middle of the loop: what is not flushed
is still to be looked at or has failed, every descriptor that is written through is a
writer, so that the loop does not pass it over, and an error is kept exactly if one has
failed. `PathsFollow` is strengthened by `Distinct`: two objects are never at one path. Without it a rename
would move the path of a context that is at the same path but has another object.
Its core is a lemma about paths: rebasing at a prefix agrees with the move of the
tree, and keeps different paths different if the target is not in use.

### The exchange over the pipes

`WireProofs` and `WireRefinement` prove for any threads, operations and number of
calls, from `WireAssumption` (oversized operations are operations; `None` is none of
the values it must differ from):

| Theorem | Property |
|---|---|
| `FramesAlwaysMatch` | `FramesMatch` |
| `AlwaysInOrderOnce` | `InOrderOnce` |
| `SuccessAlwaysReal` | `SuccessIsReal` |
| `TimedOutAlwaysLast` | `TimedOutIsLast` |
| `WireImplementsChannel` (in `WireRefinement`) | `ImplementsChannel` |

The inductive invariant `WireInv` has four parts:

- `Kinds`: types, and that a pipe holds at most one frame.
- `Locked`: exactly the holder of the client's lock is writing or reading, only on
  an open transport, and with the latest identity; while it writes, the server has
  not seen that identity.
- `Exchanged`: the one exchange is in one place (the request in its pipe or with
  the server, or the reply in its pipe) and belongs to the holder. What is left in
  a pipe after a failure is never read.
- `Recorded`: what the provider acted on, and that a success or a timeout that is
  decided, in the pipe or returned is true.

`WireImplementsChannel` maps the write of a frame to *Send*, the end of `dispatch`
to *Answer* or *AnswerTimedOut*, the reading of the reply to *Receive*, and a broken
pipe to *Break* and *Lose*; taking the lock, reading the request and writing the
reply stutter. It also needs `Named`: a call under way has one of the operations.
The mounts extend `Channel` and are thereby built on what `Wire` is shown to do.

### The inode table

`FuseInodesProofs` proves for any number of inodes, names, objects, handles and
references, with or without other clients, from `InodeAssumption` (the bounds, those
that hold only with other clients included, are numbers) and `NoneAssumption` (`None` is neither a path nor an entry):

| Theorem | Property |
|---|---|
| `PathsAlwaysSound` | `PathsSound` |
| `KernelAlwaysServed` | `KernelServed` |
| `PathsAlwaysComplete` | `PathsComplete` |
| `AlwaysSameObject` | `SameObject` |
| `DirsAlwaysFollow` | `DirsFollow` |

Paths keep the two levels of the model; nothing in the argument depends on them. The
inductive invariant `TableInv` has, beside the types, `SoundTable` (`PathsSound` with
types), `Counts` (a node has the kernel's references and the number of its handles;
an inode without a node has neither) and `InUseBut` (every node but the root has a
reference or a handle, so retiring a path takes no node with it). Counting handles
needs finite sets of them, which is part of the invariant. The loop of `rename` rests
on `RebaseBack`: what was moved can be moved back, so no two paths arrive at one
place, and on `SoundTable`: no two moved paths have the same node.

The last three properties hold only as long as nobody else edits the tree, and
`AloneInv` says what is true then: every node is found by its path (`Complete`), every
entry of the tree is in a directory (`Tree`), the entry at the path of a node is the
object it was looked up as (`Faithful`), and an open directory goes by the path of its
node (`DirsMatch`). They are
needed together. `rename` moves the nodes below a path exactly if their paths move,
because of `Complete` (`MoveAlone`); then `Faithful` and `DirsMatch` still hold, for the
tree moves the same entries. `Tree` says that nothing is left below an entry that is
removed or replaced, so no node keeps a path there.

### The directory cursors

`DirectoriesProofs` proves for directories, batches and pages of any size and any
number of reopenings, whatever names are too long for Windows, from `CursorAssumption`
(the bounds are numbers, a page is not empty):

| Theorem | Property |
|---|---|
| `RepliesAlwaysExact` | `RepliesExact` |
| `RepliesAlwaysFollow` | `RepliesFollowMarker` |
| `HandleAlwaysOwned` | `HandleOwned` |

Both cursors rest on one notion. `Placed(e, p, s, g)`: what the cursor has buffered
(`p`) follows the entry `e` without a gap but for deleted entries (`g`), what the
stream `s` has pending follows that, and the stream is at the last of them. Three
lemmas say what disturbs it: `Pages` (a page moves the border between the two),
`TakePlaced` (taking the first entry moves `e` to it) and `StillPlaced` (deletions do
not).

- `readdir` is placed at its offset. `FuseReply` adds how long the reply must be,
  given how far the cursor has come; that is why skipping and answering meet exactly
  at the offset that was asked for.
- `read_directory` may not know where it is: after a search, `last` is None.
  `WindowsPlace` says that there *is* an entry it is placed at: `last` if it has one,
  the marker at the start of a reply, and during a search one that is before the
  marker. With nothing left, a marker that was not met must have been deleted. What
  this cannot say is that a cursor without `last` is at the start of its stream, which
  is the disagreement `windows_restart` of section 6.

### Reads, writes and metadata updates

`FileAccessProofs` proves for files and buffers of any length, any size of a chunk,
any constants of the time conversion, and any attributes and times an application may
ask for, from `AccessAssumption` (a chunk is not empty, bounds and times are natural
numbers, attributes are sets of flags) and `TimeAssumption` (the epoch is before the
latest time, which is below the word's end):

| Theorem | Property |
|---|---|
| `TypeCorrect` | `TypeOK` |
| `ReadsAlwaysExact` | `ReadsExact` |
| `WritesAlwaysInPlace` | `WritesInPlace` |
| `RefusedNeverChanges` | `RefusedChangesNothing` |
| `OnlyOwnerEverWrites` | `OnlyOwnerWrite` |
| `TimesAlwaysKept` | `TimesKept` |

The properties are about the end of a callback; the parts of `IInv` about its middle:

- `StepInv`, `QuietInv`: which callback is at which step, and that nothing has changed
  before the request that is to change it, nor after a refusal.
- `ReadInv`: the answer so far is what is in the file from the offset on.
- `WriteInv`: the first `done` bytes of the buffer have landed and nothing else has
  changed (`Landed`), and the whole of what is still to be written may be (`Allowed`):
  the place for an append and the limit of a constrained write were taken from a look
  at the file that is old by now, and stay right because the file only grows.
- `SizeInv`: what a resize has kept, and that an allocation size about to be set is
  below the size of the file even then.
- `ModeInv`, `ShownInv`, `ModifiedInv`: what the request that is *about to be sent* will
  make of mode and times. A failed update may have done any part of it, so each part
  has to be right by itself.

### Only model-checked

The liveness properties of `windows_live`, `fuse_live` and `wire`, which are outside
what the prover handles, and the three disagreements of section 6, which TLC refutes.
Every safety property of the runs is proved.

## 5. Not modelled

- JSON encoding and the length prefix: `Wire` has whole frames, and a frame that
  is broken reads as a pipe that is. The identity counter's overflow at 2^64 is
  out of reach of any run of the program.
- Drive letters: queries of the Windows API whose outcome is that mounting may
  fail, which `WindowsMount` has.
- Validation of path components: string work with unit tests. Paths are sequences
  of names here.
- The transport probe: a sequential script over one `Client`. The command line's
  texts, the native test harness, build and release scripts.
- Security descriptors, volume information and `statfs`: one request without an
  effect, and layout. The flag by which the warning about change times is sent only
  once is wording of the same kind.
- What a write does beside a client that overwrites or truncates the same file, and
  what an open directory lists whose entry has been removed: the code promises
  nothing there, as it names files by path and offset only.
- An administrator's abort of the FUSE connection.

## 6. Disagreements found

- **Warnings before Ready are lost** (`windows_warnings`). The host starts at
  `src/windows.rs:682` and Ready is reported after it. A callback in between that
  cannot close a handle sends a warning, which `BridgeControl::report` refuses in
  Starting. `README.md:119` says such failures reach ShellCanvas.
- **A listing that misses entries** (`windows_restart`). A search for a marker
  sets `last` to None (`src/windows.rs:562`). If a request of the search fails,
  the next enumeration from the start takes `marker == last` as proof that the
  stream is at its start, and goes on in the middle.
  `tests/native_windows.rs:1062` asserts that listings lose nothing.
- **Rewinding an empty directory does not reread it** (`fuse_rewind`). A cursor
  at offset 0 that has seen the end does not reopen (`src/fuse.rs:104`), so
  entries created since stay invisible to the descriptor. The test at
  `src/fuse.rs:203` is named for the opposite and only rewinds from offset 12.

## 7. Plan

Done, in this order: `BridgeControl`, `Channel`, `BridgeServer`, `WindowsMount`
with its proofs; `Attachment` and the refinement; `FuseMount`; `Wire`;
`FuseInodes`; the directory modules; `OpenHandles` with its proofs; deletions while
a directory is listed; `WindowsAttributes` and `FileAccess`; the proofs of `Wire` and
`FuseInodes`. Then the safety proofs of `FuseMount` with its refinement, of `HandlesAgree` and
`ReportsExpected` over Windows, of `FuseInodes` on a tree of its own, of `FileAccess`
and of the directory cursors. Every safety property of every run now has a theorem.

Next, models:

1. The bounds of frames and pages: that a full page of the longest entries fits
   `MAX_FRAME`.
2. The batches of 16 within `Server::close`, and which handles its deadline leaves
   to the provider.

Next, proofs:

1. The round trip of times and the mapping of attributes as theorems of their own;
   they are lemmas of `FileAccessProofs` now.
2. An abstract listing that both cursors implement.
