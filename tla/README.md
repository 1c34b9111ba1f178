# Net-Raid-FS: a verification project

Net-Raid-FS is a FUSE file system that keeps its files on several storage
servers: a *mount* (one process of `net_raid_client` per disk in the
configuration) turns every FUSE call into requests over TCP, and
`net_raid_server` performs them on a directory of its own. RAID-1 keeps two
copies of every file; RAID-5 stripes files over three servers or more.

This directory holds TLA+ modules translated from the C code, the TLC
configurations that check them on small instances, and TLAPS proofs of the
theorems that matter most. Line numbers are those of the files under `src/`.


## 1. Inventory

| Part | Code | State | Operations |
|---|---|---|---|
| RAID-1 file handlers | `nrfs_mount/mountRaid1.c` 48-356 | the handler's locals, `fi->fh`, the cache | create, open (with restore), read, write, release, unlink |
| RAID-1 namespace handlers | `nrfs_mount/mountRaid1.c` 359-503 | none on the client | mkdir, rmdir, rename, chmod, getattr, opendir, readdir, releasedir |
| Storage server | `net_raid_server.c` | the directory tree, one xattr per file (`user.name`: 40 digits of SHA-1), open descriptors, the global `DIR* dr` | the commands cre opn wrt rea rel unl mkd odr rdr rld rmd gat rnm chm |
| Chunk cache | `utilz/utilz.c` 53-246 | a linked list of chunks, `logLen`, `maxLen` | `checkInCache`, `addInCache`, `deleteLRUNode`, `deletePath` |
| Wire protocol | `utilz/utilz.c` 251-300, `net_raid_server.c` 105-125, 353-369 | the two directions of a socket | `sendCommandPathChunk`, `handleRetVal`, `client_handler`, `sendRetvalErrChunk` |
| Connecting | `utilz/utilz.c` 304-334 | `allSFD` | `connectToServer`, `clientConnect` |
| RAID-5 client | `nrfs_mount/mountRaid5.c` | `serv`, the stripe buffer and the sums of a call; the cache | write, read and getattr striped, with a parity; the rest as in RAID-1 |
| Configuration parser | `nrfs_parse/configParser.c` | `blockcounter`, the list of disks and its length, the basic fields | `parseConfig` and its helpers |
| Start-up | `net_raid_client.c`, `mainRunRaid1`, `mainRunRaid5` | the children's arguments, the initial cache | one `fork` per disk, then `clientConnect`, then `fuse_main` |
| Logging, SHA-1 | `utilz/utilz.c`, `utilz/sha1.c` | - | - |

How they interact. libfuse calls the handlers of a mount, by default from
several threads (`fuse_main`, mountRaid1.c:542). A handler sends a 4096-byte
command block to a server on the one socket it has to that server, and reads
blocks back until it has its answer; requests to the two servers are made one
after the other (server 2 first, in the file handlers; server 1 first in the
namespace handlers). On the server one process per connection takes a command,
performs it, and answers. Nothing identifies an answer, nothing is
retried, and nothing times out.

What is hard:

* **Two copies without a transaction.** Every change is two requests, and
  a "wrt" is itself two changes of the server's disk, the bytes and then the
  hash of the whole file. The client can die between any two of them, and in
  the middle of a chunk. Nothing is repaired until the file is opened again:
  `r1_open` compares four hashes and copies the file from one server to the
  other.
* **A restore that is itself not atomic**, and that is driven by two counters
  (`bytesRead`, `bytesSend`), through `r1_read` and so through the cache.
* **A cache with no invalidation but unlink**, whose list and byte count are
  maintained by hand.
* **A tree changed server by server**, up or down depending on the call, with nothing
  undone when one of them fails; a cache that a rename does not touch.
* **Stripes that overlap.** Every server of a RAID-5 mount is written at the
  offset of the call, not at a stripe's own place, so stripes at nearby
  offsets lie over each other on every server, with parity servers that differ.
* **Descriptors that go by number.** A handle keeps one server's number and closes it
  on all; one `DIR*` stands for every open directory; a listing opens a
  directory and never closes it.
* **A parser that drops the last character of a line**, a list that starts
  with an element before there is a disk, and a `fork` that may fail.
* **One socket for all threads**, and a framing that rests on every `read()`
  returning all it was asked for.
* **Errors nobody sees**: a dead server, a failed second request.

What makes each part correct:

* file handlers and server: while a handle is open and no write is running
  the two copies exist, are equal and carry their hashes; the pair behaves as
  one file that only create, write and unlink change; a restore writes what
  the good copy holds; every handler returns;
* cache: the count is never less than what the list holds, no chunk is in it
  twice, what a read brings is in it afterwards, nothing of an unlinked file stays;
* channel: a `read()` of a handler returns the next part of the answer to its own
  request, what a "wrt" stores is what its handler sent, nothing is left over - which holds only
  until two handlers run at once, a `read()` is short, or a listing carries an old end mark;
* namespace: the trees are equal between calls, except where a call was done by some
  servers only; a create or unlink that fails has changed nothing the application can see; the cache
  answers for another file only after a rename or an unlink that left a node behind;
* descriptors: no release closes the connection, or another file's
  descriptor while the numbers of the servers agree; what is opened is closed; what ends a server is known;
* RAID-5: what any one server keeps follows from the others; a read returns
  the stripe last written; the size covers what was written; a failed server shows in the result,
  and so does a write cut short if it lost enough;
* parser and start-up: each disk has the values of its own block, is
  mounted by one process, with its servers in the order of the file, whatever
  becomes of the others.


## 2. Modules

```
FileData ----+--> StableStore            what one file promises
             +--> Raid1 --> Raid1Inv --> MCRaid1            (TLC)
             |      |          +-------> Raid1Proofs        (TLAPS)
             |      +- INSTANCE StableStore   (the refinement is proved in Raid1Proofs)
             +--> FileDataProofs --------^
Namespace -------> MCNamespace, NamespaceProofs
Descriptors -----> MCDescriptors, DescriptorsProofs
Raid5 -----------> MCRaid5, Raid5Proofs
MountStart ------> MCMountStart, MountStartProofs
ChunkCache ------> MCChunkCache, ChunkCacheProofs
Channel ---------> MCChannel, ChannelProofs
```

**FileData** is what a file holds, a sequence of 4096-byte chunks, each one value,
and what `pread` and `pwrite` do to it. `Zero` is what a hole reads as;
`Junk` stands for bytes nobody wrote.

**StableStore** is the abstract specification of one file (doc/designdoc:132
calls the write algorithm "stable storage"): create, write of one chunk, unlink.

**Raid1** is one file of a RAID-1 mount with both servers.

| Variable | In the code |
|---|---|
| `disk[s]` | the file in server s's directory and its xattr |
| `up[s]` | the server process of this connection is alive |
| `job[s]` | the server is between `pwrite` (line 246) and the end of `setXhash` (line 252) |
| `cache[k][o]` | the cached chunk of path k at offset o: k = 0 is the path itself, 1 and 2 the paths the restore builds by replacing the first character (mountRaid1.c:103-105, 141-143) |
| `op` | the handler in progress: its program counter and locals |
| `opens`, `faults` | handles the application holds; faults so far |

Every request and its reply are one action (`CreateRpc`, `OpenRpc`, `StatRpc`,
`RestoreRead`, `ReadRpc`, `UnlinkRpc`), except "wrt", where the reception of the data, the
two effects on the disk, and the client's death are separate:
`WritePwrite`, `WriteSetXhash`, `CutTransfer`. `CallX` is the kernel's call of handler X,
guarded by what the kernel learns from `getattr` (server 1 only; anything, when that is dead). The rules of
`r1_open` are `RestoreFrom` and `RestoreLoop`. `RestoreReadFrom` goes through `ReadChunk`, so
through the cache, as `r1_read` does. The faults are actions, selected by the constant
`Faults`:

| Fault | Meaning |
|---|---|
| `clientCrash` | the mount's process dies, between any two requests or while a server works |
| `cutTransfer` | it dies after the command of a "wrt" and before its data: the server's `read()` returns 0, is counted as full (lines 233-243), and unfilled memory is written |
| `serverCrash` | a server process dies; SIGPIPE is ignored by libfuse, `read()` returns 0 and the buffer holds whatever it held |
| `systemCrash` | all die at once (README runs all on 127.0.0.1) |
| `ioError` | one system call of a server fails |
| `damage`, `damageAtRest` | a chunk of a copy changes on the disk, at any time between two handlers; or while no handle is open, as the only fault of its behaviour |

**Raid1Inv** states the inductive invariant `Inv`; **Raid1Proofs** and **FileDataProofs**
hold the proofs.

**ChunkCache** is the cache as the list it is. The cached bytes are left out, but not their number:
`logLen` is computed modulo `SizeMod` as in `size_t`. A node that
`deletePath` frees and leaves linked stays in the list with `freed` set; the first
walk that follows its name ends the model (`useAfterFree`), and so does
`deleteLRUNode` on an empty list (`nullPointer`). In Raid1 the same defect
is the choice in `DeletePath`: a later look-up may or may not find such a node.

**Channel** is one connection: two streams of units, the client's threads, the
server's loop. A 4096-byte block is two units so that a `read()` can be short.
Commands are told apart by the shape of their exchange. The last byte of an entry block of a
listing, where the client looks for the end mark, is written in the last block only; in the others
it is what `malloc` returned (net_raid_server.c:160), so `Entries` may carry the mark of
an earlier listing. `slips` is a history of what the protocol has no defence against: a handler that starts
beside another (`overlap`), or between another's command and its chunk (`split`), a short `read()` of the
server or of a handler (`shortRequest`, `shortReply`), and such an end mark (`staleEnd`).

**Namespace** is the directory trees of a mount, for any number of servers.

| Variable | In the code |
|---|---|
| `tree[s]` | server s's directory: for each path nothing, a directory, or a file (the identity of its content), with its mode |
| `op` | the call in progress: what libfuse passed, and `serv` of the loop |
| `cache` | the chunk cache as far as names go: one path, and the contents its chunks are of (`UnlinkForgets`: deletePath may leave some where a later search finds them) |
| `shown`, `tainted`, `excused` | histories: server 1's tree when the call began; paths where a call was done by some servers and not by others; whether a rename has been at the cached path since its chunks came in, or an unlink has left some of them |

Each request is one action: `Done` when the server's system call succeeds (`CanMkdir`,
`CanRename` ... are the conditions of the system calls), `Failed` when it does not, for
its own reasons or by the fault `ioError`. create, open and unlink go from the last server
down (mountRaid1.c:51, 74, 342), the others up from server 1. `CallX` is what the kernel
lets through after its look-up, a getattr, which asks server 1. `OpenRpc` includes what
`r1_open` makes of two files that differ: server 2's is copied over server 1's, or that fails.
The client may die between two requests.

**Descriptors** is the table of open descriptors of every server's process. Number 4 is
the connection, `Fresh` is the table of a new one; an open takes the `Lowest` free number;
`fh[h]` is the number a handle keeps, that of server 1, which is asked last; `dr` and `closed` are
server 1's `DIR`. What no handler will ever close is `"lost"`: the directories "rdr"
opens, what the other servers opened for an open that failed, files whose numbers differ. An open, or an `opendir`,
fails at the limit or for a reason of the file's own (`Fails`); "rdr" then goes through a null `DIR` and
the process ends (net_raid_server.c:165, 291). The
commands wrt and rea, and the hashes, open and close a descriptor within one request and do not appear; that
they fail as well when the table is full is not modelled.

**Raid5** is one file of a RAID-5 mount with its cache of one node (the range
it covers; its bytes are left out). A unit is a run of bytes, a set of bits
so that xor is symmetric difference; `PageSz` units are the 4096 bytes of a call, `K` the
`n_servers - 1` chunks of a stripe, `ChunkSz` their size. `CallWrite` pads or cuts the data to a
stripe; each `WriteRpc`, `WriteShort` or `WriteFails` is one turn of the loop, with the sum and the tests as they are
(`-errno` is compared with -1, the sum as a `size_t`, and the bytes of a short `pwrite` are added to it). In a read `serv` starts at any of
`Uninitialised`, representatives of what an int can hold there; a number that names no
server leaves the buffers unfilled. A hit of the cache changes nothing and is
no action. `op.failed` and `op.lost` count, for the properties, the requests of a write that failed and the units others cut off. `torn`, `written` and `acked` are histories: units of writes
that lost a part, the stripe last written at an offset, the end of the furthest write
that lost nothing.

**MountStart** is `net_raid_client` up to `fuse_main`: `ReadLine` handles a line as
`parseConfig` does, `Fork` makes a child per disk, and a child connects to one server after
the other and mounts. A file is a sequence of lines, a line a key with a
value; `Kept(v, nl)` is what remains of a value when the last character of
its line is dropped, whether or not it was a newline, and `ServersKept` what remains of
a list when two characters are skipped at each comma. A file that cannot be opened is the
empty file. A field nobody set is `Uninit`: as a pointer it may crash who follows it, as a raid number it is any. So may
the line each connection writes to the log, which names the disk (utilz.c:34, 319), and the store of a
third server's socket, for which RAID-1's `allSFD` has no room (mountRaid1.c:528; `SfdInts`, `ConnectsSafely`).

The proofs about a module are in the module of its name with **Proofs**, which also states the
inductive invariant, before the proofs that need it.


## 3. Runs

| Run | Faults and bounds | Shows |
|---|---|---|
| `raid1_crash` | `clientCrash`, `cutTransfer`, at most 3; files of 2 chunks, 2 values, 2 handles; 140 609 states | type correctness; `Inv`; `MirrorWhenOpen`; `RestoreCopiesSource` |
| `raid1_stable` | `clientCrash`, at most 3, or one `damageAtRest`; 2 chunks, 2 values; fair; 94 835 states | `ImplementsStableStore`: Raid1 refines StableStore, whatever was interrupted or restored. With `cutTransfer` it cannot: unfilled memory becomes the content. `MirrorWhenOpen` with damage; `RestoreHeals`: a restore that has begun ends with equal copies |
| `raid1_live` | all faults but a dead server, at most 2; 2 chunks; fair; 154 000 states | `HandlersReturn`: no failing system call makes the restore loop run for ever |
| `raid1_dead` | `serverCrash`, 1; 1 chunk; fair; 8 042 states | `HandlersReturn` while every answer of one server is arbitrary |
| `namespace` | 2 servers, 2 names over 1, 2 files, 2 modes, 2 entries, one fault of `ioError`, `clientCrash`; 1 575 596 states | `Agreement`; `FailedFileCallInvisible` (create and unlink); `StaleHasCause`: the three ways in which the cache comes to answer for another file |
| `descriptors` | 2 servers, 2 handles, 2 directories at a time, 9 descriptors, 2 failing opens; 1 687 510 states | `ConnectionStays`, `OwnDescriptor`, `NothingLeft`, `CrashHasCause` |
| `raid5` | 3 servers, pages of 4 units of one bit, offsets 3 and 4, writes of 1 and 4 units, one fault of four kinds; 1.8 million states | `Recoverable`; `ReadReturnsStripe`, for the one value of the uninitialised `serv` with which a read works; `SizeCovers`; `OneFailureReported`: which losses the sum of the replies shows |
| `mount_start` | files of up to two disks, in the agreed style and out of it, with and without a last newline; one fork that fails, any server unreachable; fair; 32 807 states | `ParsedBlocks`, `NoDiskTwice`, `ServersInOrder`, `EveryDiskMounted` |
| `cache` | 2 paths, chunks of 1 or 2 bytes at 2 offsets, room for three nodes, a clock of 3 values that may go back; 46 383 states | `LogLenCoversList`, `NoDoubleEntry`; `ReadIsKept`: a read's eviction does not take the tail its chunk is linked to, until the clock is set back; `UnlinkForgets`: after the unlink of a file with at most one chunk in the cache nothing of it is left there |
| `channel` | two threads, short reads, 2 calls, directories of up to 2 names, old end marks; fair; 29 372 states | `MismatchHasCause`, `StoredIsSent`, `NothingLeft`, `HandlersReturn`: each names the slips without which it holds |
| `raid1_v_read` | none | `ReadIsPread` fails: a write does not renew the cached chunk |
| `channel_v_replies` | two threads | `RepliesMatch` fails: threads read each other's answers |

Why the bounds are enough. Two chunks give the restore loop its first, middle and last round,
a source that is longer, shorter or as long as the target, and a write
with a hole before it. Two values tell an old chunk from a new one. Three
deaths are a death in a write, one in the restore that follows, and one in the restore
after that; `Inv` bounds neither number, and the theorems hold
for all of them. With a dead server one chunk is the bound, because what its
answers leave in the cache and on the other disk multiplies the states (1.5 million with
two chunks, where the property holds too). In the cache, three nodes fit and a fourth evicts, and the
chunk of 2 bytes covers an offset in its middle. Two calls on a channel are enough for
any command to meet any other, one after the other or side by side; the theorems hold for any number.
Namespace has a path with something above it and two without, so that a rename goes over
an existing entry, out of reach or below it; with two entries one can be moved while the other is in the way. Its
theorems hold for any paths and servers. Three servers make a RAID-5 stripe of two
chunks and a parity; the stripes at offsets 3 and 4 share a unit on every server, and their
parities are on servers 3 and 2: each overlap of a chunk with a
parity occurs. Two blocks are enough for a value that is repeated, a block that is
empty, a disk whose fork fails before another's, and a file without a last newline; the theorems hold for
files of any length. With nine descriptors, four are free: two files and a
directory leave one for a listing, and a second listing meets the limit.

Fairness. `FairSpec` of Raid1 is weak fairness of `Handler`: a handler waits for
nothing but a server's answer, and a server's loop takes the next request when it
has answered the last. MountStart has weak fairness of the parent and of each child: the operating
system schedules every process, and `connect` comes back, with or without a connection. The application's calls, the faults and the restart are
not fair. Channel has weak fairness of each thread's next `read()` or `write()` and of the server's
loop, and none of a new call. Symmetry (application values, paths, names and files, handles) is used only in runs
without a liveness property.

Deadlock is checked in all runs of Raid1, Namespace and Raid5. MountStart ends when every process
has mounted or gone, Descriptors when server 1's process has died. ChunkCache stops where the process is taken to
have died and where `logLen` has reached `MaxLogLen`; Channel stops after `MaxCalls` calls. Their
configurations say `CHECK_DEADLOCK FALSE`.

Each property of a passing run is tested by a variant of an operator with a
plausible bug (`RestoreFromFirst`, `RestoreLoopShort`, `DeleteLRUNodeTwice` ...), defined
beside the operator it replaces; with it, the run fails. A variant is part of no specification.


## 4. Proofs

Each theorem is about the `Spec` of its module, for every value of the constants that the
module's assumptions allow, and hypotheses beyond these are in its statement. A safety
theorem has the same argument throughout: an inductive invariant, one lemma per action that
says the action preserves it, and the property as a consequence.

### Raid1

From `DataAssumption`, `BoundsAssumption`, `NoFileAssumption` (the mark for a file that is not
there is no file) and `Faults \subseteq {"clientCrash", "cutTransfer"}`; the last theorem
from `Faults \subseteq {"clientCrash"}`.

| Theorem | States |
|---|---|
| `Invariance` | `Spec => []Inv` |
| `TypeCorrect` | `Spec => []TypeOK` |
| `Mirroring` | `Spec => []MirrorWhenOpen` |
| `RestoreCopies` | `Spec => RestoreCopiesSource` |
| `Implementation` | `Spec => ImplementsStableStore`: Raid1 implements StableStore under the mapping `Content` |

`MirrorWhenOpen` is not inductive: whether an open succeeds with equal copies
depends on what earlier, interrupted handlers left behind. `Inv` adds

* `Hashed`: a copy whose hash is not just being stored carries the hash of its data,
  so after a death the hashes differ only where the data do (SHA-1 is
  injective here), and `RestoreFrom` never finds a damaged copy;
* `SecondFirst`: server 2 is never behind in being created or written, so a
  restore, which is then always from server 2, never starts from an empty copy while server 1's
  has data (the loop would not be entered);
* `InWrite`, `InCreate`, `InOpen`, `InRestore`, `InUnlink`: what a handler
  in progress knows. `InRestore` says that server 1 has the first `bytesSend` chunks of
  server 2's copy and no more, and that whatever the cache holds under
  the restore's path is what server 2 has;
* `Equal`: the copies differ only after a death, and then that part of the cache
  is empty: two restores in one mount cannot both find a difference. This is the conjunct
  that `damage` breaks: with `Faults = {"damage"}`, `MaxFaults = 2` and `MaxOpens = 1`
  TLC finds `RestoreCopiesSource` violated;
* `Jobs`, `AtRest`: whose work a server is doing; what is empty when no handler runs.

The proof has one lemma per action. FileDataProofs has the facts about `Pwrite`,
`ChunkAt` and prefixes they rest on.

`Implementation` maps the pair of copies to `Content`, which is what the rules of `r1_open` would
take from the hashes as they are. That is first shown to be `Stands` (`ContentStands`): the data of
server 2's copy, except while server 2 has a chunk and not yet its hash, when it is still
server 1's. `Inv` does not say enough of that moment: with `cutTransfer` server 2 may hold unfilled memory
there. `HalfWritten` adds that the stored hash is that of server 1's data, and that server 2's
data are these with one chunk of the application written. Then only three steps change `Stands`, and they
are StableStore's three: server 2's create, its unlink, and the end of its `setXhash` in a write (`StoreStep`). Steps of a restore, of
server 1, and deaths change nothing. With `cutTransfer` the theorem is false, since
the memory nobody filled gets a valid hash. Of `damageAtRest` it is not proved: `Inv` is about
copies without damage; `raid1_stable` checks it.

### Namespace

For every number of servers from 2 on, every set of names, files, modes and
paths that is closed under prefixes (`NamespaceAssumption`), and both faults.

| Theorem | States |
|---|---|
| `TypeCorrect` | `Spec => []TypeOK` |
| `TreesAgree` | `Spec => []Agreement` |
| `FailureInvisible` | `Spec => []FailedFileCallInvisible` |
| `StalenessCause` | `Spec => []StaleHasCause` |

`Agreement` says nothing of the middle of a call. `Inv` adds `Answered`: a server
the loop has passed (`Past`) has, outside `Unsure`, exactly `Result`, what the call makes of the
tree server 1 had when it began, and one it has not reached still has that tree. `Result` removes a whole
subtree where an unlink or a rmdir removes one path, which is the same because the trees are `WellFormed`: what
has something below it is a directory. `Unsure` is the taint as the call will leave it:
without what a success heals, with what a rename carries along. For the cache, `CacheInv` says
that it holds the file at its path unless that path has been renamed or is tainted, or an unlink left chunks there; the file is
there at all because nothing but an unlink that succeeds on all servers, and a rename, takes a file from
server 1. There is one lemma per action and, below them, the facts about `Under`, `Origin` and
`Renamed`.

### Descriptors

For every number of servers, handles, descriptors (at least 5) and
directories, and any number of failing opens (`DescriptorsAssumption`).

| Theorem | States |
|---|---|
| `TypeCorrect` | `Spec => []TypeOK` |
| `ConnectionKept` | `Spec => []ConnectionStays` |
| `HandleOwnsNumber` | `Spec => []OwnDescriptor` |
| `NoLeak` | `Spec => []NothingLeft` |
| `CrashCauses` | `Spec => []CrashHasCause` |

None is inductive. `KeptNumbers`: no number a handle or `dr` keeps is one of `Reserved`, which is
what keeps the connection open whatever is closed by whom. `OneDirectory`: as long
as directories are opened one at a time, `dr` is the open one. `AllAccounted`: while nothing leaked,
each descriptor is one of the process's first, a handle's at that handle's number, or the
open directory; with nothing open the table is then `Fresh`.

### Raid5

For every number of servers from 2 on, page size of at least a unit per chunk, set
of bits, offsets and sizes, and all four faults (`Raid5Assumption`).

| Theorem | States |
|---|---|
| `OneShareEach` | the chunks of a stripe and its parity go to different servers, one to each, at every offset |
| `Invariance` | `Spec => []Inv` |
| `Recovery` | `Spec => []Recoverable` |
| `TypeCorrect` | `Spec => []TypeOK` |
| `SizeCovered` | `Spec => []SizeCovers` |
| `FailureReported` | `(\A e \in Errno : e <= StripeSz) => (Spec => []OneFailureReported)` |
| `ReadsStripe` | `Spec => []ReadReturnsStripe` |

`Recoverable` follows from a symmetric fact: at a unit that is not torn every bit is set on
an even number of servers (`Even`). Without it overlapping stripes could not be
compared, since a unit may be a chunk's for one write and a parity's for
another. `WriteInv` says how far a write is (`Turn`: the turn of a server in the loop) and that, if
nothing has failed, each server so far keeps its `Share`. At the last turn all do, and `SharesAreEven` counts: the
chunks with a bit are as many as the servers that keep them (a bijection), and the parity makes
the number even.

`FileInv` says that for every stripe last written, and overlapped by no write in progress, each server keeps its
`Share` at that offset and is long enough for it; the size is that of server 1, so `acked` stays below it.
`SumInv` is the sum of the replies: as many chunks as servers have answered, less what was cut off; or less a chunk and
an error number for the one that failed. The parity's chunk is in the sum and not in the size it is compared with, so
up to a chunk may be missing without a sign, and `OneFailureReported` says just that. The hypothesis of `FailureReported`
is that an error number (at most 133 on Linux) is no larger than a stripe (4096 bytes, rounded down), for with
a larger one the sum is negative, which passes for a full write. `GotInv` is about a read that begins at any server:
what it has so far is the chunks from the one of that server, in the order of the turns,
without the parity's turn; from the parity's server they are the stripe.

### ChunkCache

For all paths, offsets, sizes, clocks and `MaxLen` (`CacheAssumption`: a `size_t` that holds twice the bound of `logLen`).

| Theorem | States |
|---|---|
| `Invariance` | `Spec => []Inv` |
| `TypeCorrect` | `Spec => []TypeOK` |
| `CountCovers` | `Spec => []LogLenCoversList` |
| `NoDoubles` | `Spec => []NoDoubleEntry` |
| `KeepsWhatIsRead` | `Spec => ReadIsKept` |
| `Forgets` | `Spec => UnlinkForgets` |

`Inv` is the conjunction of the properties of `TypeCorrect`, `CountCovers` and `NoDoubles`. The types are not inductive alone:
that `logLen` does not fall below zero, and wrap, when nodes are evicted or unlinked is known because it covers
the list. `KeepsWhatIsRead` rests on `FirstGoes`: of nodes in the order of their times, ties included, it is always
the first that `deleteLRUNode` takes, so what is left keeps its order and its tail. The sum over the list (`Total`) and the rounds of the eviction loop (`MakeRoom`) are recursive
functions. That they are defined at every argument, what a removed or appended node does to a sum, and
what any number of rounds preserves (`Kept`: the nodes left are nodes of before, the count
covers them, and in a list that was in order the tail stays) needs induction. The library's induction theorems take an
operator, which the provers cannot instantiate; `NatSet` is induction with a *set* of numbers,
and is itself proved, from the fact that an injection of a finite set into itself is onto.

### Channel

For any threads, calls and lengths of a listing, with short reads and without (`ChannelAssumption`). What the code
does not give, one handler at a time and whole reads, is no hypothesis: each property says which slips end it.

| Theorem | States |
|---|---|
| `TypeCorrect` | `Spec => []TypeOK` |
| `StaysInStep` | `Spec => []Kept`, the inductive invariant |
| `StoresWhatIsSent` | `Spec => []StoredIsSent`: only a command between another's command and its chunk, or a short read of the server, puts anything else on the disk |
| `LeavesNothing` | `Spec => []NothingLeft` |
| `Causes` | `Spec => MismatchHasCause` |

`Kept` says that until the first slip the exchange is in one of five phases (`InStep`): `Resting`, `Asked` (the command
is on its way), `Answered` (all that is on the way back is the part of the answer still to be
read, `Pending`; of a listing a suffix, of any length, whose last entry has the end mark),
`Sending` and `Sent` (a "wrt" before and after its chunk), and all threads but one are idle. What makes it more than a case
distinction is `r1_opendir`, which does not wait for an answer: any number of its commands may
still be before the command of the handler (`Queue`), and the server answers none of them.

`StoresWhatIsSent` needs an invariant of its own, for it goes on through all but two of the slips: `Lined` says that
what is on the way to the server is whole commands, each "wrt" with its chunk after it, but for the last
one if its handler has still to send it.

### MountStart

For every set of files whose lines are well formed (`MountStartAssumption`: values of the
kind their key takes, only the last line without a newline, no empty list of servers), with
any number of lines and disks, any number of failing forks and servers that cannot be reached.

| Theorem | States |
|---|---|
| `TypeCorrect` | `Spec => []TypeOK` |
| `ParsesBlocks` | `Spec => []ParsedBlocks` |
| `MountsOnce` | `Spec => []NoDiskTwice` |
| `MountsServers` | `Spec => []ServersInOrder` |

`Inv` is `Parsed`, `Parent` and `Children`. `Parsed` says what the variables of `parseConfig` are as a function of the
lines read: `nblock` is the number of blank lines before `pos`, the list is as long as the
block of the last line read, and each field is what that prefix of the file means for its block (`Meant`).
The step from a prefix to the next is `BlockStep` (a line's own effect on the count) and `MeantStep` (a line
changes the meaning of one key of one block, or of none); `LastLine`, that a set of lines
has a last one, is the induction it needs. `Children` relates each process to its disk: its raid, its
sockets a prefix of the disk's servers, and disks that increase along the list of processes, from
which no two are equal.

### Only model-checked

* Raid1 under faults other than those above: `MirrorWhenOpen`, `ImplementsStableStore` and
  `RestoreHeals` with `damageAtRest`. There the copies may differ without a death, which is what `Equal` in
  `Inv` excludes.
* Liveness under fairness, and ENABLED, which are beyond the prover: `HandlersReturn` of Raid1 and Channel,
  `EveryDiskMounted` of MountStart, `RestoreHeals`.
* That `RepliesMatch` fails with two threads (without a hypothesis on `slips`), and `ReadIsPread` after a write: these are counterexamples.

Every other property of a run is a theorem.


## 5. Assumptions and limits

* Raid1 runs one handler at a time and reads whole replies. Channel shows that this is what
  the protocol gives until the first slip, and that two threads, which libfuse has by default, do not.
* The mount comes up again only when the servers have finished what the dead
  one had sent (`Remount`). They would do so within one system call, but a new
  connection has a process of its own, and the code does not make it wait.
* SHA-1 is injective on the contents compared. `setXhash` reads the file
  it hashes, and nothing writes it meanwhile: one handler at a time.
* A read or write of the application is of one whole chunk at a chunk's
  boundary. Without `big_writes` FUSE passes at most 4096 bytes to a write; of a larger
  read the handler returns the first 4096 (mountRaid1.c:213).
* The kernel's own page cache and attribute cache are not modelled. They hide
  some of the stale reads that `raid1_v_read` shows.
* In Namespace, Descriptors and Raid5 one call runs at a time too. In Namespace a
  request that answers with an error has done nothing, and a new file is unlike any other.
* In Raid5 the upper half of the size a read asks for is zero: `memcpy` takes eight bytes out
  of an int (mountRaid5.c:122). `NServers` is `n_servers - 1` of the code.
* In ChunkCache names have one length and `free` leaves the fields of a node as they were.

Met while modelling, in the model, and not among the runs: changing a constant of a
configuration shows them.

* `RestoreCopiesSource` fails with `damage`: the second restore of a mount reads the chunks the first
  one cached (mountRaid1.c:116). It fails with `serverCrash`: hashes nobody sent decide
  (mountRaid1.c:82), and unfilled memory is written over the live copy.
* With `ioError` a write goes on to server 1 after server 2's has failed: `r1_write` tests for -1 what is `-errno`
  (mountRaid1.c:313), although doc/designdoc:133-134 has the second write start only when the result of the first is not
  negative. Server 2's copy, which a later restore would take, is then the older one.
* `UnlinkForgets` fails without its condition on the number of chunks: only the first node of the
  path is unlinked from the list (utilz.c:76), although doc/designdoc:216-217 has the
  cache of a removed file cleared.
* `ImplementsStableStore` fails with `damage`: a write to a damaged open file
  gives the damage a valid hash (server, line 252), and a later restore spreads it.
* `MirrorWhenOpen` and `ImplementsStableStore` fail with `systemCrash`: a restore whose source is
  empty does not enter the loop (mountRaid1.c:114, 154) and truncates nothing. A restore cut
  short also leaves a prefix with a valid hash (server, line 248), which the next open
  may take for the source.
* `HandlersReturn` fails with `serverCrash` and two faults: with neither server, the loop of
  the restore goes on as long as its unfilled buffers say so. The configuration's timeout
  (doc/designdoc:42) is parsed and not used.
* After a death between the two unlinks the file is on server 1 only, and
  `r1_unlink` stops at server 2 (mountRaid1.c:348): it can be neither opened nor removed.
* ChunkCache: `logLen` passes `maxLen`, because room is made for the bytes but not for the node (utilz.c:171)
  and line 186 wraps round; `logLen` keeps the size of nodes that are gone (utilz.c:114
  against 76), and the eviction loop then runs on an empty list (`status = "nullPointer"`);
  a hit does not renew `lastUse`, so what is evicted is the chunk read first and not
  the one used longest ago (doc/designdoc:212-213). Nor could it be renewed as the code is: the tail could then be the oldest, and `addInCache` would
  link the new node to freed memory, as it does when the clock has been set back or when all nodes have to go (utilz.c:175, 201).
* Namespace: what is on one server only may be beyond reach. A file whose unlink failed on server
  1 is listed and cannot be opened; a directory that only server 2 has makes every
  mkdir of that name fail. So no property says that a tainted path can be mended. After a rename that failed on
  server 2 an open may copy one file over another of the same name.
* Namespace: `r1_rename` leaves the cache under the old name, and what was cached under the new one:
  `StaleHasCause` without `excused` fails. So it does after the unlink of a file with several chunks in the cache.
* Descriptors: after enough listings the table of server 1 is full (net_raid_server.c:291), and the
  next listing goes through a null pointer and ends the process. So does the listing of a directory that cannot be opened: after
  a chmod to mode 0 getattr still shows 0775 (line 144), "odr" fails and answers nothing, and "rdr" reads a null `DIR` (lines 165, 291). With two directories open the second
  release closes a `DIR` that is closed.
* Raid5: with `-errno` taken for a size, a write that fails on every server returns success (mountRaid5.c:257, 266),
  and a write shorter than a stripe hides one failure. So does up to a chunk that servers cut off (a short `pwrite`): the sum
  has the parity's chunk in it. `OneFailureReported` without its conditions shows all three.
* Raid5: `r5_write` does not touch the cache, and `r5_read` caches only as many bytes as the last
  server sent. `ReadReturnsStripe` is about reads that miss the cache, and find the parity server's number in `serv`
  (mountRaid5.c:113); with another server's the chunks come rotated, against doc/designdoc:183-185, and with a negative one a
  read returns memory nobody filled. doc/designdoc:161 says that read is what does not work in RAID-5.
* MountStart: a disk without a name may crash at its first connection, in the log line (utilz.c:34), and a RAID-1 disk with
  three servers or more writes past `allSFD` (mountRaid1.c:528). A comma without a space after it costs the
  next address its first character (`ServersKept`). A last line without its newline loses a digit, and a raid number of one digit is then 0; the
  disk is not mounted. A file with a blank line too many has a disk of pointers nobody set.
* Channel: each slip is reached. The rest of a block is taken for the next answer, a command is stored as a chunk
  (`StoredIsSent` without its condition), and a listing that an old end mark cuts leaves blocks that the next handler
  takes for its result; a length read from one makes `r1_read` wait for data nobody sends.

Not modelled:

* a read or write of part of a chunk in Raid1, or across two, and so a short `pwrite` there (Raid5 has it);
* a full descriptor table as a cause of failing hashes, reads and writes (the faults of
  Raid1 and Raid5 stand for it);
* several mounts of one client: the children share nothing;
* formatting, padding and parsing of a command; logging; SHA-1 itself; the conversion of the cache
  size to a number (MountStart keeps its text; `MaxLen` of ChunkCache is any value);
* RAID-5 calls other than write, read and getattr have their loops in
  Namespace and Descriptors, which the theorems cover for every number of servers and TLC for two. In
  `r5_open` nothing is compared or copied: `OpenRpc` allows for it.


## 6. Plan

Left, in this order:

1. `MirrorWhenOpen` and the refinement with one chunk damaged at rest: an invariant in which one copy
   may be unsound while no handle is open, and `r1_open` takes the other.
2. Channel without a slip as the ground for the one-step requests of Raid1: a handler's reads and
   writes as a refinement of a request with its reply.
3. A new mount that overlaps the unfinished work of the last (`Remount` of Raid1 without its second
   guard).
4. Reads and writes of parts of a chunk, at the granularity of bytes.
