# spfs: a TLA+ model of the file system and its tools

spfs is a small block file system for Linux: a kernel module (`sp.c`,
`btree.c`, `free_list.c`, `util.c`), the formatter `mkfs.spfs` and the checker
`fsck.spfs`. The modules here model the parts that keep state, the `.cfg` files
let TLC check them on small instances, and the `...Proofs` modules prove with
TLAPS, for every instance, every safety property that TLC checks but one.

## 1. Inventory

### Components, their state and their operations

| Component | Source | State | Operations |
|---|---|---|---|
| block allocator | `free_list.c` | linked list of runs `[start, blocks]`, total, `lock` | `spfs_free_init` (mount), `spfs_free_alloc`; `spfs_free_dealloc` is empty |
| mount, super block | `sp.c` 1390-1595 | `spfs_super_block`: `id`, `id_lock`, `tree`, `free_list`, `root_id` | `spfs_fill_super_block`, `spfs_put_super` |
| inode numbers, objects | `sp.c` 98-217, 1601-1713 | inode cache (kernel), slab, `spfs_inode.{lock,capacity,start}` | `spfs_new_inode`, `spfs_inode_by_id`, `spfs_alloc_inode`, `spfs_free_inode`, `spfs_write_inode` |
| create, mkdir | `sp.c` 219-273, 477-547 | - | `spfs_create`, `spfs_mkdir` |
| directory blocks | `sp.c` 276-475, 552-716, 1330-1387 | block `[magic, next, children, ino...]` | `spfs_add_child`, `spfs_for_all_children` behind `spfs_lookup` and `spfs_iterate` |
| B-tree of inodes | `btree.c` | `start`, `lock`, nodes and inode blocks on the device | `spfs_btree_insert`, `spfs_btree_lookup`, `spfs_btree_modify` |
| file data | `sp.c` 719-1327 | chain of extents `[magic, next, capacity, length, bytes...]` | `spfs_read`, `spfs_write` |
| module, slab | `sp.c` 1598-1674, 1819-1873 | `spfs_inode_SLAB`, objects waiting for RCU | `spfs_init`, `spfs_exit` |
| formatter | `mkfs.spfs.c` | the image file | size check, super block, free list, fsync |
| checker | `fsck.spfs.c` | none | reads super block and free list |
| codecs | `util.c` | none | big-endian reads and writes in a buffer |
| removal | `btree_remove.c` | - | not compiled, no caller |

### How they interact

Every operation runs in the task of its caller, so that any number of them run
at once; they share the super block, the inode objects and the buffer cache.
The VFS holds the directory's semaphore (`i_rwsem`) around create, mkdir,
lookup and readdir. Inside, `parent->lock`, then `tree.lock`, then
`free_list.lock` are taken in this order; `id_lock` is taken alone. The flusher
calls `spfs_write_inode` for inodes marked dirty, which takes `tree.lock`. An
inode that is being read is `I_NEW`, and everybody else who wants it waits. A
`BUG_ON` or an oops ends the task, which keeps what it holds. Buffers are
written by the kernel at any time and in any order; free list, id counter and
tree start exist on the device only as mkfs.spfs has written them.

### What is hard, and the properties that make it correct

- allocator: callers interleave; unsigned counters; the last block; a search by
  `goto` under a mutex. No sector twice, no underflow, no wrong refusal, every
  call returns.
- create: three locks, four steps that can fail, none undone. Numbers are
  unique, a listed child has an inode block, locks come back on every error path.
- directories: the capacity is counted before the work and used by readdir; the
  slab returns objects with old fields. Entries are written every eight bytes
  and read every four; a full block is replaced, not continued; the limit of 100
  children does not look at the block size; readdir finds its place again by
  counting. Every child is given once, in order, and every call returns.
- files: most error paths of `spfs_read` and `spfs_write` return with
  `inode->lock` held, and a recycled object brings its lock, start and capacity
  along. A write stays in its own blocks and the blocks suffice; a call returns
  unless somebody has left the lock behind.
- module: `spfs_exit` races with the RCU callbacks of freed inodes.
- crash and remount: only what the device has survives, and numbers and sectors
  start again.
- mkfs.spfs: writes that fail, are short or return 0; two blocks reach the
  device in any order.

`PROJECT.json` lists these hazards with their lines.

## 2. Modules

| Module | Models |
|---|---|
| `BlockPool` | abstract specification: runs of sectors enter the pool while mounting and leave it once |
| `FreeList` | `free_list.c`, one action per step between two points where another task may run |
| `MCFreeList` | the images for TLC |
| `Induction` | induction over the subsets of a finite set and over `0 .. n`, for the proofs |
| `FreeListProofs` | inductive invariant, safety theorems, the order and the total of the list, refinement of `BlockPool` |
| `Volume` | a volume over mounts, creates, lookups, writeback, crashes |
| `MCVolume` | symmetry of tasks for TLC |
| `VolumeProofs` | numbers, tree, deadlock freedom; ownership of blocks, entries and capacity without recycled objects |
| `Format` | mkfs.spfs, and what mount and fsck.spfs accept afterwards |
| `FormatProofs` | completeness after exit 0, fit, mountability |
| `FileIO` | `spfs_read`, `spfs_write`, and the inode objects from module load to unload |
| `MCFileIO` | the results of `spfs_btree_modify` for TLC |
| `FileIOProofs` | arithmetic of extents, ownership of sectors, locks, slab |
| `Directory` | the words of one directory block, `spfs_add_child`, `spfs_iterate` |
| `Listing` | abstract specification: a list of children that grows at its end, and streams that read it |
| `DirectoryProofs` | layout of a block, what its reader finds, order and completeness of readdir, refinement of `Listing` |

### FreeList

A node is named by the place it was read from, `<<block, entry>>`; `next`,
`node_blocks`, `root`, `list_blocks` and `lock` are the fields of the C
structures, `pc`, `req`, `it` and `result` the locals of a caller. `Image` is the
chain on disk; `ImageAssumption` is what mkfs.spfs guarantees: runs on the device,
behind sectors 0 and 1, disjoint. A count that was truncated to 0 or a list that was
cut short leaves entries without blocks (at any start), blocks without entries or no
entry at all, which a mount accepts; all are allowed. `ReadHeader`, `ReadEntry`,
`NextBlock`, `InitDone` and `InitFails` are `spfs_free_init`; `Call`, `Lock`,
`CheckTotal`, `SkipNode`, `TakeRun`, `NoNode` and `Unlock` are `spfs_free_alloc`.
`grants` is a history variable. Counters are natural numbers: the proof that they
never go below zero is the proof that they do not wrap downwards. The sum of line 104
would wrap upwards above 2^32 blocks, which no list of mkfs.spfs, with its one u32
entry, comes to.

### Volume

Sectors hold what was last written to them (`Super`, `FreeBlock`, `InodeBlock`,
`NodeBlock`, `DirBlock`); mkfs.spfs writes sectors 0 and 1 only, and the others begin
as `Zero` or, those in the constant `Foreign`, as `Used`: contents of an earlier user
of the device that pass for a tree node with 1 to 100 entries (whatever else a device
may hold is told apart by nothing here from `Zero` or from a block with the magic
number). `cache` is the buffer cache and `disk` the
device. The module keeps what the code's decisions look at: which kind of block
a sector is (all but tree nodes start with the same magic number), the entries
of a directory block, the length of a tree node. The allocator is used through
`CanAlloc`, `LastFree` and `TakeBlock`, atomically; that is what
`FreeList` shows for requests of one block on the image of mkfs.spfs.

Each action is the code between two places where another task may interfere
(a lock, a block read); the table in `PROJECT.json` names the lines. Details
that matter for reading it:

- `InsertRoot` does what `bnode_alloc_root` does: it allocates a sector, makes
  the node in the block of the *old* `self->start` (0, the super block), and
  stores the new sector in `self->start`. The new sector is never written, so
  the root is zero, or what an earlier mount or an earlier user left there.
- Below a root that is zero or has the magic number, `btree_insert` ends in a
  `BUG_ON` (`InsertBelowRoot`), and `spfs_btree_modify` finds nothing
  (`FindNothing`, `FlushNothing`) or ends in the `BUG_ON` of `bnode_length`
  (`FindBug`). In a root with foreign contents (`Searched`) `bnode_bin_find_gte`
  searches: it takes a distance in bytes for a number of entries
  (`spfs_ptr_length`) and reads far outside of the node, so that every outcome is
  possible. An insertion faults, loops, fails to read a child or takes something
  for a duplicate (`InsertNoRoot`, result 1); nothing is allocated, because a null
  node is never passed down. A lookup that finds the number has the callback copy
  an `spfs_inode` of the stack, with its locks and lists, over the new inode
  (`FindGarbage`: the task is taken to die at its next use). A flush that finds
  it parses and writes back whatever block the entry names, if that has the magic
  number: `FlushFound`. The fixed fields come back as they were; for the name,
  stack memory is written, which in a directory block is where children are, so
  that any of their numbers may become one no inode has (`NoInode`). In the
  other kinds of blocks that changes nothing the model tells apart.
- A lookup that misses the cache passes a null pointer to its callback
  (`sp.c` 604-607, `IS_ERR(NULL)` is false): the task dies with `parent->lock`.
- `spfs_new_inode` returns error pointers, `spfs_generic_create` tests for null:
  `GetInodeFails` ends in `"dead"`. On `iget_locked` failing this is an allocation
  failure and always possible.
- `spfs_for_all_children` never drops the references it takes: `pinned`. The
  inode of a failed create keeps its reference too. The one reference that has an
  owner is that of the child whose name was found: `spfs_lookup` gives it to the
  dentry (`d_add`), and it goes with the dentry (`Evict`).
- `dentry` is the directory from which a path leads to the inode, or 0: set for
  the root, and for an inode after `spfs_lookup` has found its name. A directory
  is not evicted before the dentries below it. A new directory is reached by
  looking it up (`d_instantiate` does not hash the dentry), and the inode of a
  failed create is not reached at all.
- `LeaveLocked` is a failed `spfs_read` or `spfs_write` of a regular file, of which
  this module only has what it leaves: `inode->lock` held by nobody who will
  release it (`Gone`). The object takes it along into the slab and, since only
  the constructor initialises the mutex, into its next life (`Cached`). A
  directory made from it stops everybody who enters it; `LockLeft` says so and is
  an exception of the properties about waiting, like a dead task.
- `Freed` and `NewObjects` are the slab: a constructor runs once per object, so
  an object comes back with the fields it was freed with. `MaxSlab` bounds how
  many are remembered; with 0 the slab hands out constructed objects only. The
  slab is a set, so that two freed objects with equal fields count once, which
  makes no difference for the runs (`MaxSlab` is 0 or 1).
- The semaphore is modelled as exclusive also for lookup and readdir, which take
  it shared. They take `parent->lock` at once, so that sharing would only let
  them wait there.
- A refused mount leaves nothing that a later operation could see. Names, modes,
  times, link counts and the name length check, which returns before anything
  happens, are left out.

### Format

Blocks 0 and 1 of an image file, in the page cache and on the device, in units of
512 bytes. `WriteSuperStops` includes the short write and the result 0 that
`zero_fill` returns as success, which is caught by the check of the offset
(`OffsetOk`). `FsckSuper` and `FsckList` are the tests of fsck.spfs; reading the
entries and following `next` are not modelled, since on what mkfs.spfs writes they
always succeed. `Kill`, `WriteBack` and `PowerLoss` may come anywhere. `Word` stands
for 2^32, so that TLC meets the truncation of the block count; `PageSize` for the
largest block size a kernel mounts.

### FileIO

`obj` are the objects of the slab with the fields the code leaves in them
(`start`, `capacity`, `lock`) and `size`, which the VFS resets; `head` is the
header each sector holds, `free` the free list of the image of mkfs.spfs, one run
from sector 2, from whose end `spfs_free_alloc` takes (`CanAlloc`, `RunOf`; shown
for the allocator itself by `FreeList`). `call` are the locals of a call; bytes
are counted, not kept. A data block that is written loses what looked like a
header (`NoHeader`).

- The life of an object: `AllocInode` takes it from the slab for the root (`Mount`),
  for a new inode (`CreateInode`) or for one whose insertion fails (`CreateFails`);
  `FreeInode` and `Umount` hand it to RCU, `FreeInodeCb` back to the slab. An inode
  of a failed create is `"lost"` at once, one that `spfs_for_all_children` has
  visited (`VisitChild`, `pinned`) at unmount: its object is never freed, and
  `DestroySlab` leaves it behind.
- `CreateInode` takes the blocks of the inode and of a root from the free list and
  writes the inode block (`pages`). It has the magic number too and reads as an
  extent (`PageHeader`): `next` is the inode's number (`Numbers` are those that are
  sectors of the device), the capacity is huge because the mode is in it, the
  length is 0 or huge, after group and user. Which creations the tree lets succeed
  is left open here: any may, which is more than the code does (`Volume` has it).

- `ReadHeader`, `ReadBlock`, `ReadDone` are the two loops of `spfs_read`;
  `Ensure...` and `Modify` are `spfs_ensure_capacity`; `WriteHead`,
  `WriteBlock`, `WriteEnd`, `WriteDone` are `spfs_write_file_extent` and the loop
  around it. Each failing `sb_bread`, the signal and the `BUG_ON`s are actions
  of their own, gathered in `Fault`.
- `Return` leaves `lock` as it is. `WriteEnd` shows why nearly every write does:
  `spfs_write` takes the number of bytes of the first block (`written` in
  `spfs_write_file_extent` counts no other) for an error, returns `-EIO` and
  keeps the lock, so that `i_size` never grows by what was written.
- `ModifyResults` is what `spfs_btree_modify` may return. With the tree of this
  commit it is 1 or a `BUG_ON` (`ModifyBug`) unless the root has foreign contents,
  and the code behind it would hardly run. The passing runs take `{0, 1}`, the contract
  `spfs_ensure_capacity` is written against, so that the write path is examined
  as well; the violation run takes `{1}`, what the code returns.
- A directory block has the magic number of a file extent: `AddFirst` and
  `AddMore` leave a header a recycled file object can take for its extent, and a
  recycled directory object can take an inode block for its own (`AddBug`).
- `CallReturns` excepts a chain that leads to an inode block (`IsPage`): only a
  recycled object has one, and the number in the block may lead back to it.
- `WritesOwnSectors` and `RoomForAll` are stated while every object is in its
  first life (`AllFresh`). They do not hold after that: an object of an
  earlier mount brings a `start` into blocks that now belong to another
  file. `AssertsHoldOnFresh` is stated for the object of the call alone.

### Directory

The unit is the 32-bit word, so that the two strides meet: `Entry` is where
`spfs_dir_write_child` writes, `SkipWord`, `PassChild` and `EmitChild` move one
word. `IsFull` compares with `Full` (100) while `words` is the size of the block:
with 128 words (512 bytes) the 63rd child is counted and not written and the 64th
hits the `BUG_ON` of `spfs_sb_remaining` (`AddBug`). Six words have the same
parity: one child fits, the second is lost, the third kills the task. Nine words
hold exactly `Full = 3`. `Contents` is the block as it was allocated: nobody clears
it, and the words between the entries are read. It is zero, other data (`Junk`, the
number of no child), or the block of an earlier directory, whose numbers (`Left`)
may be those of children of today, with zeros or with the same words between.

`stream` is an open directory over several `getdents` calls with its position and
what it was given, `scan` the locals of one `spfs_iterate`. The VFS calls `.iterate`
and create with the directory's semaphore held exclusively, so that a task and the
directory share one `lock`; creates come between the calls of a stream, evictions
at any time. A call that gives nothing is the end for the caller. Streams for
which a fault happened (a child skipped without memory, a block not read, the
block replaced) are marked `ok = FALSE`, and order and completeness are stated for
the others. A block that is replaced or lost marks the streams that have begun to
read (`StreamsCut`); one that has not given its first dot is as good as new.
`Visible` is the number of children that are listed and fit into the block,
`stream.first` its value when the stream was opened. `Readable` is the whole loop of
`spfs_for_all_children` over a block as a function of the words read.

`ImplementsListing` says that all this implements `Listing`: its `entries` are the
children that are shown (`Shown`), a stream is `sound` while nothing went wrong with
it and the block was zero (`Sound`), and what it was given and what is due to it
(`GivenTo`, `DueTo`) are kept for sound streams only. `Insert` is a child that fits,
`Replace` a block that was lost or taken over by the next; `Open`, `Give`, `Fail` and
`Close` are what a caller sees of `spfs_iterate`. `Listing` has no words, positions,
counts, caches or locks.

## 3. Runs

| Run | Instance | Shows |
|---|---|---|
| `freelist` | 3 callers, 3 chained blocks with runs of 2, 1 and 2, an empty entry and an empty block, requests up to 3, fair | no double allocation, exact total, one block kept back, refusals only when justified; every call returns; implements `BlockPool` |
| `volume_safe` | 3 tasks, 4 blocks, one of them foreign, three creates, 2 mounts | numbers, ownership of sectors, entries have inodes, capacity covers the children, no deadlock (`NobodyStuck`, `NoWaitCycle`) |
| `volume_history` | 1 task, 2 mounts, 5 blocks, one of them foreign, directory blocks of two children, recycled objects | with stale `start`, `capacity` and `lock` (a directory goes on in the block of an earlier one, fills it, or takes an inode block for its own) and stray flushes, no step writes over an allocated inode block or drops a child from a directory block |
| `volume_live` | 2 tasks, 4 blocks, one of them foreign, three creates, recycled objects, fair | every call returns unless a task has died or a directory got a locked object, also when the blocks run out |
| `format` | sizes up to 13, three block sizes, two formattings | complete after exit 0, fits the file, stays mountable |
| `file_live` | 2 tasks, 2 objects, blocks of 2 bytes with 1 of header, 6 blocks, 1 mount, fair | every call returns unless a lock was left behind, a task died or a recycled chain leads to an inode block; only errors of read and write leave a lock; no callback without a slab |
| `file_safe` | 2 tasks, 2 objects, blocks of 3 bytes, 6 blocks, writes up to 3 bytes, 1 mount | a write stays in its own blocks, the blocks suffice |
| `file_recycled` | 1 task, 2 objects, 4 blocks, 2 mounts | types, and the `BUG_ON`s at the end of `spfs_write` for first lives, among objects that bring fields and blocks of the mount before |
| `directory` | 1 task, blocks of 6 and 9 words, zero or with old numbers, `Full = 3`, 4 children, fair | the reader finds what the writer wrote; order and completeness of readdir; no child lost on large blocks; implements `Listing`; every call returns |

The bounds are the smallest in which the interesting case happens: two tasks are
enough for each race on one lock and three add a waiter behind a waiter; a create
needs three blocks (inode, root, directory) and one is kept back, so 4 is the
least with a complete create, and three creates that lose their block exhaust it;
two mounts let blocks of the first meet the second; the foreign sector is the one
the first create takes for the root, which is sector 4 of 4 data blocks and 5 of 5;
with `MaxIno = 4` a directory can be made and then two
creates can draw their numbers in it and in the root at once. In `FileIO` the root
and a second object are enough for two tasks to meet at one lock and for a file to
follow a directory in the same object, by eviction and a new create within one
mount; that an old `start` meets an inode block takes two mounts (`file_recycled`).
A create takes two blocks, so that six leave room for a second one or for
extents, and blocks of two or three bytes make a write of three bytes need one, two
or three blocks and fill the volume. One task suffices for `Directory`,
whose calls exclude each other; four children fill a block of three and begin
the next. Only the counts
of mounts, numbers and remembered objects are capped, each in the guard of the
action that would raise it; in the last mount, after which nobody reads the device,
`Volume` has no writeback. Deadlock checking is off where a behaviour may rest
(all mounts used up, a dead task holding the semaphore); `NobodyStuck` states
deadlock freedom with `ENABLED`, for TLC, and `NoWaitCycle` by the locks a task
waits for, for the proof as well.

**Fairness.** `WF_vars(Step(t))`: a task inside the module is scheduled again.
`SF_vars` of the lock acquisitions: the kernel's mutex queues its waiters and hands
the lock over to the first one that was passed over, and a wait for an `I_NEW`
inode is woken. No fairness is assumed of callers, of writeback, of failures or
of crashes: in `FileIO` no `Fault` has to happen. In `Directory` a task that meets
a child that is not cached goes on in one of the two ways there are.

### Where the code departs from what it says

Three runs are expected to violate the property that states a comment or an
assertion; PROJECT.json quotes the lines.

| Run | Said | Done |
|---|---|---|
| `volume_super` | the super block occupies sector 0 (`sp.c` 53-55) | the first create writes the root node over it |
| `volume_recycled` | `alloc_inode` initialises the inode (`sp.c` 1785-1786) | a recycled object brings its old `start` and `capacity` |
| `file_written` | a result that is not negative is the number of bytes written (`sp.c` 1242-1243) | 1 is returned when the tree does not know the inode, with nothing written |

The first of them has a second effect: the next create of the mount descends into a
root nobody has written and, unless the sector has foreign contents, dies in a
`BUG_ON` with `tree.lock` held (`InsertBelowRoot`). The results of `btree_insert` also differ from
its comment (`btree.c` 795-799): 1 means duplicate or no block left. The capacity
of a directory is not the number of its children as `shared.h` 21-22 says: a
failed `spfs_add_child` has counted its child, a replaced block has taken its
children along, and a recycled object begins with an old count.

## 4. Proofs

Every theorem is proved for all values of the constants that satisfy the
`ASSUME` of its component's module: what mkfs.spfs guarantees of an image, sizes
that are not zero, a block larger than its header, a lock value that is no task.
No theorem uses the bounds of the runs.

| Module | Theorem | States |
|---|---|---|
| `FreeListProofs` | `TypeCorrect`, `NoDoubleAllocation`, `ReserveIsKept`, `MutualExclusion` | `TypeOK`, `NoOverlap`, `ReserveKept`, `OneCallerInside` |
| | `JustifiedRefusal` | `RefusedOnlyWhenFull` |
| | `TotalIsExact`, `TotalIsSumOfNodes` | the total is the sum along the list; `TotalMatchesNodes` |
| | `Refinement` | `ImplementsPool` |
| `FormatProofs` | `TypeCorrect`, `SuccessIsComplete`, `MountableFits` | `TypeOK`, `ExitOkComplete`, `AcceptedFits` |
| | `NeverUnmountable` | the action property `StaysMountable` |
| `FileIOProofs` | `TypeCorrect`, `SlabOutlives`, `ErrorsKeepLock`, `AssertsHold` | `TypeOK`, `SlabOutlivesCallbacks`, `OnlyErrorsKeepLock`, `AssertsHoldOnFresh` |
| | `EnoughRoom`, `OwnSectors` | `RoomForAll`, `WritesOwnSectors` |
| `VolumeProofs` | `TypeCorrect`, `NumbersStayFresh` | `TypeOK`, `NumbersFresh` |
| | `AllocatedBlocksStay` | the action property `AllocatedKept` |
| | `DeadlockFree` | `NoWaitCycle` |
| | `BlocksHaveOneOwner`, `ListedChildrenExist`, `CapacityIsEnough` | `SectorsOwned`, `ListedHasInode`, `CapacityCovers` if `MaxSlab = 0` |
| `DirectoryProofs` | `TypeCorrect`, `RoomForEveryChild`, `StreamsInOrder`, `StreamsComplete` | `TypeOK`, `LargeBlockHoldsAll`, `StreamInOrder`, `StreamComplete` |
| | `WrittenWhereRead`, `ReaderFindsChildren` | `Layout`, the words of a block; `BlockListsChildren` |
| | `Refinement` | `ImplementsListing` |

Each module has one inductive invariant `IInv`, a conjunction of named parts, a
lemma per action or group of actions, and theorems that read a property off it.

**FreeList.** `NoOverlap` alone is not inductive: a caller that is about to subtract
must know that it is the only one between the test and the subtraction
(`LockHeld`), and that the total is still larger than its request when it does so
(the second half of `LockHeld`, which gives `ReserveKept`); a node that is read next
must not overlap what was handed out, which holds because nothing is handed out
while loading (`MountedFirst`) and because a node never exceeds the entry it was
read from (`NodeBound`, with `LoadPlace` for where the loader is). The actions that
touch neither nodes nor history go through `QuietStepIInv`. In the refinement
`ReadEntry` is `PoolFill`, `TakeRun` is `PoolTake`, every other step a stutter.
`ListInv` is a second invariant on top: the list has exactly the nodes that were
read, each pointing to the one read before it (`Linked`), so that reachability
along `next` is the order of reading; what a search has passed is too small
(`Searched`). The total is described twice. Along `next` by a function of partial sums
that exists in every state (`IsSum`): a step adds a node at the head, or subtracts
from all sums that contain the node. And as `MapThenSumSet` over the nodes, which
recurs over the subsets of its argument: a function that meets that recursion is
unique (`SumsUnique`), exists (`HasSum`), and changing one value changes it by the
difference on exactly the subsets with that node (`SumsChange`). All three are
inductions over the size of a subset.

**Induction.** The library's induction theorems take an operator as a parameter and
cannot be cited here. Its theorem that strict inclusion on the subsets of a finite set
is well founded has none: a set of subsets that is not empty has a minimal one
(`MinimalSubset`), a set of numbers in `0 .. n` a least one (`LeastBelow`), and from that
what holds of 0 and is passed on holds up to n (`UpTo`). A property becomes the set
of the arguments that have it.

**Format.** `CacheAhead` is the core: nothing that mkfs.spfs writes is less
acceptable than what the device has, so that any mixture of old and new blocks is
accepted. `SizeChecked` and `Complete` carry the result of the size check and of
the writes to the exit status.

**FileIO.** `Busy` says that a call works on a live inode of its kind and holds the
lock wherever the code needs it; `Regions` that the blocks of live objects are
allocated, inside the device and apart from each other, and that a file's
capacity is what its blocks hold; `Extents` that a write in progress meets the
header `spfs_file_extent_alloc` has made, with enough blocks before it for what is
left. `WriteFacts` records why a write never reaches a second extent: `i_size` is
never raised (see `WriteEnd` above). `Regions` and `Extents` are stated while every
object is in its first life, like the properties they serve.

**Volume.** `Basic` needs no restriction: calls work on inodes that stay in the
cache (`Located`), the next number is above all in use and enough are left for the
tasks that are about to draw one (`NextNumber`), a drawn number has one owner
(`OneOwner`), and `tree.lock` has one holder, who makes a root only where there is
none (`TreeLocked`). `AllocatedBlocksStay` needs no more than that, with recycled
objects and foreign contents: a new block comes from the free list, a root node is made
in sector 0, a child is added only to a block that is a directory block, behind the
others, and `FlushFound` keeps the kind and the length of a block (`StrayFlush`).
`Pristine` holds while
`spfs_alloc_inode` gets constructed objects, which is what `MaxSlab = 0` says: every
block in use is above the free ones and has one owner, a child's inode block is
written before the child is listed, and the capacity is raised before the block
changes. With recycled objects these three are false, as `volume_recycled` leads
one to expect: an object brings a `start` that has another owner, or a `capacity`
below the number of children its old block has since got (TLC finds the latter
with `MaxSlab = 2` and four mounts).

`DeadlockFree` needs the converse of the lock invariants: a lock that is held has a
holder that is at a place between acquisition and release, and an `I_NEW` inode has
a task that fetches it (`Holders`). That is false once a task has died, and the
invariant is `Traced`, one or the other; dead tasks stay dead until a crash of the
machine, which clears the locks. Who has `id_lock` or `tree.lock` waits for nothing,
who fetches an inode waits for `tree.lock` only, and who has `parent->lock` waits for
one of these at most (`SomebodyRuns`).

**Directory.** `Layout` describes a block that was zero word by word; `InOrder` says
that a scan is at the word of its next child or at the zero before it, that its
count of positions is the number of children it has passed, and that a stream has
been given a prefix of the children. `Positions` and `Counts` hold the numbers
together (the block's count, `capacity`, the position of the stream); `Begun` tells a
stream without its first dot from one that is under way.

`ReaderFindsChildren` goes by induction over the words (`UpTo`): after k of them the loop
has the first (k + 1) / 2 children or all of them, since by `Layout` every second word
is zero; the recursive function in `Readable` is the only one with these steps
(`FoundUnique`).

In the refinement `AddToBlock` is `Insert` where the child fits and a stutter where it
does not. The first block of a directory is an `Insert` if it was zero and a `Replace`
by the new child if not; a full block is a `Replace` too. The streams that notice are
those with a position, and nobody else was told anything: without a position a stream
has no children (`Positions`) and nothing due to it, because no call is in progress
(`Locked`, `Begun`). `EmitChild` is `Give`: `InOrder` has the scan at the child whose index
is the number of children given (`NextWord`). `CloseDir` is `Close`, by the last part of
`InOrder`. A first dot on a block that was not zero, or a fault, is `Fail`; every other
step a stutter. `Numbered` is needed on top of `IInv`: no child of the list has the next
number, and a block has at least one child.

### Only model-checked

- Liveness: `CallReturns`, `CallsReturn`, `IterateReturns`.
- `NobodyStuck`, which uses `ENABLED`; `NoWaitCycle` is its provable form. That a
  task that does not wait has an enabled step is left to TLC.
- The three violations.

## 5. Not modelled, and what is left

- The algorithms on tree nodes with entries (`bnode_bin_find_gte`,
  `bnode_bin_insert` into them, `bnode_median`, `bnode_partition`, `bnode_extract`,
  `btree_fixup`, the descent of `btree_insert` and `spfs_btree_modify`): the only nodes
  with entries that a root can be are foreign contents, on which the search reads
  memory around the buffer; it is modelled by what can come of it.
- `btree_remove.c`: not compiled, an unfinished translation.
- The codecs of `util.c` beyond what directories depend on, printing, names, modes
  and times, the contents of files.
- The walk of fsck.spfs over entries and longer chains: it changes nothing.
- Writes of `FileIO` through `spfs_btree_modify` into a block that foreign contents
  name (`FlushFound` of `Volume` is the same code from the flusher).

Some hazards in `PROJECT.json` have no property: the code does what they describe (a
lock that an error path keeps, the children of a full block, a count that is not
taken back, numbers that start again after a remount). They are part of the model,
the properties that come near them are stated around them, and the notes say which.

Left to do: the semaphore's holders in `Volume`; what holds of recycled objects in
`FileIO` and `Volume` beyond the lock discipline.
