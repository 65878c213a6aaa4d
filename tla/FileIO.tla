------------------------------- MODULE FileIO --------------------------------
(***************************************************************************)
(* spfs_read and spfs_write on the extents of regular files, by concurrent *)
(* tasks, together with the life of the inode objects they work on: the    *)
(* slab of spfs_init, spfs_alloc_inode, the RCU callback of                *)
(* spfs_free_inode, unmount, and spfs_exit.                                *)
(*                                                                         *)
(* An object keeps start, capacity and its mutex when it is freed and      *)
(* handed out again: only the constructor of the slab sets them.           *)
(*                                                                         *)
(* A block holds BlockSize bytes; the header of an extent or of a          *)
(* directory block takes the first HeaderSize of them (16 of at least 512  *)
(* in the code).  A task that runs into BUG_ON stays dead with its locks.  *)
(***************************************************************************)
EXTENDS Integers, FiniteSets

CONSTANTS
    Tasks,          \* tasks that read and write files and fill directories
    NoTask,         \* a lock nobody holds
    Objects,        \* the inode objects of the slab
    BlockSize,      \* sbi->block_size
    HeaderSize,     \* spfs_sizeof_file_extent_header()
    DataBlocks,     \* blocks in the run that mkfs.spfs puts on the free list
    MaxLen,         \* bound: the bytes of one read or write
    MaxPos,         \* bound: the position a call starts at
    MaxChildren,    \* bound: the capacity a directory grows to
    MaxMounts,      \* bound: the mounts of a behaviour
    Numbers,        \* the inode numbers of files and directories
    ModifyResults   \* what spfs_btree_modify may return

ASSUME FileIOAssumption ==
    /\ NoTask \notin Tasks /\ Objects # {}
    /\ HeaderSize \in Nat \ {0} /\ BlockSize \in Nat /\ BlockSize > HeaderSize
    /\ DataBlocks \in Nat \ {0}
    /\ MaxLen \in Nat \ {0} /\ MaxPos \in Nat
    /\ MaxChildren \in Nat /\ MaxMounts \in Nat
    /\ Numbers \subseteq 1 .. (DataBlocks + 1)
    /\ ModifyResults \subseteq Int

EIO == -5
EINVAL == -22
EINTR == -4

VARIABLES
    module,     \* how far spfs_init and spfs_exit are
    mounted,
    mounts,     \* how often it was mounted
    free,       \* free_list.blocks: sectors 2 .. free + 1 are free
    head,       \* the header each sector holds
    obj,        \* the inode objects
    root,       \* that of the root inode
    pinned,     \* those with a reference that nobody will drop
    pages,      \* observed: the sectors with inode blocks of this mount
    tree_lock,  \* sbi->tree.lock: the holder
    pc,         \* where each task is
    call        \* the local variables of its call

module_vars == <<module, mounted, mounts, root, pinned>>
task_vars == <<pc, call>>
vars == <<module_vars, free, head, pages, obj, tree_lock, task_vars>>

LastSector == DataBlocks + 1
Sector == 0 .. LastSector

\* The header of a file extent; a directory block, with the same magic number,
\* reads as an extent with as many blocks as the directory has children and as
\* many bytes as its first child's number says.
Header(n, c, l) == [magic |-> TRUE, next |-> n, capacity |-> c, length |-> l]
NoHeader == [magic |-> FALSE, next |-> 0, capacity |-> 0, length |-> 0]

\* An inode block, with the magic number too, reads as an extent that is followed
\* by the sector of its inode's number, with more blocks than the device has (the
\* mode is in the upper half of that word) and as many bytes as the group and
\* user say: 0, or more than there are on a small device.
Huge == LastSector + 1
PageHeader(number, l) == Header(number, Huge, l)
PageLengths == {0, Huge * BlockSize}

\* spfs_inode_init_once.  fresh: the object has not been freed yet.
Constructed == [life |-> "slab", isdir |-> FALSE, start |-> 0, capacity |-> 0,
                size |-> 0, lock |-> NoTask, fresh |-> TRUE]

NoCall(o) == [kind |-> "none", o |-> o, n |-> 0, pos |-> 0, at |-> 0, it |-> 0,
              next |-> 0, left |-> 0, end |-> 0, extra |-> 0, done |-> 0,
              res |-> 0, dirty |-> FALSE, written |-> 0, ret |-> 0]
Nothing == NoCall(CHOOSE o \in Objects : TRUE)

Init ==
    /\ module = "absent" /\ mounted = FALSE /\ mounts = 0
    /\ root = {} /\ pinned = {} /\ pages = {}
    /\ free = 0 /\ head = [s \in Sector |-> NoHeader]
    /\ obj = [o \in Objects |-> Constructed]
    /\ tree_lock = NoTask
    /\ pc = [t \in Tasks |-> "idle"] /\ call = [t \in Tasks |-> Nothing]

-----------------------------------------------------------------------------
(* Module load and unload, mount, and the life of an inode object *)

\* spfs_init: spfs_create_inode_SLAB
CreateSlab ==
    /\ module = "absent"
    /\ module' = "created"
    /\ UNCHANGED <<mounted, mounts, root, pinned, free, head, pages, obj, tree_lock, task_vars>>

\* ... and register_filesystem
Register ==
    /\ module = "created"
    /\ module' = "registered"
    /\ UNCHANGED <<mounted, mounts, root, pinned, free, head, pages, obj, tree_lock, task_vars>>

\* spfs_exit: the reference of a mount keeps the module loaded.
Unregister ==
    /\ module = "registered" /\ ~mounted
    /\ module' = "leaving"
    /\ UNCHANGED <<mounted, mounts, root, pinned, free, head, pages, obj, tree_lock, task_vars>>

\* Mutant of Barrier: rcu_barrier is not called.
BarrierNone == TRUE

\* rcu_barrier has waited for the callbacks of spfs_free_inode.
Barrier == \A o \in Objects : obj[o].life # "rcu"

\* spfs_destroy_inode_SLAB, in spfs_exit or after register_filesystem failed.
\* Objects that are still referenced stay where they are and are never used again.
DestroySlab ==
    /\ module \in {"created", "leaving"}
    /\ Barrier
    /\ module' = "absent"
    /\ obj' = [o \in Objects |-> IF obj[o].life \in {"rcu", "lost"} THEN obj[o] ELSE Constructed]
    /\ UNCHANGED <<mounted, mounts, root, pinned, free, head, pages, tree_lock, task_vars>>

\* spfs_free_alloc of k blocks on the image of mkfs.spfs, as FreeList.tla has it
CanAlloc(k) == free > k

\* Mutant of RunOf: the first blocks of the run, not the last.
RunOfFront(k) == 2

RunOf(k) == 2 + free - k

\* spfs_alloc_inode: the VFS sets the fields of struct inode, i_size among them,
\* and nobody those of struct spfs_inode.
AllocInode(o, d, life) ==
    /\ obj[o].life = "slab"
    /\ obj' = [obj EXCEPT ![o].life = life, ![o].isdir = d, ![o].size = 0]

\* spfs_free_init reads the list mkfs.spfs wrote: every data block is free.  The
\* root inode is made without a block.
Mount ==
    /\ module = "registered" /\ ~mounted /\ mounts < MaxMounts
    /\ mounted' = TRUE /\ mounts' = mounts + 1
    /\ free' = DataBlocks
    /\ tree_lock' = NoTask
    /\ pages' = {}
    /\ \E o \in Objects : AllocInode(o, TRUE, "live") /\ root' = {o}
    /\ UNCHANGED <<module, pinned, head, task_vars>>

\* spfs_generic_create: an insertion that succeeds has taken a block for the
\* inode, written it, and taken one for a root.  The tree itself is left open
\* (Volume.tla has it): any creation may succeed here.
CreateInode(o, d) ==
    /\ mounted /\ CanAlloc(2) /\ AllocInode(o, d, "live")
    /\ free' = free - 2
    /\ \E number \in Numbers, l \in PageLengths :
          head' = [head EXCEPT ![RunOf(1)] = PageHeader(number, l)]
    /\ pages' = pages \cup {RunOf(1)}
    /\ UNCHANGED <<module_vars, tree_lock, task_vars>>

\* The insertion fails, before or after the block for the inode is taken.  No
\* path leads to the new inode, and its reference is not dropped.
CreateFails(o, d) ==
    /\ mounted /\ AllocInode(o, d, "lost")
    /\ free' \in {free} \cup (IF CanAlloc(1) THEN {free - 1} ELSE {})
    /\ UNCHANGED <<module_vars, head, pages, tree_lock, task_vars>>

\* The inodes go through spfs_free_inode, but for those that are still
\* referenced, then spfs_put_super.
Umount ==
    /\ mounted /\ \A t \in Tasks : pc[t] = "idle"
    /\ mounted' = FALSE
    /\ free' = 0 /\ root' = {}
    /\ obj' = [o \in Objects |->
                 IF obj[o].life # "live" THEN obj[o]
                 ELSE [obj[o] EXCEPT !.life = IF o \in pinned THEN "lost" ELSE "rcu"]]
    /\ UNCHANGED <<module, mounts, pinned, head, pages, tree_lock, task_vars>>

\* The VFS evicts an unused inode: spfs_free_inode is call_rcu.
FreeInode(o) ==
    /\ obj[o].life = "live" /\ o \notin pinned \cup root
    /\ \A t \in Tasks : pc[t] # "idle" => call[t].o # o
    /\ obj' = [obj EXCEPT ![o].life = "rcu"]
    /\ UNCHANGED <<module_vars, free, head, pages, tree_lock, task_vars>>

\* spfs_free_inode_cb, after a grace period
FreeInodeCb(o) ==
    /\ obj[o].life = "rcu"
    /\ obj' = [obj EXCEPT ![o].life = "slab", ![o].fresh = FALSE]
    /\ UNCHANGED <<module_vars, free, head, pages, tree_lock, task_vars>>

\* spfs_for_all_children has visited the inode, for readdir or on the way to
\* another name, and keeps the reference.
VisitChild(o) ==
    /\ obj[o].life = "live" /\ o \notin root
    /\ pinned' = pinned \cup {o}
    /\ UNCHANGED <<module, mounted, mounts, root, free, head, pages, obj, tree_lock, task_vars>>

-----------------------------------------------------------------------------
(* Calls *)

Goto(t, label) == pc' = [pc EXCEPT ![t] = label]

\* The call of task t is over, with inode->lock as it is.
Return(t, c, value) ==
    /\ Goto(t, "return")
    /\ call' = [call EXCEPT ![t] = [NoCall(c.o) EXCEPT !.kind = c.kind, !.done = c.done,
                                      !.written = c.written, !.ret = value]]

\* spfs_read or spfs_write of n bytes from position p; spfs_add_child.
Begin(t, k, o, n, p) ==
    /\ mounted /\ pc[t] = "idle" /\ obj[o].life = "live"
    /\ obj[o].isdir <=> k = "add"
    /\ call' = [call EXCEPT ![t] = [NoCall(o) EXCEPT !.kind = k, !.n = n, !.pos = p]]
    /\ Goto(t, "lock")
    /\ UNCHANGED <<module_vars, free, head, pages, obj, tree_lock>>

AfterLock == [read |-> "extent", write |-> "ensure", add |-> "add"]

\* mutex_lock(&inode->lock).  spfs_read starts at the first extent, spfs_write
\* takes a position behind the end of the file back to the end.
LockInode(t) ==
    /\ pc[t] = "lock" /\ obj[call[t].o].lock = NoTask
    /\ obj' = [obj EXCEPT ![call[t].o].lock = t]
    /\ LET o == obj[call[t].o]
       IN  call' = [call EXCEPT ![t].at = o.start,
                                ![t].pos = IF call[t].kind = "write" /\ @ > o.size
                                           THEN o.size ELSE @]
    /\ Goto(t, AfterLock[call[t].kind])
    /\ UNCHANGED <<module_vars, pages, free, head, tree_lock>>

\* mutex_lock_interruptible gives up.
Interrupted(t) ==
    /\ pc[t] = "lock" /\ call[t].kind = "write"
    /\ Return(t, call[t], EINTR)
    /\ UNCHANGED <<module_vars, free, head, pages, obj, tree_lock>>

\* The caller has its result.
Returned(t) ==
    /\ pc[t] = "return"
    /\ Goto(t, "idle")
    /\ call' = [call EXCEPT ![t] = Nothing]
    /\ UNCHANGED <<module_vars, free, head, pages, obj, tree_lock>>

\* BUG_ON
Dies(t, label) ==
    Goto(t, label) /\ call' = [call EXCEPT ![t] = NoCall(call[t].o)]

Least(a, b) == IF a > b THEN b ELSE a

-----------------------------------------------------------------------------
(* spfs_read: one extent after the other, one block after the other *)

\* sb_bread of the extent's first block, spfs_parse_file_extent
ReadHeader(t) ==
    /\ pc[t] = "extent" /\ call[t].at \in Sector \ {0}
    /\ LET h == head[call[t].at]
       IN  IF h.magic
           THEN /\ call' = [call EXCEPT ![t].next = h.next, ![t].left = h.length,
                                        ![t].it = call[t].at]
                /\ Goto(t, "block")
           ELSE Return(t, call[t], EINVAL)
    /\ UNCHANGED <<module_vars, free, head, pages, obj, tree_lock>>

\* sb_bread fails.  The error is returned from the middle of spfs_read, which
\* holds inode->lock.
ReadFails(t) ==
    /\ pc[t] = "extent" /\ call[t].at # 0
    /\ Return(t, call[t], EIO)
    /\ UNCHANGED <<module_vars, free, head, pages, obj, tree_lock>>

\* What an iteration of the loop does with the block it has: it skips to the
\* position, copies while there is room in the user's buffer, and counts both
\* against the length of the extent.
Room(c) == IF c.it = c.at THEN BlockSize - HeaderSize ELSE BlockSize
Consumed(c) ==
    LET skip == Least(c.pos, Least(Room(c), c.left))
        copy == IF c.pos > skip THEN 0
                ELSE Least(c.n, Least(Room(c) - skip, c.left - skip))
    IN  [c EXCEPT !.pos = @ - skip, !.n = @ - copy, !.done = @ + copy,
                  !.left = @ - skip - copy]

\* Mutant of NextSector: the loop reads the same block again.
NextSectorSame(s) == s

NextSector(s) == s + 1

\* One iteration.  While the extent has bytes left it goes on to the next
\* sector, whether or not the caller wants any more of them, and fails behind
\* the end of the device.
ReadBlock(t) ==
    /\ pc[t] = "block"
    /\ LET c == Consumed(call[t])
       IN  IF c.left > 0
           THEN IF NextSector(c.it) \in Sector
                THEN /\ call' = [call EXCEPT ![t] = [c EXCEPT !.it = NextSector(@)]]
                     /\ UNCHANGED pc
                ELSE Return(t, c, EIO)
           ELSE /\ call' = [call EXCEPT ![t] = [c EXCEPT !.left = 0, !.it = 0, !.next = 0,
                                                 !.at = IF c.n > 0 THEN c.next ELSE 0]]
                /\ Goto(t, "extent")
    /\ UNCHANGED <<module_vars, free, head, pages, obj, tree_lock>>

\* sb_bread of the next block fails.
ReadBlockFails(t) ==
    /\ pc[t] = "block"
    /\ LET c == Consumed(call[t])
       IN  c.left > 0 /\ Return(t, c, EIO)
    /\ UNCHANGED <<module_vars, free, head, pages, obj, tree_lock>>

\* No extent is left or wanted: mutex_unlock, and the number of bytes.
ReadDone(t) ==
    /\ pc[t] = "extent" /\ call[t].at = 0
    /\ obj' = [obj EXCEPT ![call[t].o].lock = NoTask]
    /\ Return(t, call[t], call[t].done)
    /\ UNCHANGED <<module_vars, pages, free, head, tree_lock>>

-----------------------------------------------------------------------------
(* spfs_ensure_capacity *)

\* spfs_file_extent_data_bytes and spfs_blocks_for
DataBytes(k) == k * BlockSize - HeaderSize
BlocksFor(bytes) == (bytes + BlockSize - 1) \div BlockSize

\* Mutant of ExtraBlocks: the new extent's header is not counted.
ExtraBlocksNoHeader(capacity, pos, n) ==
    IF pos + n <= capacity THEN 0 ELSE BlocksFor(pos + n - capacity)

\* spfs_calc_extra_blocks
ExtraBlocks(capacity, pos, n) ==
    IF pos + n <= capacity THEN 0 ELSE BlocksFor(pos + n - capacity + HeaderSize)

Needs(t) == ExtraBlocks(obj[call[t].o].capacity, call[t].pos, call[t].n)

\* The file is large enough.
EnsureNothing(t) ==
    /\ pc[t] = "ensure" /\ Needs(t) = 0
    /\ Goto(t, "whead")
    /\ UNCHANGED <<module_vars, free, head, pages, obj, tree_lock, call>>

\* Mutant of EnsureAlloc: the first extent is not entered into the inode.
EnsureAllocUnlinked(t) ==
    /\ pc[t] = "ensure" /\ Needs(t) > 0 /\ CanAlloc(Needs(t))
    /\ free' = free - Needs(t)
    /\ head' = [head EXCEPT ![RunOf(Needs(t))] = Header(0, Needs(t), 0)]
    /\ obj' = [obj EXCEPT ![call[t].o].capacity = @ + DataBytes(Needs(t))]
    /\ Goto(t, "modify")
    /\ UNCHANGED <<module_vars, pages, tree_lock, call>>

\* spfs_file_extent_alloc.  The extent becomes the first of the file or is kept
\* in extra, to be linked to the last; the capacity grows either way.
EnsureAlloc(t) ==
    /\ pc[t] = "ensure" /\ Needs(t) > 0 /\ CanAlloc(Needs(t))
    /\ LET run == RunOf(Needs(t))
           first == obj[call[t].o].start = 0
       IN  /\ free' = free - Needs(t)
           /\ head' = [head EXCEPT ![run] = Header(0, Needs(t), 0)]
           /\ obj' = [obj EXCEPT ![call[t].o].start = IF first THEN run ELSE @,
                                 ![call[t].o].capacity = @ + DataBytes(Needs(t))]
           /\ call' = [call EXCEPT ![t].extra = IF first THEN 0 ELSE run,
                                   ![t].at = IF first THEN run ELSE @]
    /\ Goto(t, "modify")
    /\ UNCHANGED <<module_vars, pages, tree_lock>>

\* No run is large enough: the error is returned with inode->lock held.
EnsureNoSpace(t) ==
    /\ pc[t] = "ensure" /\ Needs(t) > 0 /\ ~CanAlloc(Needs(t))
    /\ Return(t, call[t], EIO)
    /\ UNCHANGED <<module_vars, free, head, pages, obj, tree_lock>>

\* The blocks are taken and sb_bread of the first fails: BUG_ON(!bh).
EnsureNoBuffer(t) ==
    /\ pc[t] = "ensure" /\ Needs(t) > 0 /\ CanAlloc(Needs(t))
    /\ free' = free - Needs(t)
    /\ Dies(t, "dead")
    /\ UNCHANGED <<module_vars, pages, head, obj, tree_lock>>

\* spfs_btree_modify under tree.lock.  Any result but 0 is returned with
\* inode->lock held, with start and capacity already changed.
Modify(t) ==
    /\ pc[t] = "modify" /\ tree_lock = NoTask
    /\ \E r \in ModifyResults :
          IF r = 0 THEN Goto(t, "whead") /\ UNCHANGED call ELSE Return(t, call[t], r)
    /\ UNCHANGED <<module_vars, free, head, pages, obj, tree_lock>>

\* The root of the tree is no tree node: BUG_ON in bnode_length, in tree.lock.
ModifyBug(t) ==
    /\ pc[t] = "modify" /\ tree_lock = NoTask
    /\ tree_lock' = t
    /\ Dies(t, "dead")
    /\ UNCHANGED <<module_vars, pages, free, head, obj>>

-----------------------------------------------------------------------------
(* spfs_write on the extents *)

\* spfs_do_write into a block with room bytes behind the position in it: skip
\* to the position of the file, then copy.
Skip(c, room) == Least(c.pos, room)

\* Mutant of Copy: the whole rest of the block is copied.
CopyBlock(c, room) == IF c.pos > room THEN 0 ELSE room - c.pos

Copy(c, room) == IF c.pos > room THEN 0 ELSE Least(c.n, room - c.pos)
DoWrite(c, room) ==
    [c EXCEPT !.pos = @ - Skip(c, room), !.n = @ - Copy(c, room),
              !.left = @ + Copy(c, room), !.done = @ + Copy(c, room),
              !.dirty = @ \/ Copy(c, room) > 0]

\* The first block of an extent.  The last extent is linked to the new one;
\* the header with the new length is written when the extent is done.  A block
\* without the magic number makes -EIO, with inode->lock held.
WriteHead(t) ==
    /\ pc[t] = "whead" /\ call[t].at # 0
    /\ LET h == head[call[t].at]
           link == h.next = 0 /\ call[t].extra # 0
           room == BlockSize - HeaderSize
           c == [call[t] EXCEPT !.next = IF link THEN call[t].extra ELSE h.next,
                                !.extra = IF link THEN 0 ELSE @,
                                !.dirty = link, !.left = h.length,
                                !.it = call[t].at + 1, !.end = call[t].at + h.capacity]
       IN  IF h.magic
           THEN /\ call' = [call EXCEPT ![t] = [DoWrite(c, room) EXCEPT !.res = Copy(c, room)]]
                /\ Goto(t, "wblock")
           ELSE Return(t, call[t], EIO)
    /\ UNCHANGED <<module_vars, free, head, pages, obj, tree_lock>>

InExtent(c) == c.it < c.end

\* The other blocks, while there is something to write: a block before the
\* position is passed over.
WriteBlock(t) ==
    /\ pc[t] = "wblock" /\ call[t].n > 0 /\ InExtent(call[t])
    /\ LET c == call[t]
       IN  CASE c.pos >= BlockSize ->
                  /\ call' = [call EXCEPT ![t].pos = @ - BlockSize, ![t].it = @ + 1]
                  /\ UNCHANGED <<pc, head>>
             [] c.pos < BlockSize /\ c.it \in Sector ->
                  /\ call' = [call EXCEPT ![t] = [DoWrite(c, BlockSize) EXCEPT !.it = @ + 1]]
                  /\ head' = [head EXCEPT ![c.it] = IF Copy(c, BlockSize) > 0 THEN NoHeader ELSE @]
                  /\ UNCHANGED pc
             [] OTHER -> Return(t, c, EIO) /\ UNCHANGED head
    /\ UNCHANGED <<module_vars, pages, free, obj, tree_lock>>

\* sb_bread fails: -EIO, with inode->lock held and the header of the extent as
\* it was.
WriteFails(t) ==
    /\ \/ pc[t] = "whead" /\ call[t].at # 0
       \/ pc[t] = "wblock" /\ call[t].n > 0 /\ InExtent(call[t])
    /\ Return(t, call[t], EIO)
    /\ UNCHANGED <<module_vars, free, head, pages, obj, tree_lock>>

\* The extent is done and its header written.  A result other than 0, the
\* number of bytes in the first block, is taken for an error: -EIO with
\* inode->lock held.
WriteEnd(t) ==
    /\ pc[t] = "wblock" /\ (call[t].n = 0 \/ ~InExtent(call[t]))
    /\ LET c == call[t]
       IN  /\ head' = IF c.dirty
                      THEN [head EXCEPT ![c.at] = Header(c.next, c.end - c.at, c.left)]
                      ELSE head
           /\ IF c.res # 0
              THEN Return(t, c, EIO)
              ELSE /\ call' = [call EXCEPT ![t].written = @ + c.res,
                                           ![t].at = IF c.n > 0 THEN c.next ELSE 0]
                   /\ Goto(t, "whead")
    /\ UNCHANGED <<module_vars, pages, free, obj, tree_lock>>

\* No extent is left: BUG_ON(extra != 0), BUG_ON(in_len != 0), the new size,
\* mutex_unlock.
WriteDone(t) ==
    /\ pc[t] = "whead" /\ call[t].at = 0
    /\ IF call[t].extra # 0 \/ call[t].n # 0
       THEN Dies(t, "bug") /\ UNCHANGED obj
       ELSE /\ obj' = [obj EXCEPT ![call[t].o].size = @ + call[t].written,
                                  ![call[t].o].lock = NoTask]
            /\ Return(t, call[t], call[t].written)
    /\ UNCHANGED <<module_vars, pages, free, head, tree_lock>>

-----------------------------------------------------------------------------
(* spfs_add_child on a directory: Volume.tla has its steps, here is what it   *)
(* leaves in the object and in the block.                                     *)

\* The first child takes a new block.
AddFirst(t) ==
    /\ pc[t] = "add" /\ obj[call[t].o].start = 0 /\ CanAlloc(1)
    /\ free' = free - 1
    /\ \E number \in Numbers : head' = [head EXCEPT ![RunOf(1)] = Header(0, 1, number)]
    /\ obj' = [obj EXCEPT ![call[t].o].start = RunOf(1), ![call[t].o].capacity = @ + 1,
                          ![call[t].o].lock = NoTask]
    /\ Return(t, call[t], 0)
    /\ UNCHANGED <<module_vars, pages, tree_lock>>

\* The block of the directory is an inode block.
IsPage(s) == head[s].magic /\ head[s].capacity >= Huge

\* A further child
AddMore(t) ==
    /\ pc[t] = "add" /\ obj[call[t].o].start # 0 /\ head[obj[call[t].o].start].magic
    /\ ~IsPage(obj[call[t].o].start)
    /\ head' = [head EXCEPT ![obj[call[t].o].start].capacity = @ + 1]
    /\ obj' = [obj EXCEPT ![call[t].o].capacity = @ + 1, ![call[t].o].lock = NoTask]
    /\ Return(t, call[t], 0)
    /\ UNCHANGED <<module_vars, pages, free, tree_lock>>

\* The place of the new child is behind the end of the block: BUG_ON in
\* spfs_sb_remaining, with parent->lock held.
AddBug(t) ==
    /\ pc[t] = "add" /\ obj[call[t].o].start # 0 /\ IsPage(obj[call[t].o].start)
    /\ obj' = [obj EXCEPT ![call[t].o].capacity = @ + 1]
    /\ Dies(t, "dead")
    /\ UNCHANGED <<module_vars, pages, free, head, tree_lock>>

\* Mutant of AddFails: the error path keeps parent->lock.
AddFailsLocked(t) ==
    /\ pc[t] = "add"
    /\ obj' = [obj EXCEPT ![call[t].o].capacity = @ + 1]
    /\ Return(t, call[t], EINVAL)
    /\ UNCHANGED <<module_vars, pages, free, head, tree_lock>>

\* No block is left, sb_bread fails or the block has no magic number.  The
\* capacity stays incremented, a block that was allocated is lost.
AddFails(t) ==
    /\ pc[t] = "add"
    /\ IF obj[call[t].o].start = 0 /\ CanAlloc(1) THEN free' = free - 1 ELSE UNCHANGED free
    /\ obj' = [obj EXCEPT ![call[t].o].capacity = @ + 1, ![call[t].o].lock = NoTask]
    /\ LET s == obj[call[t].o].start
       IN  Return(t, call[t], IF s # 0 /\ head[s].magic THEN EIO ELSE EINVAL)
    /\ UNCHANGED <<module_vars, pages, head, tree_lock>>

-----------------------------------------------------------------------------

ReadStep(t) == ReadHeader(t) \/ ReadBlock(t) \/ ReadDone(t)

WriteStep(t) ==
    \/ EnsureNothing(t) \/ EnsureAlloc(t) \/ EnsureNoSpace(t) \/ Modify(t)
    \/ WriteHead(t) \/ WriteBlock(t) \/ WriteEnd(t) \/ WriteDone(t)

AddStep(t) == AddFirst(t) \/ AddMore(t) \/ AddBug(t) \/ AddFails(t)

\* What a task does inside spfs ...
Step(t) == LockInode(t) \/ ReadStep(t) \/ WriteStep(t) \/ AddStep(t) \/ Returned(t)

\* ... and what happens to it: a signal, an error of the device, a broken tree.
Fault(t) ==
    \/ Interrupted(t) \/ ReadFails(t) \/ ReadBlockFails(t) \/ WriteFails(t)
    \/ EnsureNoBuffer(t) \/ ModifyBug(t)

BeginCall(t, o) ==
    \/ \E k \in {"read", "write"}, n \in 1 .. MaxLen, p \in 0 .. MaxPos : Begin(t, k, o, n, p)
    \/ obj[o].capacity < MaxChildren /\ Begin(t, "add", o, 0, 0)

Next ==
    \/ CreateSlab \/ Register \/ Unregister \/ DestroySlab \/ Mount \/ Umount
    \/ \E o \in Objects, d \in BOOLEAN : CreateInode(o, d) \/ CreateFails(o, d)
    \/ \E o \in Objects : VisitChild(o) \/ FreeInode(o) \/ FreeInodeCb(o)
    \/ \E t \in Tasks : Step(t) \/ Fault(t) \/ \E o \in Objects : BeginCall(t, o)

Spec == Init /\ [][Next]_vars

\* A task inside spfs is scheduled again, and a mutex that is released again and
\* again goes to each waiter in the end.  No fault has to happen.
Fairness == \A t \in Tasks : WF_vars(Step(t)) /\ SF_vars(LockInode(t) \/ Modify(t))

FairSpec == Spec /\ Fairness

-----------------------------------------------------------------------------
(* Properties *)

Labels == {"idle", "lock", "extent", "block", "ensure", "modify", "whead", "wblock",
           "add", "return", "dead", "bug"}
Calls == [kind : {"none", "read", "write", "add"}, o : Objects, n : Nat, pos : Nat,
          at : Nat, it : Nat, next : Nat, left : Nat, end : Nat, extra : Nat,
          done : Nat, res : Nat, dirty : BOOLEAN, written : Nat, ret : Int]

HeaderFields == [magic : BOOLEAN, next : Sector, capacity : Nat, length : Nat]
ObjectFields == [life : {"slab", "live", "rcu", "lost"}, isdir : BOOLEAN, start : Sector,
                 capacity : Nat, size : Nat, lock : Tasks \cup {NoTask}, fresh : BOOLEAN]

\* Every variable has its type: no length, position or count of blocks goes
\* below zero, and the first extent of a file is on the device.
TypeOK ==
    /\ module \in {"absent", "created", "registered", "leaving"}
    /\ mounted \in BOOLEAN /\ mounts \in 0 .. MaxMounts
    /\ root \subseteq Objects /\ pinned \subseteq Objects /\ pages \subseteq Sector
    /\ free \in 0 .. DataBlocks
    /\ head \in [Sector -> HeaderFields] /\ obj \in [Objects -> ObjectFields]
    /\ tree_lock \in Tasks \cup {NoTask}
    /\ pc \in [Tasks -> Labels] /\ call \in [Tasks -> Calls]

\* The blocks of an extent that task t writes next: the first, with the header,
\* and the one the loop has come to.
Writing(t) ==
    IF pc[t] # "wblock" THEN {}
    ELSE {call[t].at} \cup (IF call[t].n > 0 /\ InExtent(call[t]) THEN {call[t].it} ELSE {})

\* No object of the slab is in its second life.
AllFresh == \A o \in Objects : obj[o].fresh

\* The sectors of object o in its first life.
Sectors(o) ==
    LET k == IF obj[o].isdir THEN 1 ELSE BlocksFor(obj[o].capacity + HeaderSize)
    IN  IF obj[o].start = 0 THEN {} ELSE obj[o].start .. (obj[o].start + k - 1)

\* spfs_write stays inside the extents of its file: the blocks it writes were
\* allocated in this mount, for this file and for no other, and no inode block.
WritesOwnSectors ==
    AllFresh => \A t \in Tasks : \A s \in Writing(t) :
        /\ s \in (free + 2) .. LastSector /\ s \notin pages
        /\ \A o \in Objects \ {call[t].o} : obj[o].life = "live" => s \notin Sectors(o)

\* spfs_calc_extra_blocks asks for enough: the extent holds all that is to be
\* written, so that the blocks of the file end no earlier than the data.
RoomForAll ==
    AllFresh => \A t \in Tasks : pc[t] = "wblock" /\ ~InExtent(call[t]) => call[t].n = 0

\* sp.c:1317-1318, BUG_ON(extra != 0) and BUG_ON(in_len != 0), can only be hit
\* by a file whose object has a capacity left over from a directory.
AssertsHoldOnFresh == \A t \in Tasks : pc[t] = "bug" => ~obj[call[t].o].fresh

\* A call that has returned holds no inode lock, but for the error paths of
\* spfs_read and spfs_write.
OnlyErrorsKeepLock ==
    \A t \in Tasks : pc[t] = "return" /\ obj[call[t].o].lock = t =>
        \/ call[t].kind = "read" /\ call[t].ret < 0
        \/ call[t].kind = "write" /\ call[t].ret # call[t].written

\* spfs_free_inode_cb never runs without a slab: BUG_ON(!spfs_inode_SLAB), and
\* kmem_cache_free into a slab that is destroyed.
SlabOutlivesCallbacks == \A o \in Objects : obj[o].life = "rcu" => module # "absent"

\* A lock whose holder has left the call it took the lock in.
Abandoned(o) ==
    LET t == obj[o].lock
    IN  t # NoTask /\ (pc[t] \in {"idle", "return", "lock"} \/ call[t].o # o)

\* Every call returns, unless a task has died or an earlier call on the same
\* object has failed and left the lock: spfs_read comes to the end of an extent
\* or of the device, spfs_write to the end of the chain.  Nothing is said of a
\* recycled object whose chain leads to an inode block: the number in it, taken
\* for a sector, may lead back.
CallReturns ==
    \A t \in Tasks : pc[t] # "idle" ~>
        \/ pc[t] = "idle"
        \/ \E u \in Tasks : pc[u] \in {"dead", "bug"}
        \/ Abandoned(call[t].o)
        \/ call[t].at \in Sector /\ IsPage(call[t].at)

-----------------------------------------------------------------------------
(* What a comment of the code says, and the code does not do *)

\* sp.c:1242-1243: a result of spfs_write that is not negative is the number of
\* bytes successfully written.
ReturnIsWritten ==
    \A t \in Tasks : pc[t] = "return" /\ call[t].kind = "write" /\ call[t].ret >= 0 =>
        call[t].ret = call[t].done
=============================================================================
