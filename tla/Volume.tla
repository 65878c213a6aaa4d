------------------------------- MODULE Volume --------------------------------
(***************************************************************************)
(* A volume from mkfs.spfs through mount, the creation and lookup of       *)
(* directory entries by concurrent tasks, writeback, unmount and crash.    *)
(*                                                                         *)
(* Composed here: spfs_fill_super_block, spfs_new_inode, spfs_inode_by_id, *)
(* spfs_create and spfs_mkdir with spfs_btree_insert and spfs_add_child,   *)
(* spfs_for_all_children (behind lookup and readdir), spfs_write_inode,    *)
(* the slab of inode objects and the kernel's buffer cache.  The allocator *)
(* appears as FreeList.tla shows it: on the image of mkfs.spfs (one run of *)
(* blocks from sector 2) a call for one block either takes the last sector *)
(* of the run or is refused.                                               *)
(*                                                                         *)
(* A task that runs into BUG_ON or a bad pointer dies where it stands: it  *)
(* keeps every lock it holds.                                              *)
(***************************************************************************)
EXTENDS Integers, Sequences, FiniteSets

CONSTANTS
    Tasks,         \* user tasks and the kernel's flusher
    NoTask,        \* a lock nobody holds
    Gone,          \* a lock whose holder returned from its call without releasing it
    DataBlocks,    \* blocks in the run that mkfs.spfs puts on the free list
    Foreign,       \* the sectors an earlier user of the device has left contents in
    DirCapacity,   \* children of a full directory block (100 in the code)
    MaxIno,        \* bound: the inode numbers given out in one mount
    MaxMounts,     \* bound: the mounts of a behaviour
    MaxSlab        \* bound: the freed inode objects the slab keeps for reuse

ASSUME VolumeAssumption ==
    /\ IsFiniteSet(Tasks) /\ NoTask \notin Tasks /\ Gone \notin Tasks \cup {NoTask}
    /\ DataBlocks \in Nat \ {0} /\ Foreign \subseteq 2 .. (DataBlocks + 1)
    /\ DirCapacity \in Nat \ {0}
    /\ MaxIno \in Nat \ {0} /\ MaxMounts \in Nat /\ MaxSlab \in Nat

-----------------------------------------------------------------------------
(* Blocks: what was last written into a sector.  Every spfs block but a tree *)
(* node starts with the same magic number 0xDEADBEEF.                        *)

Sector == 0 .. (DataBlocks + 1)

Zero == [kind |-> "zero", list |-> <<>>]
Used == [kind |-> "used", list |-> <<>>]
Super == [kind |-> "super", list |-> <<>>]
FreeBlock == [kind |-> "free", list |-> <<>>]
InodeBlock(i) == [kind |-> "inode", list |-> <<i>>]
NodeBlock(i) == [kind |-> "node", list |-> <<i>>]
DirBlock(children) == [kind |-> "dir", list |-> children]

\* bnode_length of a block that is read as a tree node; the magic number of
\* the other blocks is larger than the capacity (100) of a node.  Used stands for
\* the foreign contents that pass for a node with entries; whatever else may be
\* left on a device reads like Zero or like a block with the magic number.
NodeCapacity == 100
NodeLength(b) ==
    CASE b.kind = "zero" -> 0
      [] b.kind = "used" -> 1
      [] b.kind = "node" -> Len(b.list)
      [] OTHER           -> NodeCapacity + 1

\* bnode_bin_find_gte searches the block.  It counts bytes as entries and reads
\* far outside of the node: whatever it comes to is the memory around.
Searched(b) == NodeLength(b) \in 1 .. NodeCapacity

\* The inode numbers spfs_for_all_children reads from a block.  An inode block
\* passes the magic test, and its fields are read as numbers no inode has; a
\* block without the magic number lists nothing.
NoInode == MaxIno + 1
Listed(b) ==
    CASE b.kind = "dir"   -> b.list
      [] b.kind = "inode" -> <<NoInode>>
      [] OTHER            -> <<>>

Root == 1      \* SPFS_ROOT_INODE_NO

VARIABLES
    disk,       \* the device
    cache,      \* the buffer cache's view of it
    mounted,    \* sb->s_fs_info exists
    mounts,     \* how many mounts succeeded
    id,         \* sbi->id
    id_lock,    \* sbi->id_lock: the holder
    start,      \* sbi->tree.start
    tree_lock,  \* sbi->tree.lock: the holder
    free,       \* sbi->free_list.blocks: sectors 2 .. free + 1 are free
    inode,      \* the inode cache: number -> object and its locks
    pinned,     \* inodes with a reference nobody will drop
    fetching,   \* numbers whose inode is I_NEW: spfs_inode_by_id reads it
    dirty,      \* inodes marked by mark_inode_dirty
    slab,       \* freed inode objects, with the fields they were freed with
    pc,         \* where each task is
    parent,     \* the directory it works on
    isdir,      \* it is in spfs_mkdir, not spfs_create
    ino,        \* the inode number it works on
    todo,       \* the children it still has to visit
    res         \* what the step before returned

device_vars == <<disk, cache>>
super_vars == <<mounted, mounts, id, id_lock, start, tree_lock, free>>
inode_vars == <<inode, pinned, fetching, dirty, slab>>
local_vars == <<parent, isdir, ino, todo, res>>
task_vars == <<pc, local_vars>>
vars == <<device_vars, super_vars, inode_vars, task_vars>>

Idle == pc = [t \in Tasks |-> "idle"]

\* mkfs.spfs has written sectors 0 and 1; the others are as they were.
Init ==
    /\ disk = [s \in Sector |-> IF s = 0 THEN Super ELSE
                                IF s = 1 THEN FreeBlock ELSE
                                IF s \in Foreign THEN Used ELSE Zero]
    /\ cache = disk
    /\ mounted = FALSE /\ mounts = 0
    /\ id = Root /\ id_lock = NoTask
    /\ start = 0 /\ tree_lock = NoTask /\ free = 0
    /\ inode = [i \in {} |-> 0]
    /\ pinned = {} /\ fetching = {} /\ dirty = {} /\ slab = {}
    /\ Idle
    /\ parent = [t \in Tasks |-> Root] /\ isdir = [t \in Tasks |-> FALSE]
    /\ ino = [t \in Tasks |-> Root]
    /\ todo = [t \in Tasks |-> <<>>] /\ res = [t \in Tasks |-> "ok"]

Goto(t, label) == pc' = [pc EXCEPT ![t] = label]
Returns(t, value) == res' = [res EXCEPT ![t] = value]

\* The call of task t is over and its local variables are gone.
Finish(t) ==
    /\ Goto(t, "idle")
    /\ parent' = [parent EXCEPT ![t] = Root] /\ isdir' = [isdir EXCEPT ![t] = FALSE]
    /\ ino' = [ino EXCEPT ![t] = Root] /\ todo' = [todo EXCEPT ![t] = <<>>]
    /\ res' = [res EXCEPT ![t] = "ok"]

-----------------------------------------------------------------------------
(* Inode objects *)

\* What spfs_inode_init_once leaves in an object of a new slab page.
Constructed == [capacity |-> 0, start |-> 0, locked |-> FALSE]

\* spfs_alloc_inode: kmem_cache_alloc returns a constructed object or one that
\* was freed before; no field of spfs_inode is set again.
NewObjects == slab \cup {Constructed}

\* The inode in the cache; dentry: the directory from which a path leads to it,
\* so that the VFS can call for it, or 0.
Cached(o, d) == [isdir |-> d, capacity |-> o.capacity, start |-> o.start,
                 lock |-> IF o.locked THEN Gone ELSE NoTask,
                 rwsem |-> NoTask, dentry |-> 0]

\* The objects of the inodes in S go back to the slab, which keeps some of them.
Freed(S) ==
    LET objects == {[capacity |-> inode[i].capacity, start |-> inode[i].start,
                     locked |-> inode[i].lock # NoTask] : i \in S}
    IN  slab' \in {K \in SUBSET (slab \cup objects) : Cardinality(K) <= MaxSlab}

-----------------------------------------------------------------------------
(* Mount, unmount, crash *)

\* mkfs.spfs writes the super block and the free list and no other sector.
Mkfs ==
    /\ ~mounted
    /\ disk' = [disk EXCEPT ![0] = Super, ![1] = FreeBlock]
    /\ cache' = disk'
    /\ UNCHANGED <<super_vars, inode_vars, task_vars>>

\* spfs_fill_super_block.  The magic number must be right; the lookup of the
\* root inode in the empty tree fails, so spfs_new_inode makes it with the
\* first number.  A mount that is refused leaves nothing behind.
Mount ==
    /\ ~mounted /\ mounts < MaxMounts
    /\ cache[0] = Super
    /\ mounted' = TRUE /\ mounts' = mounts + 1
    /\ id' = Root + 1 /\ id_lock' = NoTask
    /\ start' = 0 /\ tree_lock' = NoTask
    /\ free' = DataBlocks
    /\ \E o \in NewObjects :
          /\ inode' = [i \in {Root} |-> [Cached(o, TRUE) EXCEPT !.dentry = Root]]
          /\ slab' = slab \ {o}
    /\ pinned' = {} /\ fetching' = {} /\ dirty' = {}
    /\ UNCHANGED <<device_vars, task_vars>>

\* The in-memory super block, its locks and the inode cache are gone.
Forgotten ==
    /\ mounted' = FALSE
    /\ id' = Root /\ id_lock' = NoTask
    /\ start' = 0 /\ tree_lock' = NoTask /\ free' = 0
    /\ inode' = [i \in {} |-> 0] /\ pinned' = {} /\ fetching' = {} /\ dirty' = {}
    /\ UNCHANGED mounts

\* kill_block_super and spfs_put_super: every buffer is written, the inodes
\* without a leaked reference are freed; the kernel's memory is not saved.
Umount ==
    /\ mounted /\ Idle /\ dirty = {}
    /\ disk' = cache
    /\ Freed(DOMAIN inode \ pinned)
    /\ Forgotten
    /\ UNCHANGED <<cache, task_vars>>

\* The machine stops: what is not on the device is gone.
Crash ==
    /\ mounted /\ mounts < MaxMounts
    /\ cache' = disk
    /\ slab' = {}
    /\ Forgotten
    /\ pc' = [t \in Tasks |-> "idle"]
    /\ parent' = [t \in Tasks |-> Root] /\ isdir' = [t \in Tasks |-> FALSE]
    /\ ino' = [t \in Tasks |-> Root] /\ todo' = [t \in Tasks |-> <<>>]
    /\ res' = [t \in Tasks |-> "ok"]
    /\ UNCHANGED disk

\* The kernel writes a dirty buffer, at any time and in any order.  In the last
\* mount of a behaviour nobody will read the device again, and it may be left out.
WriteBack(s) ==
    /\ cache[s] # disk[s] /\ mounts < MaxMounts
    /\ disk' = [disk EXCEPT ![s] = cache[s]]
    /\ UNCHANGED <<cache, super_vars, inode_vars, task_vars>>

\* The dentry of an unused inode is dropped and the inode evicted; the dentries
\* below a directory keep it.
Evict(i) ==
    /\ i \in DOMAIN inode \ ({Root} \cup pinned \cup dirty)
    /\ \A j \in DOMAIN inode : inode[j].dentry # i
    /\ \A t \in Tasks : pc[t] # "idle" => parent[t] # i /\ ino[t] # i
    /\ Freed({i})
    /\ inode' = [j \in DOMAIN inode \ {i} |-> inode[j]]
    /\ UNCHANGED <<device_vars, super_vars, pinned, fetching, dirty, task_vars>>

\* spfs_read or spfs_write of a regular file fails and returns with the lock of
\* the inode held; who can reach the file, FileIO.tla says.
LeaveLocked(i) ==
    /\ i \in DOMAIN inode /\ ~inode[i].isdir /\ inode[i].lock = NoTask
    /\ \A t \in Tasks : pc[t] # "idle" => ino[t] # i
    /\ inode' = [inode EXCEPT ![i].lock = Gone]
    /\ UNCHANGED <<device_vars, super_vars, pinned, fetching, dirty, slab, task_vars>>

-----------------------------------------------------------------------------
(* spfs_free_alloc of one block, on the image of mkfs.spfs *)

\* Mutant of CanAlloc: the total is not looked at.
CanAllocAlways == TRUE

CanAlloc == free > 1
LastFree == free + 1

\* Mutant of TakeBlock: the block stays on the list.
TakeNothing == UNCHANGED free

TakeBlock == free' = free - 1

-----------------------------------------------------------------------------
(* spfs_create and spfs_mkdir: spfs_generic_create *)

\* A path leads to directory d.
Reachable(d) == d \in DOMAIN inode /\ inode[d].isdir /\ inode[d].dentry # 0

\* The VFS calls with the semaphore of the directory held.
BeginCreate(t, d, k) ==
    /\ mounted /\ pc[t] = "idle"
    /\ Reachable(d) /\ inode[d].rwsem = NoTask
    /\ id + Cardinality({u \in Tasks : pc[u] \in {"id", "bump"}}) <= MaxIno
    /\ inode' = [inode EXCEPT ![d].rwsem = t]
    /\ parent' = [parent EXCEPT ![t] = d]
    /\ isdir' = [isdir EXCEPT ![t] = k]
    /\ Goto(t, "id")
    /\ UNCHANGED <<device_vars, super_vars, pinned, fetching, dirty, slab, ino, todo, res>>

\* Mutant of ReadId: id_lock is not taken.
ReadIdUnlocked(t) ==
    /\ pc[t] = "id"
    /\ ino' = [ino EXCEPT ![t] = id]
    /\ Goto(t, "bump")
    /\ UNCHANGED <<device_vars, super_vars, inode_vars, parent, isdir, todo, res>>

\* mutex_lock(&sbi->id_lock) and the read of needle = sbi->id++
ReadId(t) ==
    /\ pc[t] = "id" /\ id_lock = NoTask
    /\ id_lock' = t
    /\ ino' = [ino EXCEPT ![t] = id]
    /\ Goto(t, "bump")
    /\ UNCHANGED <<device_vars, mounted, mounts, id, start, tree_lock, free,
                   inode_vars, parent, isdir, todo, res>>

\* ... its write, and mutex_unlock
BumpId(t) ==
    /\ pc[t] = "bump"
    /\ id' = ino[t] + 1
    /\ id_lock' = NoTask
    /\ Goto(t, "iget")
    /\ UNCHANGED <<device_vars, mounted, mounts, start, tree_lock, free,
                   inode_vars, local_vars>>

\* iget_locked makes a new inode, once nobody else is fetching its number.
GetInode(t) ==
    /\ pc[t] = "iget" /\ ino[t] \notin DOMAIN inode \cup fetching
    /\ \E o \in NewObjects :
          /\ inode' = [i \in {ino[t]} \cup DOMAIN inode |->
                         IF i = ino[t] THEN Cached(o, isdir[t]) ELSE inode[i]]
          /\ slab' = slab \ {o}
    /\ Goto(t, "tree")
    /\ UNCHANGED <<device_vars, super_vars, pinned, fetching, dirty, local_vars>>

\* iget_locked fails or finds the number in the cache: spfs_new_inode returns an
\* error pointer, which spfs_generic_create takes for an inode and writes to.
GetInodeFails(t) ==
    /\ pc[t] = "iget" /\ ino[t] \notin fetching
    /\ Goto(t, "dead")
    /\ UNCHANGED <<device_vars, super_vars, inode_vars, local_vars>>

\* mutex_lock(&sbi->tree.lock): for spfs_btree_insert, for spfs_btree_lookup
\* in spfs_inode_by_id and for spfs_btree_modify in spfs_write_inode.
AfterTreeLock == [tree |-> "insert", fetch |-> "find", flush |-> "sync"]
LockTree(t) ==
    /\ pc[t] \in DOMAIN AfterTreeLock /\ tree_lock = NoTask
    /\ tree_lock' = t
    /\ Goto(t, AfterTreeLock[pc[t]])
    /\ UNCHANGED <<device_vars, mounted, mounts, id, id_lock, start, free,
                   inode_vars, local_vars>>

-----------------------------------------------------------------------------
(* spfs_btree_insert *)

\* The tree has a root: a root without entries trips the BUG_ON of
\* btree.c:876, one that is no tree node the BUG_ON in bnode_length, and the
\* search of foreign contents faults or never ends.
InsertBelowRoot(t) ==
    /\ pc[t] = "insert" /\ start # 0
    /\ Goto(t, "dead")
    /\ UNCHANGED <<device_vars, super_vars, inode_vars, local_vars>>

\* sb_bread of the root, or of a child, fails; or the search of foreign contents
\* takes something for the number.  Nothing is allocated below a root.
InsertNoRoot(t) ==
    /\ pc[t] = "insert" /\ start # 0
    /\ \/ Returns(t, "EIO")
       \/ Searched(cache[start]) /\ Returns(t, "1")
    /\ Goto(t, "inserted")
    /\ UNCHANGED <<device_vars, super_vars, inode_vars, parent, isdir, ino, todo>>

\* The tree is empty: btree_insert allocates and writes the inode block and
\* leaves it to the bubble.
InsertPage(t) ==
    /\ pc[t] = "insert" /\ start = 0 /\ CanAlloc
    /\ TakeBlock
    /\ cache' = [cache EXCEPT ![LastFree] = InodeBlock(ino[t])]
    /\ Goto(t, "newroot")
    /\ UNCHANGED <<disk, mounted, mounts, id, id_lock, start, tree_lock,
                   inode_vars, parent, isdir, ino, todo, res>>

\* No block is left (returned as 1), or sb_bread fails and the block is lost.
InsertNoPage(t) ==
    /\ pc[t] = "insert" /\ start = 0
    /\ \/ ~CanAlloc /\ Returns(t, "1") /\ UNCHANGED free
       \/ CanAlloc /\ TakeBlock /\ Returns(t, "EIO")
    /\ Goto(t, "inserted")
    /\ UNCHANGED <<device_vars, mounted, mounts, id, id_lock, start, tree_lock,
                   inode_vars, parent, isdir, ino, todo>>

\* bnode_alloc_root: a sector is allocated for the root, but the node is made
\* in the sector self->start still names.
InsertRoot(t) ==
    /\ pc[t] = "newroot" /\ CanAlloc
    /\ TakeBlock
    /\ cache' = [cache EXCEPT ![start] = NodeBlock(ino[t])]
    /\ start' = LastFree
    /\ Returns(t, "ok")
    /\ Goto(t, "inserted")
    /\ UNCHANGED <<disk, mounted, mounts, id, id_lock, tree_lock, inode_vars,
                   parent, isdir, ino, todo>>

\* bnode_alloc_root fails: BUG_ON(nres != 0).
InsertRootFails(t) ==
    /\ pc[t] = "newroot"
    /\ IF CanAlloc THEN TakeBlock ELSE UNCHANGED free
    /\ Goto(t, "dead")
    /\ UNCHANGED <<device_vars, mounted, mounts, id, id_lock, start, tree_lock,
                   inode_vars, local_vars>>

\* Mutant of InsertDone: the result of the insertion is not looked at.
InsertDoneAnyway(t) ==
    /\ pc[t] = "inserted"
    /\ tree_lock' = NoTask
    /\ Goto(t, "parent")
    /\ UNCHANGED <<device_vars, mounted, mounts, id, id_lock, start, free,
                   inode_vars, local_vars>>

\* Mutant of InsertDone: the error path keeps tree.lock.
InsertDoneKeepsLock(t) ==
    /\ pc[t] = "inserted"
    /\ IF res[t] = "ok"
       THEN Goto(t, "parent") /\ tree_lock' = NoTask /\ UNCHANGED <<inode, pinned, local_vars>>
       ELSE /\ pinned' = pinned \cup {ino[t]}
            /\ inode' = [inode EXCEPT ![parent[t]].rwsem = NoTask]
            /\ Finish(t)
            /\ UNCHANGED tree_lock
    /\ UNCHANGED <<device_vars, mounted, mounts, id, id_lock, start, free,
                   fetching, dirty, slab>>

\* mutex_unlock.  A failed insertion ends the call, and nobody drops the
\* reference to the new inode; otherwise d_instantiate and spfs_add_child.
InsertDone(t) ==
    /\ pc[t] = "inserted"
    /\ tree_lock' = NoTask
    /\ IF res[t] = "ok"
       THEN Goto(t, "parent") /\ UNCHANGED <<inode, pinned, local_vars>>
       ELSE /\ pinned' = pinned \cup {ino[t]}
            /\ inode' = [inode EXCEPT ![parent[t]].rwsem = NoTask]
            /\ Finish(t)
    /\ UNCHANGED <<device_vars, mounted, mounts, id, id_lock, start, free,
                   fetching, dirty, slab>>

-----------------------------------------------------------------------------
(* spfs_add_child *)

\* Mutant of LockParent: the new child is not counted.
LockParentUncounted(t) ==
    /\ pc[t] = "parent" /\ inode[parent[t]].lock = NoTask
    /\ inode' = [inode EXCEPT ![parent[t]].lock = t]
    /\ dirty' = dirty \cup {parent[t]}
    /\ Goto(t, "add")
    /\ UNCHANGED <<device_vars, super_vars, pinned, fetching, slab, local_vars>>

\* mutex_lock(&parent->lock), parent->capacity++ and mark_inode_dirty
LockParent(t) ==
    /\ pc[t] = "parent" /\ inode[parent[t]].lock = NoTask
    /\ inode' = [inode EXCEPT ![parent[t]].lock = t, ![parent[t]].capacity = @ + 1]
    /\ dirty' = dirty \cup {parent[t]}
    /\ Goto(t, "add")
    /\ UNCHANGED <<device_vars, super_vars, pinned, fetching, slab, local_vars>>

\* The directory's block, and whether spfs_dir_is_full says that it is full.
Place(t) == inode[parent[t]].start
IsFull(b) == b.kind = "dir" /\ Len(b.list) = DirCapacity

\* Mutant of AddToBlock: a block with the magic number is a directory block.
AddToAnyBlock(t) ==
    /\ pc[t] = "add" /\ Place(t) # 0
    /\ LET b == cache[Place(t)]
       IN  /\ b.kind \in {"dir", "inode"} /\ ~IsFull(b)
           /\ cache' = [cache EXCEPT ![Place(t)] = DirBlock(Append(Listed(b), ino[t]))]
    /\ Returns(t, "ok")
    /\ Goto(t, "unlock")
    /\ UNCHANGED <<disk, super_vars, inode_vars, parent, isdir, ino, todo>>

\* The block has room: the child is written behind the others and the header
\* with the new number of children over the old one.
AddToBlock(t) ==
    /\ pc[t] = "add" /\ Place(t) # 0
    /\ LET b == cache[Place(t)]
       IN  /\ b.kind = "dir" /\ ~IsFull(b)
           /\ cache' = [cache EXCEPT ![Place(t)] = DirBlock(Append(b.list, ino[t]))]
    /\ Returns(t, "ok")
    /\ Goto(t, "unlock")
    /\ UNCHANGED <<disk, super_vars, inode_vars, parent, isdir, ino, todo>>

\* sb_bread fails or the block is not a directory block.  An inode block has
\* the magic number; its fields are taken for a number of children far outside
\* of the block, and spfs_sb_remaining runs into BUG_ON.
AddToNoBlock(t) ==
    /\ pc[t] = "add" /\ Place(t) # 0
    /\ \/ Returns(t, "EIO") /\ Goto(t, "unlock")
       \/ /\ cache[Place(t)].kind = "inode"
          /\ Goto(t, "dead")
          /\ UNCHANGED res
    /\ UNCHANGED <<device_vars, super_vars, inode_vars, parent, isdir, ino, todo>>

\* There is no block, or it is full and has no successor: a new block becomes
\* the directory's only block.
AddNewBlock(t) ==
    /\ pc[t] = "add" /\ (Place(t) = 0 \/ IsFull(cache[Place(t)]))
    /\ CanAlloc
    /\ TakeBlock
    /\ cache' = [cache EXCEPT ![LastFree] = DirBlock(<<ino[t]>>)]
    /\ inode' = [inode EXCEPT ![parent[t]].start = LastFree]
    /\ Returns(t, "ok")
    /\ Goto(t, "unlock")
    /\ UNCHANGED <<disk, mounted, mounts, id, id_lock, start, tree_lock, pinned,
                   fetching, dirty, slab, parent, isdir, ino, todo>>

\* No block is left, or sb_bread fails and the block is lost; parent->start is
\* set to 0.
AddNoNewBlock(t) ==
    /\ pc[t] = "add" /\ (Place(t) = 0 \/ IsFull(cache[Place(t)]))
    /\ IF CanAlloc THEN TakeBlock ELSE UNCHANGED free
    /\ inode' = [inode EXCEPT ![parent[t]].start = 0]
    /\ Returns(t, "EINVAL")
    /\ Goto(t, "unlock")
    /\ UNCHANGED <<device_vars, mounted, mounts, id, id_lock, start, tree_lock,
                   pinned, fetching, dirty, slab, parent, isdir, ino, todo>>

\* Mutant of UnlockParent: the failed call returns with parent->lock held.
UnlockParentOnSuccess(t) ==
    /\ pc[t] = "unlock"
    /\ inode' = [inode EXCEPT ![parent[t]].lock = IF res[t] = "ok" THEN NoTask ELSE @,
                              ![parent[t]].rwsem = NoTask]
    /\ Finish(t)
    /\ UNCHANGED <<device_vars, super_vars, pinned, fetching, dirty, slab>>

\* mutex_unlock(&parent->lock), and the VFS releases the semaphore
UnlockParent(t) ==
    /\ pc[t] = "unlock"
    /\ inode' = [inode EXCEPT ![parent[t]].lock = NoTask, ![parent[t]].rwsem = NoTask]
    /\ Finish(t)
    /\ UNCHANGED <<device_vars, super_vars, pinned, fetching, dirty, slab>>

-----------------------------------------------------------------------------
(* spfs_lookup and spfs_iterate: spfs_for_all_children *)

BeginScan(t, d) ==
    /\ mounted /\ pc[t] = "idle"
    /\ Reachable(d) /\ inode[d].rwsem = NoTask
    /\ inode' = [inode EXCEPT ![d].rwsem = t]
    /\ parent' = [parent EXCEPT ![t] = d]
    /\ ino' = [ino EXCEPT ![t] = d]
    /\ Goto(t, "scan")
    /\ UNCHANGED <<device_vars, super_vars, pinned, fetching, dirty, slab, isdir,
                   todo, res>>

\* mutex_lock(&parent->lock), sb_bread and spfs_parse_dir_block: the children
\* the block lists, or none when the block cannot be read.
ReadDir(t) ==
    /\ pc[t] = "scan" /\ inode[parent[t]].lock = NoTask
    /\ inode' = [inode EXCEPT ![parent[t]].lock = t]
    /\ \/ todo' = [todo EXCEPT ![t] = <<>>]
       \/ Place(t) # 0 /\ todo' = [todo EXCEPT ![t] = Listed(cache[Place(t)])]
    /\ Goto(t, "child")
    /\ UNCHANGED <<device_vars, super_vars, pinned, fetching, dirty, slab, parent,
                   isdir, ino, res>>

\* The next child is in the inode cache.  The callback goes on, or stops because
\* readdir's buffer is full, and nobody drops the reference; or it has found its
\* name, and spfs_lookup gives the reference to the dentry.
VisitCached(t) ==
    /\ pc[t] = "child" /\ todo[t] # <<>> /\ Head(todo[t]) \in DOMAIN inode
    /\ \/ /\ todo' \in {[todo EXCEPT ![t] = Tail(@)], [todo EXCEPT ![t] = <<>>]}
          /\ pinned' = pinned \cup {Head(todo[t])}
          /\ UNCHANGED inode
       \/ /\ todo' = [todo EXCEPT ![t] = <<>>]
          /\ inode' = [inode EXCEPT ![Head(todo[t])].dentry = parent[t]]
          /\ UNCHANGED pinned
    /\ UNCHANGED <<device_vars, super_vars, fetching, dirty, slab, pc, parent,
                   isdir, ino, res>>

\* It is not: iget_locked makes an I_NEW inode, unless somebody else already
\* fetches it, or fails and the child is passed over.
VisitUncached(t) ==
    /\ pc[t] = "child" /\ todo[t] # <<>>
    /\ Head(todo[t]) \notin DOMAIN inode \cup fetching
    /\ \/ /\ ino' = [ino EXCEPT ![t] = Head(todo[t])]
          /\ fetching' = fetching \cup {Head(todo[t])}
          /\ Goto(t, "fetch")
          /\ UNCHANGED todo
       \/ /\ todo' = [todo EXCEPT ![t] = Tail(@)]
          /\ UNCHANGED <<ino, fetching, pc>>
    /\ UNCHANGED <<device_vars, super_vars, inode, pinned, dirty, slab, parent,
                   isdir, res>>

\* The tree does not have the number (or sb_bread fails): mutex_unlock and
\* iget_failed, and the callback is called with a null pointer.
FindNothing(t) ==
    /\ pc[t] = "find"
    /\ tree_lock' = NoTask
    /\ fetching' = fetching \ {ino[t]}
    /\ Goto(t, "dead")
    /\ UNCHANGED <<device_vars, mounted, mounts, id, id_lock, start, free, inode,
                   pinned, dirty, slab, local_vars>>

\* The root of the tree is not a node, BUG_ON in bnode_length, or the search of
\* foreign contents faults or never ends.
FindBug(t) ==
    /\ pc[t] \in {"find", "sync"}
    /\ start # 0 /\ NodeLength(cache[start]) # 0
    /\ Goto(t, "dead")
    /\ UNCHANGED <<device_vars, super_vars, inode_vars, local_vars>>

\* The search of foreign contents finds the number, and the callback copies an
\* spfs_inode of the stack over the I_NEW inode, its locks and lists included:
\* the task does not get past the next use of it.
FindGarbage(t) ==
    /\ pc[t] = "find" /\ start # 0 /\ Searched(cache[start])
    /\ tree_lock' = NoTask
    /\ Goto(t, "dead")
    /\ UNCHANGED <<device_vars, mounted, mounts, id, id_lock, start, free,
                   inode_vars, local_vars>>

ScanDone(t) ==
    /\ pc[t] = "child" /\ todo[t] = <<>>
    /\ Goto(t, "unlock")
    /\ UNCHANGED <<device_vars, super_vars, inode_vars, local_vars>>

-----------------------------------------------------------------------------
(* spfs_write_inode, called by the flusher for a dirty inode *)

BeginFlush(t, i) ==
    /\ mounted /\ pc[t] = "idle" /\ i \in dirty
    /\ dirty' = dirty \ {i}
    /\ ino' = [ino EXCEPT ![t] = i]
    /\ parent' = [parent EXCEPT ![t] = i]
    /\ Goto(t, "flush")
    /\ UNCHANGED <<device_vars, super_vars, inode, pinned, fetching, slab, isdir,
                   todo, res>>

\* The search of foreign contents finds the inode, in any sector with the magic
\* number: spfs_inode_make writes back the fields it was parsed for, and memory of
\* the stack for the name.  In a directory block that is where children are.
FlushFound(t) ==
    /\ pc[t] = "sync" /\ start # 0 /\ Searched(cache[start])
    /\ \E s \in Sector \ {0} :
          /\ cache[s].kind = "dir"
          /\ \E lost \in SUBSET DOMAIN cache[s].list :
                cache' = [cache EXCEPT ![s] = DirBlock(
                    [k \in DOMAIN cache[s].list |->
                        IF k \in lost THEN NoInode ELSE cache[s].list[k]])]
    /\ tree_lock' = NoTask
    /\ Finish(t)
    /\ UNCHANGED <<disk, mounted, mounts, id, id_lock, start, free, inode_vars>>

\* The tree does not have the inode, so no block is written.
FlushNothing(t) ==
    /\ pc[t] = "sync"
    /\ tree_lock' = NoTask
    /\ Finish(t)
    /\ UNCHANGED <<device_vars, mounted, mounts, id, id_lock, start, free,
                   inode_vars>>

-----------------------------------------------------------------------------

CreateStep(t) ==
    \/ ReadId(t) \/ BumpId(t) \/ GetInode(t) \/ GetInodeFails(t)
    \/ InsertBelowRoot(t) \/ InsertNoRoot(t) \/ InsertPage(t) \/ InsertNoPage(t)
    \/ InsertRoot(t) \/ InsertRootFails(t) \/ InsertDone(t)
    \/ LockParent(t) \/ AddToBlock(t) \/ AddToNoBlock(t) \/ AddNewBlock(t)
    \/ AddNoNewBlock(t)

ScanStep(t) ==
    \/ ReadDir(t) \/ VisitCached(t) \/ VisitUncached(t) \/ ScanDone(t)
    \/ FindNothing(t) \/ FindBug(t) \/ FindGarbage(t)
    \/ FlushFound(t) \/ FlushNothing(t)

Step(t) == CreateStep(t) \/ ScanStep(t) \/ LockTree(t) \/ UnlockParent(t)

Begin(t) ==
    \/ \E d \in DOMAIN inode : BeginScan(t, d) \/ \E k \in BOOLEAN : BeginCreate(t, d, k)
    \/ \E i \in dirty : BeginFlush(t, i)

Next ==
    \/ Mkfs \/ Mount \/ Umount \/ Crash
    \/ \E s \in Sector : WriteBack(s)
    \/ \E i \in DOMAIN inode : Evict(i) \/ LeaveLocked(i)
    \/ \E t \in Tasks : Step(t) \/ Begin(t)

Spec == Init /\ [][Next]_vars

\* The steps that wait for a mutex or for an I_NEW inode.
Acquire(t) ==
    ReadId(t) \/ LockTree(t) \/ LockParent(t) \/ ReadDir(t) \/ GetInode(t)
        \/ VisitUncached(t)

\* A task inside spfs is scheduled again, and a mutex or the wait for an I_NEW
\* inode goes to each waiter in the end.
Fairness == \A t \in Tasks : WF_vars(Step(t)) /\ SF_vars(Acquire(t))

FairSpec == Spec /\ Fairness

-----------------------------------------------------------------------------
(* Properties *)

Labels == {"idle", "dead", "id", "bump", "iget", "tree", "insert", "newroot",
           "inserted", "parent", "add", "unlock", "scan", "child", "fetch",
           "find", "flush", "sync"}
Numbers == 1 .. (MaxIno + 1)
Block == [kind : {"zero", "used", "super", "free", "inode", "node", "dir"},
          list : Seq(Numbers)]
InodeFields == [isdir : BOOLEAN, capacity : Nat, start : Sector,
                lock : Tasks \cup {NoTask, Gone}, rwsem : Tasks \cup {NoTask},
                dentry : {0} \cup Numbers]
ObjectFields == [capacity : Nat, start : Sector, locked : BOOLEAN]

\* Every variable has its type; the count of free blocks does not underflow.
TypeOK ==
    /\ disk \in [Sector -> Block] /\ cache \in [Sector -> Block]
    /\ mounted \in BOOLEAN /\ mounts \in 0 .. MaxMounts
    /\ id \in Numbers /\ id_lock \in Tasks \cup {NoTask}
    /\ start \in Sector /\ tree_lock \in Tasks \cup {NoTask}
    /\ free \in 0 .. DataBlocks
    /\ DOMAIN inode \subseteq 1 .. MaxIno
    /\ \A i \in DOMAIN inode : inode[i] \in InodeFields
    /\ pinned \subseteq Numbers /\ fetching \subseteq Numbers
    /\ dirty \subseteq Numbers
    /\ slab \subseteq ObjectFields
    /\ pc \in [Tasks -> Labels] /\ parent \in [Tasks -> Numbers]
    /\ isdir \in [Tasks -> BOOLEAN] /\ ino \in [Tasks -> Numbers]
    /\ todo \in [Tasks -> Seq(Numbers)]
    /\ res \in [Tasks -> {"ok", "1", "EIO", "EINVAL"}]

Directories == {i \in DOMAIN inode : inode[i].isdir /\ inode[i].start # 0}

\* sp.c:157 "should never happen": the number spfs_new_inode has drawn is not
\* in the inode cache, and no other task holds the same number.
NumbersFresh ==
    \A t \in Tasks : pc[t] = "iget" =>
        /\ ino[t] \notin DOMAIN inode
        /\ \A u \in Tasks \ {t} : pc[u] \in {"iget", "tree", "insert"} => ino[u] # ino[t]

\* As long as no inode object is recycled (MaxSlab = 0), the sectors in use were
\* allocated in this mount and have one owner: the allocator cannot give away
\* the root of the tree or a directory's block, and a directory's block is a
\* directory block of no other directory.
SectorsOwned ==
    mounted =>
        /\ start # 0 => start > free + 1
        /\ \A i \in Directories :
              /\ inode[i].start > free + 1 /\ inode[i].start # start
              /\ cache[inode[i].start].kind = "dir"
              /\ \A j \in Directories : inode[j].start = inode[i].start => j = i

\* The children a directory's block lists.
Children(i) == LET b == cache[inode[i].start] IN IF b.kind = "dir" THEN b.list ELSE <<>>

\* spfs_create lists a child only after spfs_btree_insert has written its inode
\* block: as long as no inode object is recycled, whatever a directory lists has
\* an inode block in the cache, unless a stray flush has written over it.
ListedHasInode ==
    \A i \in Directories : \A c \in 1 .. Len(Children(i)) :
        \/ Children(i)[c] = NoInode
        \/ \E s \in Sector : cache[s] = InodeBlock(Children(i)[c])

\* spfs_iterate stops at capacity + 2 entries: as long as no inode object is
\* recycled, the capacity of a directory is never less than the number of
\* children its block lists.
CapacityCovers ==
    \A i \in Directories : Len(Children(i)) <= inode[i].capacity

\* The allocated blocks of a mount survive it, whatever block an inode object
\* recycled from an earlier life names as its own: no create, flush or lookup
\* writes over an inode block that is no longer on the free list or takes a
\* child out of a directory block (a stray flush may damage the number).
BlockKept(b, c) ==
    /\ b.kind = "inode" => c = b
    /\ b.kind = "dir" =>
          /\ c.kind = "dir" /\ Len(b.list) <= Len(c.list)
          /\ \A k \in 1 .. Len(b.list) : c.list[k] \in {b.list[k], NoInode}
AllocatedKept ==
    [][mounted /\ mounted' =>
          \A s \in Sector : s > free + 1 => BlockKept(cache[s], cache'[s])]_vars

\* A directory has got an inode object with the lock of a failed read or write.
LockLeft == \E i \in DOMAIN inode : inode[i].isdir /\ inode[i].lock = Gone

\* The order of the locks (semaphore, parent->lock, tree.lock) has no cycle:
\* while no task has died and no directory was given a locked object, some task
\* inside spfs can take a step.
NobodyStuck ==
    \/ \E t \in Tasks : pc[t] = "dead"
    \/ LockLeft
    \/ \A t \in Tasks : pc[t] = "idle"
    \/ \E t \in Tasks : ENABLED Step(t)

\* Task t is inside spfs at a mutex that is held, or at an inode that somebody
\* else is fetching.
Waits(t) ==
    \/ pc[t] = "id" /\ id_lock # NoTask
    \/ pc[t] \in DOMAIN AfterTreeLock /\ tree_lock # NoTask
    \/ pc[t] \in {"parent", "scan"} /\ inode[parent[t]].lock # NoTask
    \/ pc[t] = "iget" /\ ino[t] \in fetching
    \/ pc[t] = "child" /\ todo[t] # <<>> /\ Head(todo[t]) \in fetching \ DOMAIN inode

\* The tasks never all wait for each other: unless a task has died or a directory
\* was given a locked object, some task inside spfs has what it needs, with
\* id_lock, parent->lock, tree.lock and the I_NEW inodes of spfs_inode_by_id held
\* in any combination.
NoWaitCycle ==
    \/ \E t \in Tasks : pc[t] = "dead"
    \/ LockLeft
    \/ \A t \in Tasks : pc[t] = "idle"
    \/ \E t \in Tasks : pc[t] # "idle" /\ ~Waits(t)

\* Every call returns unless some task has died or a directory was given a locked
\* object.
CallsReturn ==
    \A t \in Tasks : pc[t] # "idle" ~>
        pc[t] = "idle" \/ LockLeft \/ \E u \in Tasks : pc[u] = "dead"

-----------------------------------------------------------------------------
(* What comments and assertions of the code say, and the code does not do *)

\* sp.c:53-55: the super block is located at sector 0 and occupies all of it.
SuperBlockAtZero == mounted => cache[0] = Super

\* sp.c:1785-1786: alloc_inode allocates the memory of an inode and initializes
\* it, so that a new inode has no block and no children.
NewInodeInitialised ==
    [][\A i \in DOMAIN inode' \ DOMAIN inode :
          inode'[i].start = 0 /\ inode'[i].capacity = 0]_vars
=============================================================================
