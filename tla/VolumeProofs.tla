---------------------------- MODULE VolumeProofs -----------------------------
(***************************************************************************)
(* Proofs about Volume.tla, for every number of tasks, blocks, inodes and  *)
(* mounts.                                                                 *)
(***************************************************************************)
EXTENDS Volume, FiniteSetTheorems, TLAPS

-----------------------------------------------------------------------------
(* The inductive invariant *)

Drawing == {t \in Tasks : pc[t] \in {"id", "bump"}}
Numbered == {"tree", "insert", "newroot", "inserted", "parent", "add"}
HoldsTree == {"insert", "newroot", "inserted", "find", "sync"}
HoldsParent == {"add", "unlock", "child", "fetch", "find"}
NoParent == {"idle", "dead", "flush", "sync"}

\* Without a mount there is no call and no inode; a call works on a directory
\* that stays in the inode cache, and so does a dirty inode.
Located ==
    /\ ~mounted => start = 0 /\ DOMAIN inode = {} /\ \A t \in Tasks : pc[t] = "idle"
    /\ \A t \in Tasks : pc[t] # "idle" => parent[t] \in DOMAIN inode
    /\ \A t \in Tasks : pc[t] \notin NoParent => inode[parent[t]].isdir
    /\ dirty \subseteq DOMAIN inode

\* The next number is larger than every one in use, and enough are left for the
\* tasks that are about to draw one.
NextNumber ==
    /\ id + Cardinality(Drawing) <= MaxIno + 1
    /\ \A t \in Tasks : pc[t] = "bump" => id_lock = t /\ ino[t] = id
    /\ \A t \in Tasks : pc[t] \in {"iget"} \cup Numbered => ino[t] < id
    /\ \A i \in DOMAIN inode : i < id

\* A number that is drawn belongs to one task, and then to an inode.
OneOwner ==
    /\ \A t \in Tasks : pc[t] = "iget" => ino[t] \notin DOMAIN inode
    /\ \A t, u \in Tasks : t # u /\ pc[t] = "iget" /\ pc[u] = "iget" => ino[t] # ino[u]
    /\ \A t \in Tasks : pc[t] \in Numbered => ino[t] \in DOMAIN inode

\* tree.lock has one holder, and it makes a root only where there is none.
TreeLocked ==
    /\ \A t \in Tasks : pc[t] \in HoldsTree => tree_lock = t
    /\ \A t \in Tasks : pc[t] = "newroot" => start = 0

Basic == TypeOK /\ Located /\ NextNumber /\ OneOwner /\ TreeLocked

\* The rest holds while the slab hands out constructed objects only.

LockHeld == \A t \in Tasks : pc[t] \in HoldsParent => inode[parent[t]].lock = t

\* The inode block of number n is in an allocated sector.
HasInode(n) == \E s \in Sector : s > free + 1 /\ cache[s] = InodeBlock(n)

InodesWritten ==
    /\ \A i \in Directories : \A c \in 1 .. Len(Children(i)) :
          Children(i)[c] = NoInode \/ HasInode(Children(i)[c])
    /\ \A t \in Tasks : \/ pc[t] \in {"newroot", "parent", "add"}
                        \/ pc[t] = "inserted" /\ res[t] = "ok"
                        => HasInode(ino[t])

\* The child that spfs_add_child is adding is already counted.
Counted ==
    /\ CapacityCovers
    /\ \A t \in Tasks : pc[t] = "add" =>
          /\ inode[parent[t]].capacity >= 1
          /\ parent[t] \in Directories => Len(Children(parent[t])) < inode[parent[t]].capacity

Pristine == slab = {} /\ LockHeld /\ SectorsOwned /\ InodesWritten /\ Counted

IInv == Basic /\ (MaxSlab = 0 => Pristine)

-----------------------------------------------------------------------------
(* Types *)

\* Numbers, sectors and labels.
LEMMA Constants ==
    /\ Root \in Numbers /\ Root \in 1 .. MaxIno /\ NoInode \in Numbers
    /\ 0 \in Sector /\ 1 \in Sector /\ Sector \subseteq Nat
    /\ NoTask \notin Tasks /\ Gone \notin Tasks /\ Gone # NoTask
    /\ DataBlocks \in Nat /\ MaxIno \in Nat /\ MaxMounts \in Nat /\ MaxSlab \in Nat
BY VolumeAssumption DEF Root, Numbers, NoInode, Sector

DeviceOK == disk \in [Sector -> Block] /\ cache \in [Sector -> Block]
SuperOK ==
    /\ mounted \in BOOLEAN /\ mounts \in 0 .. MaxMounts
    /\ id \in Numbers /\ id_lock \in Tasks \cup {NoTask}
    /\ start \in Sector /\ tree_lock \in Tasks \cup {NoTask}
    /\ free \in 0 .. DataBlocks
InodeOK ==
    /\ DOMAIN inode \subseteq 1 .. MaxIno
    /\ \A i \in DOMAIN inode : inode[i] \in InodeFields
    /\ pinned \subseteq Numbers /\ fetching \subseteq Numbers /\ dirty \subseteq Numbers
    /\ slab \subseteq ObjectFields
TaskOK ==
    /\ pc \in [Tasks -> Labels] /\ parent \in [Tasks -> Numbers]
    /\ isdir \in [Tasks -> BOOLEAN] /\ ino \in [Tasks -> Numbers]
    /\ todo \in [Tasks -> Seq(Numbers)]
    /\ res \in [Tasks -> {"ok", "1", "EIO", "EINVAL"}]

\* The type invariant in parts: the device, the super block, the inodes, the
\* tasks.
LEMMA TypeParts == TypeOK <=> DeviceOK /\ SuperOK /\ InodeOK /\ TaskOK
BY Zenon DEF TypeOK, DeviceOK, SuperOK, InodeOK, TaskOK

\* Mount, unmount, crash, writeback, eviction and the locks that files leave.
SystemStep ==
    \/ Mkfs \/ Mount \/ Umount \/ Crash
    \/ \E s \in Sector : WriteBack(s)
    \/ \E i \in DOMAIN inode : Evict(i) \/ LeaveLocked(i)

\* Every step is one of the system or one of a task.
LEMMA NextSplit == Next <=> SystemStep \/ \E t \in Tasks : Step(t) \/ Begin(t)
BY Zenon DEF Next, SystemStep

\* A block that spfs_free_alloc gives away is the last of the run.
LEMMA TakenBlock ==
    ASSUME SuperOK, CanAlloc, TakeBlock
    PROVE  /\ free' = free - 1 /\ free' \in 0 .. DataBlocks /\ free \in Nat
           /\ LastFree = free + 1 /\ LastFree \in Sector \ {0}
BY Constants DEF SuperOK, CanAlloc, TakeBlock, LastFree, Sector

\* What is written into the buffer cache is a block.
LEMMA BlockTypes ==
    /\ \A i \in Numbers : InodeBlock(i) \in Block /\ NodeBlock(i) \in Block /\ DirBlock(<<i>>) \in Block
    /\ Zero \in Block /\ Used \in Block /\ Super \in Block /\ FreeBlock \in Block
    /\ \A b \in Block : b.list \in Seq(Numbers) /\ Listed(b) \in Seq(Numbers)
    /\ \A b \in Block, i \in Numbers : DirBlock(Append(b.list, i)) \in Block
<1>1. \A i \in Numbers : <<i>> \in Seq(Numbers)
  OBVIOUS
<1>2. \A b \in Block : b.list \in Seq(Numbers)
  BY DEF Block
<1>3. \A q \in Seq(Numbers), i \in Numbers : Append(q, i) \in Seq(Numbers)
  OBVIOUS
<1>4. <<>> \in Seq(Numbers)
  OBVIOUS
<1>5. \A b \in Block : Listed(b) \in Seq(Numbers)
  BY <1>1, <1>2, <1>4, Constants DEF Listed
<1> QED
  BY <1>1, <1>2, <1>3, <1>4, <1>5
  DEF InodeBlock, NodeBlock, DirBlock, Zero, Used, Super, FreeBlock, Block

\* The steps of a task that write a buffer.
LEMMA CacheChanges ==
    ASSUME NEW t \in Tasks, Step(t) \/ Begin(t)
    PROVE  /\ disk' = disk
           /\ \/ cache' = cache \/ InsertPage(t) \/ InsertRoot(t) \/ AddToBlock(t) \/ AddNewBlock(t)
              \/ FlushFound(t)
<1>1. CASE Begin(t)
  BY <1>1, Zenon DEF Begin, BeginCreate, BeginScan, BeginFlush, device_vars
<1>2. CASE LockTree(t) \/ UnlockParent(t) \/ ScanStep(t)
  BY <1>2, Zenon
  DEF LockTree, UnlockParent, ScanStep, ReadDir, VisitCached, VisitUncached, ScanDone, FindNothing,
      FindBug, FindGarbage, FlushFound, FlushNothing, device_vars
<1>3. CASE CreateStep(t)
  BY <1>3, Zenon
  DEF CreateStep, ReadId, BumpId, GetInode, GetInodeFails, InsertBelowRoot, InsertNoRoot, InsertPage,
      InsertNoPage, InsertRoot, InsertRootFails, InsertDone, LockParent, AddToBlock, AddToNoBlock,
      AddNewBlock, AddNoNewBlock, device_vars
<1> QED
  BY <1>1, <1>2, <1>3 DEF Step

\* The steps of a task that change an inode in the cache.
LEMMA InodeChanges ==
    ASSUME NEW t \in Tasks, Step(t) \/ Begin(t)
    PROVE  \/ inode' = inode
           \/ GetInode(t) \/ InsertDone(t) \/ LockParent(t) \/ AddNewBlock(t) \/ AddNoNewBlock(t)
           \/ ReadDir(t) \/ VisitCached(t) \/ UnlockParent(t) \/ Begin(t)
<1>1. CASE LockTree(t) \/ ScanStep(t)
  BY <1>1, Zenon
  DEF LockTree, ScanStep, VisitUncached, ScanDone, FindNothing, FindBug, FindGarbage,
      FlushFound, FlushNothing, inode_vars
<1>2. CASE CreateStep(t)
  BY <1>2, Zenon
  DEF CreateStep, ReadId, BumpId, GetInodeFails, InsertBelowRoot, InsertNoRoot, InsertPage,
      InsertNoPage, InsertRoot, InsertRootFails, AddToBlock, AddToNoBlock, inode_vars
<1> QED
  BY <1>1, <1>2 DEF Step

\* The place of the directory that a call works on.
LEMMA ParentPlace ==
    ASSUME Basic, NEW t \in Tasks, pc[t] # "idle"
    PROVE  /\ parent[t] \in DOMAIN inode /\ inode[parent[t]] \in InodeFields
           /\ Place(t) = inode[parent[t]].start /\ Place(t) \in Sector
<1>1. parent[t] \in DOMAIN inode /\ inode[parent[t]] \in InodeFields
  BY DEF Basic, TypeOK, Located
<1> QED
  BY <1>1 DEF Place, InodeFields

\* A function on an interval from one is a sequence.
LEMMA SequenceOfFunction ==
    ASSUME NEW S, NEW n \in Nat, NEW f \in [1 .. n -> S]
    PROVE  f \in Seq(S) /\ Len(f) = n
OBVIOUS

\* A directory block after a stray flush: some numbers are no inode's.
Damaged(b, c) ==
    /\ b.kind = "dir" /\ c.kind = "dir" /\ Len(c.list) = Len(b.list)
    /\ \A k \in 1 .. Len(b.list) : c.list[k] \in {b.list[k], NoInode}

\* A stray flush damages one directory block.
LEMMA StrayFlush ==
    ASSUME Basic, NEW t \in Tasks, FlushFound(t)
    PROVE  \E s \in Sector \ {0}, c \in Block :
              cache' = [cache EXCEPT ![s] = c] /\ Damaged(cache[s], c)
<1>1. PICK s \in Sector \ {0} :
         /\ cache[s].kind = "dir"
         /\ \E lost \in SUBSET DOMAIN cache[s].list :
                cache' = [cache EXCEPT ![s] = DirBlock(
                    [k \in DOMAIN cache[s].list |->
                        IF k \in lost THEN NoInode ELSE cache[s].list[k]])]
  BY DEF FlushFound
<1> DEFINE q == cache[s].list
<1>2. PICK lost \in SUBSET DOMAIN q :
         cache' = [cache EXCEPT ![s] = DirBlock(
             [k \in DOMAIN q |-> IF k \in lost THEN NoInode ELSE q[k]])]
  BY <1>1
<1>3. q \in Seq(Numbers) /\ NoInode \in Numbers
  BY BlockTypes, Constants DEF Basic, TypeOK
<1> DEFINE f == [k \in DOMAIN q |-> IF k \in lost THEN NoInode ELSE q[k]]
<1> HIDE DEF q
<1>4. DOMAIN q = 1 .. Len(q) /\ Len(q) \in Nat /\ \A k \in 1 .. Len(q) : q[k] \in Numbers
  BY <1>3
<1>5. f \in [1 .. Len(q) -> Numbers]
  BY <1>3, <1>4
<1>6. f \in Seq(Numbers) /\ Len(f) = Len(q)
  <2> HIDE DEF f
  <2> QED
    BY <1>4, <1>5, SequenceOfFunction
<1>7. \A k \in 1 .. Len(q) : f[k] \in {q[k], NoInode}
  BY <1>4
<1>8. cache' = [cache EXCEPT ![s] = DirBlock(f)]
  BY <1>2
<1> HIDE DEF f
<1>9. DirBlock(f) \in Block /\ DirBlock(f).kind = "dir" /\ DirBlock(f).list = f
  BY <1>6 DEF DirBlock, Block
<1>10. Damaged(cache[s], DirBlock(f))
  BY <1>1, <1>6, <1>7, <1>9 DEF Damaged, q
<1> QED
  BY <1>8, <1>9, <1>10

\* The device and the buffer cache hold blocks.
LEMMA NextDevice ==
    ASSUME Basic, [Next]_vars
    PROVE  DeviceOK'
<1> USE TypeParts DEF Basic, DeviceOK
<1>1. CASE SystemStep
  <2>1. CASE Mkfs
    BY <2>1, BlockTypes DEF Mkfs
  <2>2. CASE Mount
    BY <2>2 DEF Mount, device_vars
  <2>3. CASE Umount \/ Crash
    BY <2>3 DEF Umount, Crash
  <2>4. ASSUME NEW s \in Sector, WriteBack(s)
        PROVE  DeviceOK'
    BY <2>4 DEF WriteBack
  <2>5. ASSUME NEW i \in DOMAIN inode, Evict(i) \/ LeaveLocked(i)
        PROVE  DeviceOK'
    BY <2>5 DEF Evict, LeaveLocked, device_vars
  <2> QED
    BY <1>1, <2>1, <2>2, <2>3, <2>4, <2>5 DEF SystemStep
<1>2. ASSUME NEW t \in Tasks, Step(t) \/ Begin(t)
      PROVE  DeviceOK'
  <2>0. disk' = disk /\ ino[t] \in Numbers
    BY <1>2, CacheChanges DEF TaskOK
  <2>1. CASE cache' = cache
    BY <2>0, <2>1
  <2>2. CASE InsertPage(t)
    BY <2>0, <2>2, TakenBlock, BlockTypes DEF InsertPage
  <2>3. CASE InsertRoot(t)
    BY <2>0, <2>3, BlockTypes DEF InsertRoot
  <2>4. CASE AddToBlock(t)
    <3>1. Place(t) \in Sector /\ cache[Place(t)] \in Block
      BY <2>4, ParentPlace DEF AddToBlock
    <3>2. DirBlock(Append(cache[Place(t)].list, ino[t])) \in Block
      BY <2>0, <3>1, BlockTypes
    <3> QED
      BY <2>0, <2>4, <3>1, <3>2 DEF AddToBlock
  <2>5. CASE AddNewBlock(t)
    BY <2>0, <2>5, TakenBlock, BlockTypes DEF AddNewBlock
  <2>6. CASE FlushFound(t)
    BY <2>0, <2>6, StrayFlush
  <2> QED
    BY <1>2, <2>1, <2>2, <2>3, <2>4, <2>5, <2>6, CacheChanges
<1>3. CASE UNCHANGED vars
  BY <1>3 DEF vars, device_vars
<1> QED
  BY <1>1, <1>2, <1>3, NextSplit

\* The steps of a task that change the super block in memory.
LEMMA SuperChanges ==
    ASSUME NEW t \in Tasks, Step(t) \/ Begin(t)
    PROVE  /\ mounted' = mounted /\ mounts' = mounts
           /\ (id' = id /\ id_lock' = id_lock) \/ ReadId(t) \/ BumpId(t)
           /\ start' = start \/ InsertRoot(t)
           /\ \/ tree_lock' = tree_lock
              \/ LockTree(t) \/ InsertDone(t) \/ FindNothing(t) \/ FindGarbage(t)
              \/ FlushFound(t) \/ FlushNothing(t)
           /\ free' = free \/ (CanAlloc /\ TakeBlock)
<1>1. CASE Begin(t)
  BY <1>1, Zenon DEF Begin, BeginCreate, BeginScan, BeginFlush, super_vars
<1>2. CASE LockTree(t) \/ UnlockParent(t) \/ ScanStep(t)
  BY <1>2, Zenon
  DEF LockTree, UnlockParent, ScanStep, ReadDir, VisitCached, VisitUncached, ScanDone, FindNothing,
      FindBug, FindGarbage, FlushFound, FlushNothing, super_vars
<1>3. CASE ReadId(t) \/ BumpId(t) \/ GetInode(t) \/ GetInodeFails(t) \/ LockParent(t)
           \/ AddToBlock(t) \/ AddToNoBlock(t) \/ AddNewBlock(t) \/ AddNoNewBlock(t)
  BY <1>3, Zenon
  DEF ReadId, BumpId, GetInode, GetInodeFails, LockParent, AddToBlock, AddToNoBlock, AddNewBlock,
      AddNoNewBlock, super_vars
<1>4. CASE InsertBelowRoot(t) \/ InsertNoRoot(t) \/ InsertPage(t) \/ InsertNoPage(t)
           \/ InsertRoot(t) \/ InsertRootFails(t) \/ InsertDone(t)
  BY <1>4, Zenon
  DEF InsertBelowRoot, InsertNoRoot, InsertPage, InsertNoPage, InsertRoot, InsertRootFails,
      InsertDone, super_vars
<1> QED
  BY <1>1, <1>2, <1>3, <1>4 DEF Step, CreateStep

\* A task that draws a number finds one.
LEMMA NumberLeft ==
    ASSUME Basic
    PROVE  /\ IsFiniteSet(Drawing) /\ Cardinality(Drawing) \in Nat
           /\ id \in Nat /\ id >= 1 /\ id <= MaxIno + 1
           /\ \A t \in Tasks : pc[t] \in {"id", "bump"} => id <= MaxIno
<1>1. Drawing \in SUBSET Tasks
  BY DEF Drawing
<1>2. IsFiniteSet(Drawing) /\ Cardinality(Drawing) \in Nat
  BY <1>1, VolumeAssumption, FS_Subset, FS_CardinalityType
<1>3. id \in Nat /\ id >= 1 /\ id <= MaxIno + 1
  BY Constants DEF Basic, TypeOK, Numbers
<1>4. ASSUME NEW t \in Tasks, pc[t] \in {"id", "bump"}
      PROVE  id <= MaxIno
  <2>1. Drawing # {}
    BY <1>4 DEF Drawing
  <2>2. Cardinality(Drawing) # 0
    BY <1>2, <2>1, FS_EmptySet
  <2> QED
    BY <1>2, <1>3, <2>2, Constants DEF Basic, NextNumber
<1> QED
  BY <1>2, <1>3, <1>4

\* The super block in memory keeps its type: the inode numbers suffice, and the
\* count of free blocks does not underflow.
LEMMA NextSuper ==
    ASSUME Basic, [Next]_vars
    PROVE  SuperOK'
<1> USE TypeParts, Constants DEF Basic
<1>1. CASE SystemStep
  <2>1. CASE \/ Mkfs \/ (\E s \in Sector : WriteBack(s))
             \/ \E i \in DOMAIN inode : Evict(i) \/ LeaveLocked(i)
    <3>1. UNCHANGED super_vars
      BY <2>1, Zenon DEF Mkfs, WriteBack, Evict, LeaveLocked
    <3> QED
      BY <3>1 DEF super_vars, SuperOK
  <2>2. CASE Mount
    <3>1. mounted' \in BOOLEAN
      BY <2>2, Zenon DEF Mount
    <3>2. mounts' \in 0 .. MaxMounts /\ id' \in Numbers /\ free' \in 0 .. DataBlocks
      BY <2>2 DEF Mount, SuperOK, Numbers, Root
    <3> QED
      BY <2>2, <3>1, <3>2 DEF Mount, SuperOK
  <2>3. CASE Umount \/ Crash
    <3>1. Forgotten
      BY <2>3 DEF Umount, Crash
    <3>2. mounted' \in BOOLEAN
      BY <3>1, Zenon DEF Forgotten
    <3> QED
      BY <3>1, <3>2 DEF Forgotten, SuperOK
  <2> QED
    BY <1>1, <2>1, <2>2, <2>3 DEF SystemStep
<1>2. ASSUME NEW t \in Tasks, Step(t) \/ Begin(t)
      PROVE  SuperOK'
  <2>1. mounted' \in BOOLEAN /\ mounts' \in 0 .. MaxMounts
    BY <1>2, SuperChanges DEF SuperOK
  <2>2. id' \in Numbers /\ id_lock' \in Tasks \cup {NoTask}
    <3>1. CASE ReadId(t)
      BY <3>1 DEF ReadId, SuperOK
    <3>2. CASE BumpId(t)
      <4>1. pc[t] = "bump" /\ id' = id + 1 /\ id_lock' = NoTask
        BY <3>2 DEF BumpId, NextNumber
      <4> QED
        BY <4>1, NumberLeft DEF Numbers
    <3> QED
      BY <1>2, <3>1, <3>2, SuperChanges DEF SuperOK
  <2>3. free' \in 0 .. DataBlocks
    BY <1>2, SuperChanges, TakenBlock DEF SuperOK
  <2>4. start' \in Sector
    <3>1. CASE InsertRoot(t)
      BY <3>1, TakenBlock DEF InsertRoot
    <3> QED
      BY <1>2, <3>1, SuperChanges DEF SuperOK
  <2>5. tree_lock' \in Tasks \cup {NoTask}
    <3>1. CASE tree_lock' # tree_lock
      BY <1>2, <3>1, SuperChanges 
      DEF LockTree, InsertDone, FindNothing, FindGarbage, FlushFound, FlushNothing
    <3> QED
      BY <3>1 DEF SuperOK
  <2> QED
    BY <2>1, <2>2, <2>3, <2>4, <2>5 DEF SuperOK
<1>3. CASE UNCHANGED vars
  BY <1>3 DEF vars, super_vars, SuperOK
<1> QED
  BY <1>1, <1>2, <1>3, NextSplit

\* The inodes in the cache stay, and outside of S the fields that spfs owns.
Kept(S) ==
    /\ DOMAIN inode' = DOMAIN inode
    /\ \A i \in DOMAIN inode :
          /\ inode'[i] \in InodeFields /\ inode'[i].isdir = inode[i].isdir
          /\ i \notin S => /\ inode'[i].lock = inode[i].lock
                           /\ inode'[i].capacity = inode[i].capacity
                           /\ inode'[i].start = inode[i].start

\* Lock, capacity and first block of an inode after the step.
Becomes(i, lock, capacity, place) ==
    inode'[i].lock = lock /\ inode'[i].capacity = capacity /\ inode'[i].start = place

\* What a step of task t does to the inodes: only its own directory's lock,
\* capacity and block change.
InodeEffect(t) ==
    LET p == parent[t] n == inode[parent[t]]
    IN  \/ Kept({})
        \/ /\ Kept({p}) /\ p \in DOMAIN inode
           /\ \/ ReadDir(t) /\ n.lock = NoTask /\ Becomes(p, t, n.capacity, n.start)
              \/ LockParent(t) /\ n.lock = NoTask /\ Becomes(p, t, n.capacity + 1, n.start)
              \/ AddNewBlock(t) /\ Becomes(p, n.lock, n.capacity, LastFree)
              \/ AddNoNewBlock(t) /\ Becomes(p, n.lock, n.capacity, 0)
              \/ UnlockParent(t) /\ Becomes(p, NoTask, n.capacity, n.start)

\* An update of one inode.
LEMMA OneInode ==
    ASSUME NEW p \in DOMAIN inode, NEW r \in InodeFields, r.isdir = inode[p].isdir,
           \A i \in DOMAIN inode : inode[i] \in InodeFields,
           inode' = [inode EXCEPT ![p] = r]
    PROVE  Kept({p}) /\ Becomes(p, r.lock, r.capacity, r.start)
BY DEF Kept, Becomes

\* What spfs does to the inodes follows the locks, but for GetInode.
LEMMA InodeEffects ==
    ASSUME Basic, NEW t \in Tasks, Step(t) \/ Begin(t), ~GetInode(t)
    PROVE  InodeEffect(t)
<1> DEFINE p == parent[t]
           n == inode[p]
<1>0. \A i \in DOMAIN inode : inode[i] \in InodeFields
  BY DEF Basic, TypeOK
<1>1. CASE inode' = inode
  BY <1>0, <1>1 DEF InodeEffect, Kept
<1>a. ASSUME pc[t] # "idle"
      PROVE  p \in DOMAIN inode /\ n \in InodeFields /\ n.capacity + 1 \in Nat
  <2>1. p \in DOMAIN inode /\ n \in InodeFields
    BY <1>a, ParentPlace
  <2> QED
    BY <2>1 DEF InodeFields
<1>b. ASSUME NEW d \in DOMAIN inode, NEW x \in Tasks \cup {NoTask},
             inode' = [inode EXCEPT ![d].rwsem = x]
      PROVE  Kept({})
  <2> DEFINE r == [inode[d] EXCEPT !.rwsem = x]
  <2>1. /\ r \in InodeFields /\ r.isdir = inode[d].isdir
        /\ r.lock = inode[d].lock /\ r.capacity = inode[d].capacity /\ r.start = inode[d].start
    BY <1>0, <1>b DEF InodeFields
  <2>2. inode' = [inode EXCEPT ![d] = r]
    BY <1>b, Zenon
  <2> HIDE DEF r
  <2>3. Kept({d}) /\ Becomes(d, r.lock, r.capacity, r.start)
    BY <1>0, <2>1, <2>2, OneInode
  <2> QED
    BY <2>1, <2>3 DEF Kept, Becomes
<1>2. CASE Begin(t)
  <2>1. CASE \E i \in dirty : BeginFlush(t, i)
    BY <1>1, <2>1 DEF BeginFlush
  <2>2. ASSUME NEW d \in DOMAIN inode, BeginScan(t, d) \/ \E k \in BOOLEAN : BeginCreate(t, d, k)
        PROVE  InodeEffect(t)
    <3>1. inode' = [inode EXCEPT ![d].rwsem = t]
      BY <2>2 DEF BeginScan, BeginCreate
    <3> QED
      BY <1>b, <3>1 DEF InodeEffect
  <2> QED
    BY <1>2, <2>1, <2>2 DEF Begin
<1>3. CASE InsertDone(t)
  <2>1. CASE inode' # inode
    <3>1. inode' = [inode EXCEPT ![p].rwsem = NoTask] /\ pc[t] # "idle"
      BY <1>3, <2>1 DEF InsertDone
    <3> QED
      BY <1>a, <1>b, <3>1 DEF InodeEffect
  <2> QED
    BY <1>1, <2>1
<1>4. CASE LockParent(t)
  <2> DEFINE r == [n EXCEPT !.lock = t, !.capacity = @ + 1]
  <2>1. inode' = [inode EXCEPT ![p] = r]
    BY <1>4, Zenon DEF LockParent
  <2>2. p \in DOMAIN inode /\ n \in InodeFields /\ n.capacity + 1 \in Nat /\ n.lock = NoTask
    BY <1>4, <1>a DEF LockParent
  <2>3. /\ r \in InodeFields /\ r.isdir = n.isdir /\ r.lock = t /\ r.capacity = n.capacity + 1
        /\ r.start = n.start
    <3> HIDE DEF n
    <3> QED
      BY <2>2, Zenon DEF InodeFields
  <2> HIDE DEF r
  <2>4. Kept({p}) /\ Becomes(p, t, n.capacity + 1, n.start)
    BY <1>0, <2>1, <2>2, <2>3, OneInode
  <2> QED
    BY <1>4, <2>2, <2>4 DEF InodeEffect
<1>5. CASE AddNewBlock(t)
  <2> DEFINE r == [n EXCEPT !.start = LastFree]
  <2>1. inode' = [inode EXCEPT ![p] = r]
    BY <1>5, Zenon DEF AddNewBlock
  <2>2. p \in DOMAIN inode /\ n \in InodeFields /\ LastFree \in Sector
    BY <1>5, <1>a, TakenBlock, TypeParts DEF AddNewBlock, Basic
  <2>3. /\ r \in InodeFields /\ r.isdir = n.isdir /\ r.lock = n.lock /\ r.capacity = n.capacity
        /\ r.start = LastFree
    <3> HIDE DEF n
    <3> QED
      BY <2>2, Zenon DEF InodeFields
  <2> HIDE DEF r
  <2>4. Kept({p}) /\ Becomes(p, n.lock, n.capacity, LastFree)
    BY <1>0, <2>1, <2>2, <2>3, OneInode
  <2> QED
    BY <1>5, <2>2, <2>4 DEF InodeEffect
<1>6. CASE AddNoNewBlock(t)
  <2> DEFINE r == [n EXCEPT !.start = 0]
  <2>1. inode' = [inode EXCEPT ![p] = r]
    BY <1>6, Zenon DEF AddNoNewBlock
  <2>2. p \in DOMAIN inode /\ n \in InodeFields /\ 0 \in Sector
    BY <1>6, <1>a, Constants DEF AddNoNewBlock
  <2>3. /\ r \in InodeFields /\ r.isdir = n.isdir /\ r.lock = n.lock /\ r.capacity = n.capacity
        /\ r.start = 0
    <3> HIDE DEF n
    <3> QED
      BY <2>2, Zenon DEF InodeFields
  <2> HIDE DEF r
  <2>4. Kept({p}) /\ Becomes(p, n.lock, n.capacity, 0)
    BY <1>0, <2>1, <2>2, <2>3, OneInode
  <2> QED
    BY <1>6, <2>2, <2>4 DEF InodeEffect
<1>7. CASE ReadDir(t)
  <2> DEFINE r == [n EXCEPT !.lock = t]
  <2>1. inode' = [inode EXCEPT ![p] = r]
    BY <1>7, Zenon DEF ReadDir
  <2>2. p \in DOMAIN inode /\ n \in InodeFields /\ n.lock = NoTask
    BY <1>7, <1>a DEF ReadDir
  <2>3. /\ r \in InodeFields /\ r.isdir = n.isdir /\ r.lock = t /\ r.capacity = n.capacity
        /\ r.start = n.start
    <3> HIDE DEF n
    <3> QED
      BY <2>2, Zenon DEF InodeFields
  <2> HIDE DEF r
  <2>4. Kept({p}) /\ Becomes(p, t, n.capacity, n.start)
    BY <1>0, <2>1, <2>2, <2>3, OneInode
  <2> QED
    BY <1>7, <2>2, <2>4 DEF InodeEffect
<1>8. CASE VisitCached(t)
  <2> DEFINE d == Head(todo[t])
             r == [inode[d] EXCEPT !.dentry = parent[t]]
  <2>1. d \in DOMAIN inode
    BY <1>8 DEF VisitCached
  <2>2. inode' = inode \/ inode' = [inode EXCEPT ![d] = r]
    BY <1>8, Zenon DEF VisitCached
  <2> HIDE DEF d
  <2>3. /\ r \in InodeFields /\ r.isdir = inode[d].isdir
        /\ r.lock = inode[d].lock /\ r.capacity = inode[d].capacity /\ r.start = inode[d].start
    <3>1. parent[t] \in Numbers
      BY DEF Basic, TypeOK
    <3> QED
      BY <1>0, <2>1, <3>1 DEF InodeFields
  <2> HIDE DEF r
  <2>4. CASE inode' = [inode EXCEPT ![d] = r]
    <3>1. Kept({d}) /\ Becomes(d, r.lock, r.capacity, r.start)
      BY <1>0, <2>1, <2>3, <2>4, OneInode
    <3> QED
      BY <2>3, <3>1 DEF InodeEffect, Kept, Becomes
  <2> QED
    BY <1>1, <2>2, <2>4
<1>9. CASE UnlockParent(t)
  <2> DEFINE r == [n EXCEPT !.lock = NoTask, !.rwsem = NoTask]
  <2>1. inode' = [inode EXCEPT ![p] = r]
    BY <1>9, Zenon DEF UnlockParent
  <2>2. p \in DOMAIN inode /\ n \in InodeFields
    BY <1>9, <1>a DEF UnlockParent
  <2>3. /\ r \in InodeFields /\ r.isdir = n.isdir /\ r.lock = NoTask /\ r.capacity = n.capacity
        /\ r.start = n.start
    <3> HIDE DEF n
    <3> QED
      BY <2>2, Zenon DEF InodeFields
  <2> HIDE DEF r
  <2>4. Kept({p}) /\ Becomes(p, NoTask, n.capacity, n.start)
    BY <1>0, <2>1, <2>2, <2>3, OneInode
  <2> QED
    BY <1>9, <2>2, <2>4 DEF InodeEffect
<1> QED
  BY <1>1, <1>2, <1>3, <1>4, <1>5, <1>6, <1>7, <1>8, <1>9, InodeChanges

\* A new object has its type.
LEMMA CachedType ==
    ASSUME Basic, NEW o \in NewObjects, NEW d \in BOOLEAN
    PROVE  /\ o \in ObjectFields /\ Cached(o, d) \in InodeFields
           /\ Cached(o, d).isdir = d /\ Cached(o, d).start = o.start
           /\ Cached(o, d).capacity = o.capacity /\ Cached(o, d).lock \in {NoTask, Gone}
           /\ [Cached(o, d) EXCEPT !.dentry = Root] \in InodeFields
           /\ [Cached(o, d) EXCEPT !.dentry = Root].start = o.start
           /\ [Cached(o, d) EXCEPT !.dentry = Root].isdir = d
           /\ [Cached(o, d) EXCEPT !.dentry = Root].lock \in {NoTask, Gone}
<1>1. o \in ObjectFields
  <2>1. Constructed \in ObjectFields
    <3>1. 0 \in Nat /\ 0 \in Sector
      BY Constants
    <3> QED
      BY <3>1, Zenon DEF Constructed, ObjectFields
  <2> QED
    BY <2>1, Zenon DEF Basic, TypeOK, NewObjects
<1>2. /\ Cached(o, d) \in InodeFields
      /\ Cached(o, d).isdir = d /\ Cached(o, d).start = o.start
      /\ Cached(o, d).capacity = o.capacity /\ Cached(o, d).lock \in {NoTask, Gone}
  BY <1>1 DEF Cached, InodeFields, ObjectFields
<1> QED
  BY <1>1, <1>2, Constants DEF InodeFields

\* iget_locked adds one inode, whose lock no task has, and takes its object from
\* the slab.
LEMMA GetInodeStep ==
    ASSUME Basic, NEW t \in Tasks, GetInode(t)
    PROVE  \E o \in NewObjects :
              LET new == Cached(o, isdir[t])
              IN  /\ pc[t] = "iget" /\ ino[t] \notin DOMAIN inode /\ slab' = slab \ {o}
                  /\ DOMAIN inode' = {ino[t]} \cup DOMAIN inode
                  /\ \A i \in DOMAIN inode : inode'[i] = inode[i]
                  /\ inode'[ino[t]] = new /\ new \in InodeFields
                  /\ new.start = o.start /\ new.capacity = o.capacity /\ new.lock \in {NoTask, Gone}
<1>1. PICK o \in NewObjects :
         /\ inode' = [i \in {ino[t]} \cup DOMAIN inode |->
                         IF i = ino[t] THEN Cached(o, isdir[t]) ELSE inode[i]]
         /\ slab' = slab \ {o}
  BY DEF GetInode
<1>2. isdir[t] \in BOOLEAN /\ pc[t] = "iget" /\ ino[t] \notin DOMAIN inode
  BY DEF GetInode, Basic, TypeOK
<1> DEFINE new == Cached(o, isdir[t])
<1>3. /\ new \in InodeFields
      /\ new.start = o.start /\ new.capacity = o.capacity /\ new.lock \in {NoTask, Gone}
  BY <1>2, CachedType
<1> HIDE DEF new
<1>4. /\ DOMAIN inode' = {ino[t]} \cup DOMAIN inode
      /\ \A i \in DOMAIN inode : inode'[i] = inode[i]
      /\ inode'[ino[t]] = new
  BY <1>1, <1>2 DEF new
<1> QED
  BY <1>1, <1>2, <1>3, <1>4 DEF new

\* The steps of a task that change the sets beside the inode cache.
LEMMA SetChanges ==
    ASSUME NEW t \in Tasks, Step(t) \/ Begin(t)
    PROVE  /\ pinned' = pinned \/ InsertDone(t) \/ VisitCached(t)
           /\ fetching' = fetching \/ VisitUncached(t) \/ FindNothing(t)
           /\ dirty' = dirty \/ LockParent(t) \/ Begin(t)
           /\ slab' = slab \/ GetInode(t)
<1>1. CASE Begin(t)
  BY <1>1, Zenon DEF Begin, BeginCreate, BeginScan, BeginFlush
<1>2. CASE LockTree(t) \/ UnlockParent(t) \/ ScanStep(t)
  BY <1>2, Zenon
  DEF LockTree, UnlockParent, ScanStep, ReadDir, VisitCached, VisitUncached, ScanDone, FindNothing,
      FindBug, FindGarbage, FlushFound, FlushNothing, inode_vars
<1>3. CASE ReadId(t) \/ BumpId(t) \/ GetInode(t) \/ GetInodeFails(t) \/ LockParent(t)
           \/ AddToBlock(t) \/ AddToNoBlock(t) \/ AddNewBlock(t) \/ AddNoNewBlock(t)
  BY <1>3, Zenon
  DEF ReadId, BumpId, GetInode, GetInodeFails, LockParent, AddToBlock, AddToNoBlock, AddNewBlock,
      AddNoNewBlock, inode_vars
<1>4. CASE InsertBelowRoot(t) \/ InsertNoRoot(t) \/ InsertPage(t) \/ InsertNoPage(t)
           \/ InsertRoot(t) \/ InsertRootFails(t) \/ InsertDone(t)
  BY <1>4, Zenon
  DEF InsertBelowRoot, InsertNoRoot, InsertPage, InsertNoPage, InsertRoot, InsertRootFails,
      InsertDone, inode_vars
<1> QED
  BY <1>1, <1>2, <1>3, <1>4 DEF Step, CreateStep

\* A mount begins with the root inode.
LEMMA MountStep ==
    ASSUME Basic, Mount
    PROVE  \E o \in NewObjects :
              /\ DOMAIN inode' = {Root} /\ inode'[Root] \in InodeFields
              /\ inode'[Root].start = o.start /\ slab' = slab \ {o}
              /\ inode'[Root].lock \in {NoTask, Gone}
<1>1. PICK o \in NewObjects :
         /\ inode' = [i \in {Root} |-> [Cached(o, TRUE) EXCEPT !.dentry = Root]]
         /\ slab' = slab \ {o}
  BY DEF Mount
<1> DEFINE new == [Cached(o, TRUE) EXCEPT !.dentry = Root]
<1>2. new \in InodeFields /\ new.start = o.start /\ new.lock \in {NoTask, Gone}
  BY CachedType
<1> HIDE DEF new
<1>3. DOMAIN inode' = {Root} /\ inode'[Root] = new
  BY <1>1 DEF new
<1> QED
  BY <1>1, <1>2, <1>3

\* The objects that go back to the slab have their type.
LEMMA FreedType ==
    ASSUME Basic, NEW S \in SUBSET DOMAIN inode, Freed(S)
    PROVE  slab' \subseteq ObjectFields
<1>1. \A i \in S : [capacity |-> inode[i].capacity, start |-> inode[i].start,
                 locked |-> inode[i].lock # NoTask] \in ObjectFields
  BY DEF Basic, TypeOK, InodeFields, ObjectFields
<1>2. slab \subseteq ObjectFields
  BY DEF Basic, TypeOK
<1> DEFINE objects == {[capacity |-> inode[i].capacity, start |-> inode[i].start,
                 locked |-> inode[i].lock # NoTask] : i \in S}
<1>3. objects \subseteq ObjectFields
  BY <1>1
<1>4. slab' \subseteq slab \cup objects
  BY DEF Freed
<1> QED
  BY <1>2, <1>3, <1>4

\* The number that a task draws is one that the bound leaves.
LEMMA DrawnNumber ==
    ASSUME Basic, NEW t \in Tasks, pc[t] \in {"bump", "iget"} \cup Numbered
    PROVE  ino[t] \in 1 .. MaxIno
<1>1. ino[t] \in Nat /\ ino[t] >= 1
  BY DEF Basic, TypeOK, Numbers
<1>2. ino[t] <= MaxIno
  BY <1>1, NumberLeft, Constants DEF Basic, NextNumber, Numbered
<1> QED
  BY <1>1, <1>2, Constants

\* A file that keeps its lock keeps everything else, and is no directory.
LEMMA LeftLock ==
    ASSUME Basic, NEW i \in DOMAIN inode, LeaveLocked(i)
    PROVE  /\ Kept({i}) /\ Becomes(i, Gone, inode[i].capacity, inode[i].start) /\ ~inode[i].isdir
           /\ UNCHANGED <<device_vars, super_vars, pinned, fetching, dirty, slab, task_vars>>
<1> DEFINE r == [inode[i] EXCEPT !.lock = Gone]
<1>1. /\ inode' = [inode EXCEPT ![i] = r] /\ ~inode[i].isdir
      /\ UNCHANGED <<device_vars, super_vars, pinned, fetching, dirty, slab, task_vars>>
  BY Zenon DEF LeaveLocked
<1>2. \A j \in DOMAIN inode : inode[j] \in InodeFields
  BY DEF Basic, TypeOK
<1>3. /\ r \in InodeFields /\ r.isdir = inode[i].isdir
      /\ r.lock = Gone /\ r.capacity = inode[i].capacity /\ r.start = inode[i].start
  BY <1>2 DEF InodeFields
<1> HIDE DEF r
<1>4. Kept({i}) /\ Becomes(i, r.lock, r.capacity, r.start)
  BY <1>1, <1>2, <1>3, OneInode
<1> QED
  BY <1>1, <1>3, <1>4

\* The inode cache keeps its type.
LEMMA NextInodes ==
    ASSUME Basic, [Next]_vars
    PROVE  InodeOK'
<1>0. InodeOK /\ TaskOK
  BY TypeParts DEF Basic
<1>n. 1 .. MaxIno \subseteq Numbers
  BY Constants DEF Numbers
<1>1. CASE SystemStep
  <2>1. CASE Mkfs \/ \E s \in Sector : WriteBack(s)
    <3>1. UNCHANGED inode_vars
      BY <2>1, Zenon DEF Mkfs, WriteBack
    <3> QED
      BY <1>0, <3>1 DEF inode_vars, InodeOK
  <2>2. CASE Mount
    BY <1>0, <2>2, MountStep, Constants DEF Mount, InodeOK
  <2>3. CASE Umount \/ Crash
    <3>1. Forgotten
      BY <2>3 DEF Umount, Crash
    <3>2. slab' \subseteq ObjectFields
      BY <2>3, FreedType DEF Umount, Crash
    <3>3. DOMAIN inode' = {}
      BY <3>1 DEF Forgotten
    <3> QED
      BY <3>1, <3>2, <3>3 DEF Forgotten, InodeOK
  <2>4. ASSUME NEW i \in DOMAIN inode, Evict(i)
        PROVE  InodeOK'
    <3>1. slab' \subseteq ObjectFields
      BY <2>4, FreedType DEF Evict
    <3>2. DOMAIN inode' = DOMAIN inode \ {i} /\ \A j \in DOMAIN inode' : inode'[j] = inode[j]
      BY <2>4 DEF Evict
    <3>3. UNCHANGED <<pinned, fetching, dirty>>
      BY <2>4 DEF Evict
    <3> QED
      BY <1>0, <3>1, <3>2, <3>3 DEF InodeOK
  <2>5. ASSUME NEW i \in DOMAIN inode, LeaveLocked(i)
        PROVE  InodeOK'
    BY <1>0, <2>5, LeftLock DEF Kept, InodeOK
  <2> QED
    BY <1>1, <2>1, <2>2, <2>3, <2>4, <2>5 DEF SystemStep
<1>2. ASSUME NEW t \in Tasks, Step(t) \/ Begin(t)
      PROVE  InodeOK'
  <2>1. /\ DOMAIN inode' \subseteq 1 .. MaxIno
        /\ \A i \in DOMAIN inode' : inode'[i] \in InodeFields
    <3>1. CASE GetInode(t)
      <4>1. pc[t] = "iget"
        BY <3>1 DEF GetInode
      <4>2. ino[t] \in 1 .. MaxIno
        BY <4>1, DrawnNumber
      <4>3. /\ DOMAIN inode' = {ino[t]} \cup DOMAIN inode
            /\ \A i \in DOMAIN inode : inode'[i] = inode[i]
            /\ inode'[ino[t]] \in InodeFields
        BY <3>1, GetInodeStep
      <4> QED
        BY <1>0, <4>2, <4>3 DEF InodeOK
    <3>2. CASE ~GetInode(t)
      BY <1>0, <1>2, <3>2, InodeEffects DEF InodeEffect, Kept, InodeOK
    <3> QED
      BY <3>1, <3>2
  <2>2. pinned' \subseteq Numbers
    <3>1. CASE VisitCached(t)
      <4>1. Head(todo[t]) \in 1 .. MaxIno /\ pinned' \subseteq pinned \cup {Head(todo[t])}
        BY <1>0, <3>1 DEF VisitCached, InodeOK
      <4> QED
        BY <1>0, <1>n, <4>1 DEF InodeOK
    <3>2. CASE InsertDone(t)
      BY <1>0, <3>2 DEF InsertDone, InodeOK, TaskOK
    <3> QED
      BY <1>0, <1>2, <3>1, <3>2, SetChanges DEF InodeOK
  <2>3. fetching' \subseteq Numbers
    <3>1. CASE VisitUncached(t)
      <4>1. todo[t] \in Seq(Numbers) /\ todo[t] # <<>>
        BY <1>0, <3>1 DEF VisitUncached, TaskOK
      <4>2. Head(todo[t]) \in Numbers
        BY <4>1
      <4> QED
        BY <1>0, <3>1, <4>2 DEF VisitUncached, InodeOK
    <3>2. CASE FindNothing(t)
      BY <1>0, <3>2 DEF FindNothing, InodeOK
    <3> QED
      BY <1>0, <1>2, <3>1, <3>2, SetChanges DEF InodeOK
  <2>4. dirty' \subseteq Numbers
    <3>1. CASE LockParent(t)
      BY <1>0, <3>1 DEF LockParent, InodeOK, TaskOK
    <3>2. CASE Begin(t)
      BY <1>0, <3>2 DEF Begin, BeginCreate, BeginScan, BeginFlush, InodeOK
    <3> QED
      BY <1>0, <1>2, <3>1, <3>2, SetChanges DEF InodeOK
  <2>5. slab' \subseteq ObjectFields
    BY <1>0, <1>2, SetChanges, GetInodeStep DEF InodeOK
  <2> QED
    BY <2>1, <2>2, <2>3, <2>4, <2>5 DEF InodeOK
<1>3. CASE UNCHANGED vars
  BY <1>0, <1>3 DEF vars, inode_vars, InodeOK
<1> QED
  BY <1>1, <1>2, <1>3, NextSplit

\* Everything that task t does leaves the other tasks where they are.
Others(t) ==
    \A u \in Tasks \ {t} : pc'[u] = pc[u] /\ parent'[u] = parent[u] /\ ino'[u] = ino[u]
                           /\ res'[u] = res[u]

\* The control flow of spfs_generic_create, spfs_add_child,
\* spfs_for_all_children and spfs_write_inode.
Flow(t) ==
    \/ pc[t] \in {"inserted", "unlock", "sync"} /\ pc'[t] = "idle"
    \/ /\ parent'[t] = parent[t]
       /\ \/ pc[t] = "child" /\ pc'[t] = "fetch"
          \/ pc[t] = "id" /\ pc'[t] = "bump" /\ ReadId(t)
          \/ /\ ino'[t] = ino[t]
             /\ \/ pc[t] # "idle" /\ pc'[t] = "dead"
                \/ pc[t] = "bump" /\ pc'[t] = "iget" /\ BumpId(t)
                \/ pc[t] = "iget" /\ pc'[t] = "tree" /\ GetInode(t)
                \/ /\ <<pc[t], pc'[t]>> \in {<<"tree", "insert">>, <<"fetch", "find">>,
                                             <<"flush", "sync">>}
                   /\ tree_lock = NoTask /\ tree_lock' = t
                \/ pc[t] = "insert" /\ pc'[t] = "newroot" /\ InsertPage(t)
                \/ pc[t] \in {"insert", "newroot"} /\ pc'[t] = "inserted"
                   /\ (pc[t] = "newroot" \/ res'[t] # "ok")
                \/ pc[t] = "inserted" /\ pc'[t] = "parent" /\ res[t] = "ok"
                \/ pc[t] = "parent" /\ pc'[t] = "add" /\ LockParent(t)
                \/ pc[t] \in {"add", "child"} /\ pc'[t] = "unlock"
                \/ pc[t] = "scan" /\ pc'[t] = "child" /\ ReadDir(t)
                \/ pc[t] = "child" /\ pc'[t] = "child"

\* A step of a task keeps the types of its variables and follows the control
\* flow.
LEMMA TaskSteps ==
    ASSUME Basic, NEW t \in Tasks, Step(t)
    PROVE  TaskOK' /\ Others(t) /\ Flow(t)
<1>0. TaskOK
  BY TypeParts DEF Basic
<1> USE <1>0, Constants DEF TaskOK, Labels, Goto, Returns, Finish, local_vars, Others, Flow
<1>1. CASE ReadId(t)
  <2>1. id \in Numbers
    BY DEF Basic, TypeOK
  <2> QED
    BY <1>1, <2>1 DEF ReadId
<1>2. CASE BumpId(t)
  BY <1>2 DEF BumpId
<1>3. CASE GetInode(t)
  BY <1>3 DEF GetInode
<1>4. CASE GetInodeFails(t)
  BY <1>4 DEF GetInodeFails
<1>5. CASE LockTree(t)
  <2>1. /\ pc[t] \in {"tree", "fetch", "flush"} /\ tree_lock = NoTask /\ tree_lock' = t
        /\ pc' = [pc EXCEPT ![t] = AfterTreeLock[pc[t]]] /\ UNCHANGED local_vars
    BY <1>5 DEF LockTree, AfterTreeLock
  <2>2. <<pc[t], AfterTreeLock[pc[t]]>> \in {<<"tree", "insert">>, <<"fetch", "find">>,
                                            <<"flush", "sync">>}
    BY <2>1 DEF AfterTreeLock
  <2>3. pc'[t] = AfterTreeLock[pc[t]] /\ AfterTreeLock[pc[t]] \in {"insert", "find", "sync"}
    BY <2>1 DEF AfterTreeLock
  <2>4. TaskOK' /\ Others(t)
    BY <2>1, <2>3
  <2>5. Flow(t)
    BY <2>1, <2>2, <2>3
  <2> QED
    BY <2>4, <2>5
<1>6. CASE InsertBelowRoot(t)
  BY <1>6 DEF InsertBelowRoot
<1>7. CASE InsertNoRoot(t)
  BY <1>7 DEF InsertNoRoot
<1>8. CASE InsertPage(t)
  BY <1>8 DEF InsertPage
<1>9. CASE InsertNoPage(t)
  BY <1>9 DEF InsertNoPage
<1>10. CASE InsertRoot(t)
  BY <1>10 DEF InsertRoot
<1>11. CASE InsertRootFails(t)
  BY <1>11 DEF InsertRootFails
<1>12. CASE InsertDone(t)
  <2>1. CASE res[t] = "ok"
    BY <1>12, <2>1 DEF InsertDone
  <2>2. CASE res[t] # "ok"
    <3>1. Finish(t) /\ pc[t] = "inserted"
      BY <1>12, <2>2 DEF InsertDone
    <3> QED
      BY <3>1
  <2> QED
    BY <2>1, <2>2
<1>13. CASE LockParent(t)
  BY <1>13 DEF LockParent
<1>14. CASE AddToBlock(t)
  BY <1>14 DEF AddToBlock
<1>15. CASE AddToNoBlock(t)
  BY <1>15 DEF AddToNoBlock
<1>16. CASE AddNewBlock(t)
  BY <1>16 DEF AddNewBlock
<1>17. CASE AddNoNewBlock(t)
  BY <1>17 DEF AddNoNewBlock
<1>18. CASE UnlockParent(t)
  BY <1>18 DEF UnlockParent
<1>19. CASE ReadDir(t)
  <2>1. Place(t) # 0 => Listed(cache[Place(t)]) \in Seq(Numbers)
    BY <1>19, ParentPlace, BlockTypes DEF ReadDir, Basic, TypeOK
  <2>2. PICK q \in Seq(Numbers) : todo' = [todo EXCEPT ![t] = q]
    <3>1. <<>> \in Seq(Numbers)
      OBVIOUS
    <3> QED
      BY <1>19, <2>1, <3>1, Zenon DEF ReadDir
  <2> QED
    BY <1>19, <2>2 DEF ReadDir
<1>20. CASE VisitCached(t)
  <2>1. todo[t] \in Seq(Numbers) /\ todo[t] # <<>>
    BY <1>20 DEF VisitCached
  <2>2. Tail(todo[t]) \in Seq(Numbers) /\ <<>> \in Seq(Numbers)
    BY <2>1
  <2>3. PICK q \in Seq(Numbers) : todo' = [todo EXCEPT ![t] = q]
    BY <1>20, <2>2 DEF VisitCached
  <2> QED
    BY <1>20, <2>3 DEF VisitCached
<1>21. CASE VisitUncached(t)
  <2>1. todo[t] \in Seq(Numbers) /\ todo[t] # <<>>
    BY <1>21 DEF VisitUncached
  <2>2. Tail(todo[t]) \in Seq(Numbers) /\ Head(todo[t]) \in Numbers
    BY <2>1
  <2>3. CASE pc' = pc
    <3>1. todo' = [todo EXCEPT ![t] = Tail(todo[t])] /\ ino' = ino
      BY <1>21, <2>3 DEF VisitUncached
    <3> QED
      BY <1>21, <2>2, <2>3, <3>1 DEF VisitUncached
  <2>4. CASE pc' # pc
    <3>1. /\ ino' = [ino EXCEPT ![t] = Head(todo[t])] /\ todo' = todo
          /\ pc' = [pc EXCEPT ![t] = "fetch"]
      BY <1>21, <2>4 DEF VisitUncached
    <3> QED
      BY <1>21, <2>2, <3>1 DEF VisitUncached
  <2> QED
    BY <2>3, <2>4
<1>22. CASE ScanDone(t)
  BY <1>22 DEF ScanDone
<1>23. CASE FindNothing(t)
  BY <1>23 DEF FindNothing
<1>24. CASE FindBug(t)
  BY <1>24 DEF FindBug
<1>25. CASE FlushNothing(t)
  BY <1>25 DEF FlushNothing
<1>26. CASE FindGarbage(t)
  BY <1>26 DEF FindGarbage
<1>27. CASE FlushFound(t)
  BY <1>27 DEF FlushFound
<1> QED
  BY <1>1, <1>2, <1>3, <1>4, <1>5, <1>6, <1>7, <1>8, <1>9, <1>10, <1>11, <1>12, <1>13, <1>14, <1>15, <1>16, <1>17, <1>18, <1>19, <1>20, <1>21, <1>22, <1>23, <1>24, <1>25, <1>26, <1>27 DEF Step, CreateStep, ScanStep

\* A call begins on an inode in the cache, a creation while there are numbers
\* left.
LEMMA BeginStep ==
    ASSUME Basic, NEW t \in Tasks, Begin(t)
    PROVE  /\ TaskOK' /\ Others(t) /\ mounted
           /\ pc[t] = "idle" /\ pc'[t] \in {"id", "scan", "flush"}
           /\ parent'[t] \in DOMAIN inode
           /\ pc'[t] # "flush" => inode[parent'[t]].isdir
           /\ pc'[t] = "id" => id + Cardinality(Drawing) <= MaxIno
           /\ dirty' \subseteq dirty
<1>0. TaskOK /\ DOMAIN inode \subseteq Numbers /\ dirty \subseteq DOMAIN inode
  BY TypeParts, Constants DEF Basic, TypeOK, Numbers, Located
<1> DEFINE P == /\ TaskOK' /\ Others(t) /\ mounted
                /\ pc[t] = "idle" /\ pc'[t] \in {"id", "scan", "flush"}
                /\ parent'[t] \in DOMAIN inode
                /\ pc'[t] # "flush" => inode[parent'[t]].isdir
                /\ pc'[t] = "id" => id + Cardinality(Drawing) <= MaxIno
                /\ dirty' \subseteq dirty
<1> USE <1>0 DEF TaskOK, Labels, Goto, Others
<1>1. ASSUME NEW d \in DOMAIN inode, BeginScan(t, d)
      PROVE  P
  BY <1>1 DEF BeginScan, Reachable
<1>2. ASSUME NEW d \in DOMAIN inode, NEW k \in BOOLEAN, BeginCreate(t, d, k)
      PROVE  P
  <2>1. id + Cardinality(Drawing) <= MaxIno
    BY <1>2 DEF BeginCreate, Drawing
  <2> QED
    BY <1>2, <2>1 DEF BeginCreate, Reachable
<1>3. ASSUME NEW i \in dirty, BeginFlush(t, i)
      PROVE  P
  BY <1>3 DEF BeginFlush
<1> QED
  BY <1>1, <1>2, <1>3 DEF Begin

\* Mount, unmount and crash find or leave every task outside of spfs, the other
\* steps of the system leave the tasks alone.
LEMMA SystemTasks ==
    ASSUME Basic, SystemStep
    PROVE  /\ TaskOK'
           /\ \/ /\ \A t \in Tasks : pc'[t] = "idle"
                 /\ Mount \/ Umount \/ Crash
              \/ /\ UNCHANGED <<pc, parent, ino, res>> /\ UNCHANGED super_vars
                 /\ \/ UNCHANGED inode_vars
                    \/ \E i \in DOMAIN inode : Evict(i) \/ LeaveLocked(i)
<1>0. TaskOK
  BY TypeParts DEF Basic
<1>1. CASE \/ Mkfs \/ (\E s \in Sector : WriteBack(s))
           \/ \E i \in DOMAIN inode : Evict(i) \/ LeaveLocked(i)
  <2>1. /\ UNCHANGED super_vars /\ UNCHANGED task_vars
        /\ UNCHANGED inode_vars \/ \E i \in DOMAIN inode : Evict(i) \/ LeaveLocked(i)
    BY <1>1, Zenon DEF Mkfs, WriteBack, Evict, LeaveLocked
  <2> QED
    BY <1>0, <2>1 DEF task_vars, local_vars, TaskOK
<1>2. CASE Mount \/ Umount
  <2>1. UNCHANGED task_vars
    BY <1>2, Zenon DEF Mount, Umount
  <2>2. \A t \in Tasks : pc[t] = "idle"
    BY <1>2 DEF Mount, Umount, Idle, Basic, Located
  <2> QED
    BY <1>0, <1>2, <2>1, <2>2 DEF task_vars, local_vars, TaskOK
<1>3. CASE Crash
  <2>1. isdir' \in [Tasks -> BOOLEAN]
    BY <1>3, Zenon DEF Crash
  <2>2. /\ pc' \in [Tasks -> Labels] /\ parent' \in [Tasks -> Numbers]
        /\ ino' \in [Tasks -> Numbers] /\ todo' \in [Tasks -> Seq(Numbers)]
        /\ res' \in [Tasks -> {"ok", "1", "EIO", "EINVAL"}]
    BY <1>3, Constants DEF Crash, Labels
  <2> QED
    BY <1>3, <2>1, <2>2 DEF Crash, TaskOK
<1> QED
  BY <1>1, <1>2, <1>3 DEF SystemStep

\* Every step keeps the types.
LEMMA NextType ==
    ASSUME Basic, [Next]_vars
    PROVE  TypeOK'
<1>1. TaskOK'
  <2>1. CASE UNCHANGED vars
    BY <2>1, TypeParts DEF vars, task_vars, local_vars, Basic, TaskOK
  <2> QED
    BY <2>1, SystemTasks, TaskSteps, BeginStep, NextSplit
<1>2. TypeOK' <=> (DeviceOK /\ SuperOK /\ InodeOK /\ TaskOK)'
  BY Zenon DEF TypeOK, DeviceOK, SuperOK, InodeOK, TaskOK
<1> QED
  BY <1>1, <1>2, NextDevice, NextSuper, NextInodes

-----------------------------------------------------------------------------
(* Inodes and their numbers *)

\* Inodes stay in the cache while tasks work; a new one has the number that its
\* creator has drawn.
LEMMA InodesGrow ==
    ASSUME Basic, NEW t \in Tasks, Step(t) \/ Begin(t)
    PROVE  /\ DOMAIN inode \subseteq DOMAIN inode'
           /\ \A i \in DOMAIN inode : inode'[i].isdir = inode[i].isdir
           /\ DOMAIN inode' # DOMAIN inode =>
                 GetInode(t) /\ pc[t] = "iget" /\ DOMAIN inode' = {ino[t]} \cup DOMAIN inode
<1>1. CASE GetInode(t)
  BY <1>1, GetInodeStep
<1>2. CASE ~GetInode(t)
  BY <1>2, InodeEffects DEF InodeEffect, Kept
<1> QED
  BY <1>1, <1>2

\* Only inodes in the cache are worked on.
LEMMA NextLocated ==
    ASSUME Basic, [Next]_vars
    PROVE  Located'
<1>0. Located
  BY DEF Basic
<1>1. CASE SystemStep
  <2>1. CASE Mount
    <3>1. mounted' /\ dirty' = {}
      BY <2>1 DEF Mount
    <3>2. \A t \in Tasks : pc'[t] = "idle"
      BY <1>0, <2>1 DEF Mount, task_vars, Located
    <3> QED
      BY <3>1, <3>2 DEF Located, NoParent
  <2>2. CASE Umount \/ Crash
    <3>1. Forgotten
      BY <2>2 DEF Umount, Crash
    <3>2. \A t \in Tasks : pc'[t] = "idle"
      BY <2>2 DEF Umount, Crash, Idle, task_vars
    <3> QED
      BY <3>1, <3>2 DEF Forgotten, Located, NoParent
  <2>3. CASE ~(Mount \/ Umount \/ Crash)
    <3>1. UNCHANGED <<pc, parent, ino, res>> /\ UNCHANGED super_vars
      BY <1>1, <2>3, SystemTasks
    <3>2. CASE UNCHANGED inode_vars
      BY <1>0, <3>1, <3>2 DEF inode_vars, super_vars, Located
    <3>3. ASSUME NEW i \in DOMAIN inode, Evict(i)
          PROVE  Located'
      <4>1. /\ DOMAIN inode' = DOMAIN inode \ {i} /\ \A j \in DOMAIN inode' : inode'[j] = inode[j]
            /\ i \notin dirty /\ dirty' = dirty
            /\ \A t \in Tasks : pc[t] # "idle" => parent[t] # i
        BY <3>3 DEF Evict
      <4> QED
        BY <1>0, <3>1, <4>1 DEF Located, super_vars, NoParent
    <3>4. ASSUME NEW i \in DOMAIN inode, LeaveLocked(i)
          PROVE  Located'
      <4>1. /\ DOMAIN inode' = DOMAIN inode /\ dirty' = dirty
            /\ \A j \in DOMAIN inode : inode'[j].isdir = inode[j].isdir
        BY <3>4, LeftLock DEF Kept
      <4> QED
        BY <1>0, <3>1, <4>1 DEF Located, super_vars, NoParent
    <3> QED
      BY <1>1, <2>3, <3>2, <3>3, <3>4, SystemTasks
  <2> QED
    BY <2>1, <2>2, <2>3
<1>2. ASSUME NEW t \in Tasks, Step(t) \/ Begin(t)
      PROVE  Located'
  <2>1. mounted /\ mounted' = mounted
    <3>1. CASE Step(t)
      <4>1. pc[t] # "idle"
        BY <3>1, TaskSteps DEF Flow
      <4> QED
        BY <1>0, <1>2, <4>1, SuperChanges DEF Located
    <3>2. CASE Begin(t)
      BY <3>2, BeginStep, SuperChanges
    <3> QED
      BY <1>2, <3>1, <3>2
  <2>2. /\ DOMAIN inode \subseteq DOMAIN inode'
        /\ \A i \in DOMAIN inode : inode'[i].isdir = inode[i].isdir
    BY <1>2, InodesGrow
  <2>3. Others(t)
    BY <1>2, TaskSteps, BeginStep
  <2>4. /\ pc'[t] # "idle" => parent'[t] \in DOMAIN inode
        /\ pc'[t] \notin NoParent => inode[parent'[t]].isdir
    <3>1. CASE Step(t)
      <4>1. pc'[t] # "idle" => parent'[t] = parent[t] /\ pc[t] # "idle"
        BY <3>1, TaskSteps DEF Flow
      <4>2. pc'[t] \notin NoParent => pc[t] \notin NoParent
        BY <3>1, TaskSteps DEF Flow, NoParent
      <4> QED
        BY <1>0, <4>1, <4>2 DEF Located, NoParent
    <3>2. CASE Begin(t)
      BY <3>2, BeginStep DEF NoParent
    <3> QED
      BY <1>2, <3>1, <3>2
  <2>5. dirty' \subseteq DOMAIN inode
    <3>1. CASE LockParent(t)
      BY <1>0, <3>1 DEF LockParent, Located
    <3> QED
      BY <1>0, <1>2, <3>1, SetChanges, BeginStep DEF Located
  <2>6. ASSUME NEW u \in Tasks
        PROVE  /\ pc'[u] # "idle" => parent'[u] \in DOMAIN inode
               /\ pc'[u] \notin NoParent => inode[parent'[u]].isdir
    BY <1>0, <2>3, <2>4 DEF Others, Located
  <2>7. \A u \in Tasks : pc'[u] \notin NoParent => pc'[u] # "idle"
    BY DEF NoParent
  <2> QED
    BY <2>1, <2>2, <2>5, <2>6, <2>7 DEF Located
<1>3. CASE UNCHANGED vars
  BY <1>0, <1>3 DEF vars, super_vars, inode_vars, task_vars, local_vars, Located
<1> QED
  BY <1>1, <1>2, <1>3, NextSplit

\* With no task inside spfs nobody draws a number.
LEMMA NobodyDraws ==
    ASSUME \A t \in Tasks : pc'[t] = "idle"
    PROVE  Cardinality(Drawing)' = 0
<1>1. Drawing' = {}
  BY DEF Drawing
<1> QED
  BY <1>1, FS_EmptySet

\* The next number stays larger than the ones in use.
LEMMA NextNextNumber ==
    ASSUME Basic, [Next]_vars
    PROVE  NextNumber'
<1>0. NextNumber
  BY DEF Basic
<1>a. ASSUME \A t \in Tasks : pc'[t] = "idle",
             id' + 0 <= MaxIno + 1, \A i \in DOMAIN inode' : i < id'
      PROVE  NextNumber'
  BY <1>a, NobodyDraws DEF NextNumber, Numbered
<1>1. CASE SystemStep
  <2>1. CASE Mount
    <3>1. id' = Root + 1 /\ DOMAIN inode' = {Root}
      BY <2>1, MountStep DEF Mount
    <3>2. \A t \in Tasks : pc'[t] = "idle"
      BY <2>1 DEF Mount, task_vars, Basic, Located
    <3> QED
      BY <1>a, <3>1, <3>2, Constants DEF Root
  <2>2. CASE Umount \/ Crash
    <3>1. id' = Root /\ DOMAIN inode' = {}
      BY <2>2 DEF Umount, Crash, Forgotten
    <3>2. \A t \in Tasks : pc'[t] = "idle"
      BY <2>2 DEF Umount, Crash, Idle, task_vars
    <3> QED
      BY <1>a, <3>1, <3>2, Constants DEF Root
  <2>3. CASE ~(Mount \/ Umount \/ Crash)
    <3>1. UNCHANGED <<pc, parent, ino, res>> /\ UNCHANGED super_vars
      BY <1>1, <2>3, SystemTasks
    <3>2. DOMAIN inode' \subseteq DOMAIN inode
      <4>1. CASE UNCHANGED inode_vars
        BY <4>1 DEF inode_vars
      <4>2. ASSUME NEW i \in DOMAIN inode, Evict(i)
            PROVE  DOMAIN inode' \subseteq DOMAIN inode
        BY <4>2 DEF Evict
      <4>3. ASSUME NEW i \in DOMAIN inode, LeaveLocked(i)
            PROVE  DOMAIN inode' \subseteq DOMAIN inode
        BY <4>3, LeftLock DEF Kept
      <4> QED
        BY <1>1, <2>3, <4>1, <4>2, <4>3, SystemTasks
    <3>3. Drawing' = Drawing
      BY <3>1 DEF Drawing
    <3> QED
      BY <1>0, <3>1, <3>2, <3>3 DEF NextNumber, super_vars
  <2> QED
    BY <2>1, <2>2, <2>3
<1>2. ASSUME NEW t \in Tasks, Step(t) \/ Begin(t)
      PROVE  NextNumber'
  <2>1. Others(t)
    BY <1>2, TaskSteps, BeginStep
  <2>n. \A u \in Tasks : ino[u] \in Nat
    BY DEF Basic, TypeOK, Numbers
  <2>i. \A i \in DOMAIN inode : i \in Nat
    BY DEF Basic, TypeOK
  <2>t. t # NoTask
    BY Constants
  <2>2. CASE BumpId(t)
    <3>1. pc[t] = "bump" /\ id_lock = t /\ id' = id + 1 /\ ino[t] = id /\ inode' = inode
      BY <1>0, <2>2 DEF BumpId, NextNumber, inode_vars
    <3>2. pc'[t] = "iget" /\ ino'[t] = ino[t]
      BY <2>2 DEF BumpId, Goto, local_vars, Basic, TypeOK
    <3>3. Drawing' = Drawing \ {t} /\ t \in Drawing
      BY <2>1, <3>1, <3>2 DEF Drawing, Others
    <3>4. Cardinality(Drawing)' = Cardinality(Drawing) - 1
      BY <3>3, NumberLeft, FS_RemoveElement
    <3>5. id' + Cardinality(Drawing)' <= MaxIno + 1
      BY <1>0, <3>1, <3>4, NumberLeft DEF NextNumber
    <3>6. \A u \in Tasks \ {t} : pc[u] # "bump"
      BY <1>0, <3>1 DEF NextNumber
    <3>7. \A u \in Tasks : pc'[u] # "bump"
      BY <2>1, <3>2, <3>6 DEF Others
    <3>8. \A u \in Tasks : pc'[u] \in {"iget"} \cup Numbered => ino'[u] < id'
      BY <1>0, <2>1, <2>n, <3>1, <3>2, NumberLeft DEF NextNumber, Others
    <3>9. \A i \in DOMAIN inode' : i < id'
      BY <1>0, <2>i, <3>1, NumberLeft DEF NextNumber
    <3> QED
      BY <3>5, <3>7, <3>8, <3>9 DEF NextNumber
  <2>3. CASE ReadId(t)
    <3>1. pc[t] = "id" /\ id_lock = NoTask /\ id_lock' = t /\ id' = id /\ inode' = inode
      BY <2>3 DEF ReadId, inode_vars
    <3>2. pc'[t] = "bump" /\ ino'[t] = id
      BY <2>3 DEF ReadId, Goto, Basic, TypeOK
    <3>3. Drawing' = Drawing
      BY <2>1, <3>1, <3>2 DEF Drawing, Others
    <3>4. \A u \in Tasks \ {t} : pc'[u] # "bump"
      BY <1>0, <2>1, <3>1, Constants DEF NextNumber, Others
    <3>5. \A u \in Tasks : pc'[u] \in {"iget"} \cup Numbered => ino'[u] < id'
      BY <1>0, <2>1, <3>1, <3>2 DEF NextNumber, Others, Numbered
    <3> QED
      BY <1>0, <3>1, <3>2, <3>3, <3>4, <3>5 DEF NextNumber
  <2>4. CASE Begin(t)
    <3>1. /\ pc[t] = "idle" /\ pc'[t] \in {"id", "scan", "flush"}
          /\ pc'[t] = "id" => id + Cardinality(Drawing) <= MaxIno
      BY <2>4, BeginStep
    <3>2. id' = id /\ id_lock' = id_lock /\ DOMAIN inode' = DOMAIN inode
      <4>1. ~ReadId(t) /\ ~BumpId(t) /\ ~GetInode(t)
        BY <3>1 DEF ReadId, BumpId, GetInode
      <4> QED
        BY <1>2, <4>1, SuperChanges, InodesGrow
    <3>3. id' + Cardinality(Drawing)' <= MaxIno + 1
      <4>1. CASE pc'[t] = "id"
        <5>1. Drawing' = Drawing \cup {t} /\ t \notin Drawing
          BY <2>1, <3>1, <4>1 DEF Drawing, Others
        <5>2. Cardinality(Drawing)' = Cardinality(Drawing) + 1
          BY <5>1, NumberLeft, FS_AddElement
        <5> QED
          BY <3>1, <3>2, <4>1, <5>2, NumberLeft, Constants
      <4>2. CASE pc'[t] # "id"
        <5>1. Drawing' = Drawing
          BY <2>1, <3>1, <4>2 DEF Drawing, Others
        <5> QED
          BY <1>0, <3>2, <5>1 DEF NextNumber
      <4> QED
        BY <4>1, <4>2
    <3>4. \A u \in Tasks : pc'[u] \in {"bump", "iget"} \cup Numbered =>
                              pc'[u] = pc[u] /\ ino'[u] = ino[u]
      BY <2>1, <3>1 DEF Others, Numbered
    <3> QED
      BY <1>0, <3>2, <3>3, <3>4 DEF NextNumber
  <2>5. CASE Step(t) /\ ~ReadId(t) /\ ~BumpId(t)
    <3>1. id' = id /\ id_lock' = id_lock
      BY <1>2, <2>5, SuperChanges
    <3>2. Flow(t)
      BY <2>5, TaskSteps
    <3>3. pc'[t] \notin {"id", "bump", "iget"}
      BY <2>5, <3>2 DEF Flow
    <3>4. pc'[t] \in Numbered => pc[t] \in {"iget"} \cup Numbered /\ ino'[t] = ino[t]
      BY <3>2 DEF Flow, Numbered
    <3>5. Drawing' \in SUBSET Drawing
      BY <2>1, <3>3 DEF Drawing, Others
    <3>6. Cardinality(Drawing)' <= Cardinality(Drawing) /\ Cardinality(Drawing)' \in Nat
      BY <3>5, NumberLeft, FS_Subset, FS_CardinalityType
    <3>7. id' + Cardinality(Drawing)' <= MaxIno + 1
      BY <1>0, <3>1, <3>6, NumberLeft, Constants DEF NextNumber
    <3>8. \A u \in Tasks : pc'[u] \in {"iget"} \cup Numbered => ino'[u] < id'
      BY <1>0, <2>1, <3>1, <3>3, <3>4 DEF NextNumber, Others
    <3>9. \A i \in DOMAIN inode' : i < id'
      <4>1. DOMAIN inode' # DOMAIN inode => pc[t] = "iget" /\ DOMAIN inode' = {ino[t]} \cup DOMAIN inode
        BY <1>2, InodesGrow
      <4> QED
        BY <1>0, <3>1, <4>1 DEF NextNumber
    <3>10. \A u \in Tasks : pc'[u] = "bump" => pc[u] = "bump" /\ ino'[u] = ino[u]
      BY <2>1, <3>3 DEF Others
    <3> QED
      BY <1>0, <3>1, <3>7, <3>8, <3>9, <3>10 DEF NextNumber
  <2> QED
    BY <1>2, <2>2, <2>3, <2>4, <2>5
<1>3. CASE UNCHANGED vars
  <2>1. Drawing' = Drawing
    BY <1>3 DEF vars, task_vars, Drawing
  <2> QED
    BY <1>0, <1>3, <2>1 DEF vars, super_vars, inode_vars, task_vars, local_vars, NextNumber
<1> QED
  BY <1>1, <1>2, <1>3, NextSplit

\* A number that was drawn stays with the task and the inode it is for.
LEMMA NextOneOwner ==
    ASSUME Basic, [Next]_vars
    PROVE  OneOwner'
<1>0. OneOwner /\ NextNumber
  BY DEF Basic
<1>1. CASE SystemStep
  <2>1. CASE \A t \in Tasks : pc'[t] = "idle"
    BY <2>1 DEF OneOwner, Numbered
  <2>2. CASE UNCHANGED <<pc, parent, ino, res>> /\ UNCHANGED inode_vars
    BY <1>0, <2>2 DEF OneOwner, inode_vars
  <2>3. ASSUME UNCHANGED <<pc, parent, ino, res>>, NEW i \in DOMAIN inode, Evict(i)
        PROVE  OneOwner'
    <3>1. /\ DOMAIN inode' = DOMAIN inode \ {i}
          /\ \A t \in Tasks : pc[t] # "idle" => ino[t] # i
      BY <2>3 DEF Evict
    <3> QED
      BY <1>0, <2>3, <3>1 DEF OneOwner, Numbered
  <2>4. ASSUME UNCHANGED <<pc, parent, ino, res>>, NEW i \in DOMAIN inode, LeaveLocked(i)
        PROVE  OneOwner'
    <3>1. DOMAIN inode' = DOMAIN inode
      BY <2>4, LeftLock DEF Kept
    <3> QED
      BY <1>0, <2>4, <3>1 DEF OneOwner
  <2> QED
    BY <1>1, <2>1, <2>2, <2>3, <2>4, SystemTasks
<1>2. ASSUME NEW t \in Tasks, Step(t) \/ Begin(t)
      PROVE  OneOwner'
  <2>1. Others(t)
    BY <1>2, TaskSteps, BeginStep
  <2>2. CASE BumpId(t)
    <3>1. pc[t] = "bump" /\ ino[t] = id /\ inode' = inode
      BY <1>0, <2>2 DEF BumpId, NextNumber, inode_vars
    <3>2. pc'[t] = "iget" /\ ino'[t] = ino[t]
      BY <2>2 DEF BumpId, Goto, local_vars, Basic, TypeOK
    <3>3. \A u \in Tasks \ {t} : pc[u] = "iget" => ino[u] # id
      BY <1>0, NumberLeft DEF NextNumber
    <3>4. id \notin DOMAIN inode
      BY <1>0, NumberLeft DEF NextNumber
    <3> QED
      BY <1>0, <2>1, <3>1, <3>2, <3>3, <3>4 DEF OneOwner, Others, Numbered
  <2>3. CASE GetInode(t)
    <3>1. pc[t] = "iget" /\ DOMAIN inode' = {ino[t]} \cup DOMAIN inode
      BY <2>3, GetInodeStep
    <3>2. pc'[t] = "tree" /\ ino'[t] = ino[t]
      BY <2>3 DEF GetInode, Goto, local_vars, Basic, TypeOK
    <3> QED
      BY <1>0, <2>1, <3>1, <3>2 DEF OneOwner, Others
  <2>4. CASE ~BumpId(t) /\ ~GetInode(t)
    <3>1. DOMAIN inode' = DOMAIN inode
      BY <1>2, <2>4, InodesGrow
    <3>2. /\ pc'[t] # "iget"
          /\ pc'[t] \in Numbered => pc[t] \in Numbered /\ ino'[t] = ino[t]
      BY <1>2, <2>4, TaskSteps, BeginStep DEF Flow, Numbered
    <3> QED
      BY <1>0, <2>1, <3>1, <3>2 DEF OneOwner, Others
  <2> QED
    BY <2>2, <2>3, <2>4
<1>3. CASE UNCHANGED vars
  BY <1>0, <1>3 DEF vars, inode_vars, task_vars, local_vars, OneOwner
<1> QED
  BY <1>1, <1>2, <1>3, NextSplit

-----------------------------------------------------------------------------
(* The root of the tree *)

\* tree.lock keeps one holder.
LEMMA NextTreeLocked ==
    ASSUME Basic, [Next]_vars
    PROVE  TreeLocked'
<1>0. TreeLocked /\ TypeOK
  BY DEF Basic
<1>1. CASE SystemStep
  <2>2. CASE \A t \in Tasks : pc'[t] = "idle"
    BY <2>2 DEF TreeLocked, HoldsTree
  <2>3. CASE UNCHANGED <<pc, parent, ino, res>> /\ UNCHANGED super_vars
    BY <1>0, <2>3 DEF TreeLocked, super_vars
  <2> QED
    BY <1>1, <2>2, <2>3, SystemTasks
<1>2. ASSUME NEW t \in Tasks, Step(t) \/ Begin(t)
      PROVE  TreeLocked'
  <2>1. Others(t) /\ t # NoTask
    BY <1>2, TaskSteps, BeginStep, Constants
  <2>2. \A u \in Tasks : pc'[u] \in HoldsTree => tree_lock' = u
    <3>1. CASE tree_lock' = t
      <4>1. CASE tree_lock = t \/ tree_lock = NoTask
        BY <1>0, <2>1, <3>1, <4>1, Constants DEF TreeLocked, Others
      <4>2. CASE tree_lock # t /\ tree_lock # NoTask
        BY <1>2, <2>1, <3>1, <4>2, SuperChanges
        DEF LockTree, InsertDone, FindNothing, FindGarbage, FlushFound, FlushNothing
      <4> QED
        BY <4>1, <4>2
    <3>2. CASE tree_lock' = tree_lock /\ tree_lock' # t
      <4>1. pc'[t] \notin HoldsTree
        <5>1. pc[t] \notin HoldsTree
          BY <1>0, <3>2 DEF TreeLocked
        <5> QED
          BY <1>2, <3>2, <5>1, TaskSteps, BeginStep DEF Flow, HoldsTree
      <4> QED
        BY <1>0, <2>1, <3>2, <4>1 DEF TreeLocked, Others
    <3>3. CASE tree_lock' # tree_lock /\ tree_lock' # t
      <4>1. InsertDone(t) \/ FindNothing(t) \/ FindGarbage(t) \/ FlushFound(t) \/ FlushNothing(t)
        BY <1>2, <3>3, SuperChanges DEF LockTree
      <4>2. pc[t] \in {"inserted", "find", "sync"}
        BY <4>1 DEF InsertDone, FindNothing, FindGarbage, FlushFound, FlushNothing
      <4>3. pc[t] \in HoldsTree /\ pc'[t] \notin HoldsTree
        BY <1>2, <4>2, TaskSteps, BeginStep DEF Flow, HoldsTree
      <4> QED
        BY <1>0, <2>1, <4>3 DEF TreeLocked, Others
    <3> QED
      BY <3>1, <3>2, <3>3
  <2>3. \A u \in Tasks : pc'[u] = "newroot" => start' = 0
    <3>1. CASE InsertRoot(t)
      <4>1. pc[t] = "newroot" /\ pc'[t] = "inserted"
        BY <1>0, <3>1 DEF InsertRoot, Goto, TypeOK
      <4>2. \A u \in Tasks \ {t} : pc[u] # "newroot"
        BY <1>0, <4>1 DEF TreeLocked, HoldsTree
      <4> QED
        BY <2>1, <4>1, <4>2 DEF Others
    <3>2. CASE start' = start
      <4>1. pc'[t] = "newroot" => start = 0
        BY <1>2, TaskSteps, BeginStep DEF Flow, InsertPage
      <4> QED
        BY <1>0, <2>1, <3>2, <4>1 DEF TreeLocked, Others
    <3> QED
      BY <1>2, <3>1, <3>2, SuperChanges
  <2> QED
    BY <2>2, <2>3 DEF TreeLocked
<1>3. CASE UNCHANGED vars
  BY <1>0, <1>3 DEF vars, device_vars, super_vars, task_vars, TreeLocked
<1> QED
  BY <1>1, <1>2, <1>3, NextSplit

\* A fresh image before the first mount.
LEMMA InitBasic == Init => Basic
<1> SUFFICES ASSUME Init PROVE Basic
  OBVIOUS
<1>1. DeviceOK
  BY BlockTypes DEF Init, DeviceOK
<1>2. SuperOK
  <2>1. mounted \in BOOLEAN
    BY Zenon DEF Init
  <2> QED
    BY <2>1, Constants DEF Init, SuperOK
<1>3. InodeOK
  BY DEF Init, InodeOK
<1>4. TaskOK
  <2>1. isdir \in [Tasks -> BOOLEAN]
    BY Zenon DEF Init
  <2>2. /\ pc \in [Tasks -> Labels] /\ parent \in [Tasks -> Numbers]
        /\ ino \in [Tasks -> Numbers] /\ todo \in [Tasks -> Seq(Numbers)]
        /\ res \in [Tasks -> {"ok", "1", "EIO", "EINVAL"}]
    BY Constants DEF Init, Idle, Labels
  <2> QED
    BY <2>1, <2>2 DEF TaskOK
<1>5. (\A t \in Tasks : pc[t] = "idle") /\ DOMAIN inode = {}
  BY DEF Init, Idle
<1>6. Located
  BY <1>5 DEF Init, Located, NoParent
<1>7. NextNumber
  <2>1. Drawing = {}
    BY <1>5 DEF Drawing
  <2>2. Cardinality(Drawing) = 0 /\ id = 1
    BY <2>1, FS_EmptySet DEF Init, Root
  <2> QED
    BY <1>5, <2>2, Constants DEF NextNumber, Numbered
<1>8. OneOwner
  BY <1>5 DEF OneOwner, Numbered
<1>9. TreeLocked
  BY <1>5 DEF TreeLocked, HoldsTree
<1> QED
  BY <1>1, <1>2, <1>3, <1>4, <1>6, <1>7, <1>8, <1>9, TypeParts DEF Basic

\* Every step keeps what holds whatever the slab hands out.
LEMMA NextBasic == Basic /\ [Next]_vars => Basic'
BY NextType, NextLocated, NextNextNumber, NextOneOwner, NextTreeLocked DEF Basic

\* What holds whatever the slab hands out holds in every reachable state.
THEOREM BasicInvariant == Spec => []Basic
BY InitBasic, NextBasic, PTL DEF Spec

\* Types hold in every reachable state, with any number of tasks, blocks, inodes
\* and mounts: sbi->id stays inside the numbers, and free_list.blocks does not
\* underflow when spfs_btree_insert and spfs_add_child race for the last block.
THEOREM TypeCorrect == Spec => []TypeOK
<1>1. Basic => TypeOK
  BY DEF Basic
<1> QED
  BY BasicInvariant, <1>1, PTL

\* The branch of spfs_new_inode that "should never happen" (sp.c:157) does not:
\* sbi->id_lock makes every number drawn new, in any interleaving of
\* spfs_create, spfs_mkdir, lookups and evictions.
THEOREM NumbersStayFresh == Spec => []NumbersFresh
<1>1. ASSUME Basic PROVE NumbersFresh
  <2>1. \A t, u \in Tasks : t # u /\ pc[t] = "iget" /\ pc[u] \in {"iget", "tree", "insert"} =>
                               ino[u] # ino[t]
    BY <1>1 DEF Basic, OneOwner, Numbered
  <2> QED
    BY <1>1, <2>1 DEF Basic, OneOwner, NumbersFresh
<1> QED
  BY BasicInvariant, <1>1, PTL

-----------------------------------------------------------------------------
(* Blocks and children, while the slab hands out constructed objects only *)

\* A slab that keeps no object is empty again after objects were freed.
LEMMA NothingKept ==
    ASSUME MaxSlab = 0, Basic, slab = {}, NEW S \in SUBSET DOMAIN inode, Freed(S)
    PROVE  slab' = {}
<1> DEFINE object(i) == [capacity |-> inode[i].capacity, start |-> inode[i].start,
                 locked |-> inode[i].lock # NoTask]
           objects == {object(i) : i \in S}
           f == [i \in S |-> object(i)]
<1>1. IsFiniteSet(S)
  <2>1. S \in SUBSET (1 .. MaxIno) /\ MaxIno \in Int
    BY Constants DEF Basic, TypeOK
  <2>2. IsFiniteSet(1 .. MaxIno)
    BY <2>1, FS_Interval
  <2> QED
    BY <2>1, <2>2, FS_Subset
<1>2. IsFiniteSet(objects)
  <2>1. f \in Surjection(S, objects)
    BY DEF Surjection
  <2> HIDE DEF f, objects
  <2> QED
    BY <1>1, <2>1, FS_Surjection
<1>3. slab' \in SUBSET objects /\ Cardinality(slab') <= 0
  BY DEF Freed
<1>4. IsFiniteSet(slab') /\ Cardinality(slab') \in Nat
  <2> HIDE DEF objects
  <2> QED
    BY <1>2, <1>3, FS_Subset, FS_CardinalityType
<1>5. Cardinality(slab') = 0
  BY <1>3, <1>4
<1> QED
  BY <1>4, <1>5, FS_EmptySet

\* Without a directory that has a block, and without a task inside spfs, there
\* is nothing to say.
LEMMA NoDirectories ==
    ASSUME slab' = {}, start' = 0, \A t \in Tasks : pc'[t] = "idle",
           \A i \in DOMAIN inode' : inode'[i].start = 0
    PROVE  Pristine'
<1>1. Directories' = {}
  BY DEF Directories
<1>2. LockHeld' /\ SectorsOwned'
  BY <1>1 DEF LockHeld, HoldsParent, SectorsOwned
<1>3. InodesWritten' /\ Counted'
  BY <1>1 DEF InodesWritten, Counted, CapacityCovers
<1> QED
  BY <1>2, <1>3 DEF Pristine

\* The system's steps.
LEMMA SystemPristine ==
    ASSUME MaxSlab = 0, Basic, Pristine, SystemStep
    PROVE  Pristine'
<1>0. slab = {}
  BY DEF Pristine
<1>1. CASE Mount
  <2>1. PICK o \in NewObjects : DOMAIN inode' = {Root} /\ inode'[Root].start = o.start
                                /\ slab' = slab \ {o}
    BY <1>1, MountStep
  <2>2. o.start = 0
    BY <1>0 DEF NewObjects, Constructed
  <2>3. start' = 0 /\ \A t \in Tasks : pc'[t] = "idle"
    BY <1>1 DEF Mount, task_vars, Basic, Located
  <2> QED
    BY <1>0, <2>1, <2>2, <2>3, NoDirectories
<1>2. CASE Umount \/ Crash
  <2>1. slab' = {}
    BY <1>0, <1>2, NothingKept DEF Umount, Crash
  <2>2. start' = 0 /\ DOMAIN inode' = {}
    BY <1>2 DEF Umount, Crash, Forgotten
  <2>3. \A t \in Tasks : pc'[t] = "idle"
    BY <1>2 DEF Umount, Crash, Idle, task_vars
  <2> QED
    BY <2>1, <2>2, <2>3, NoDirectories
<1>3. CASE Mkfs
  <2>1. /\ slab' = {} /\ start' = 0 /\ DOMAIN inode' = {}
        /\ \A t \in Tasks : pc'[t] = "idle"
    BY <1>0, <1>3 DEF Mkfs, super_vars, inode_vars, task_vars, Basic, Located
  <2> QED
    BY <2>1, NoDirectories
<1>4. ASSUME NEW s \in Sector, WriteBack(s)
      PROVE  Pristine'
  <2>1. UNCHANGED <<cache, super_vars, inode_vars, task_vars>>
    BY <1>4 DEF WriteBack
  <2> QED
    BY <2>1
    DEF super_vars, inode_vars, task_vars, local_vars, Pristine, LockHeld, SectorsOwned,
        InodesWritten, HasInode, Counted, CapacityCovers, Directories, Children
<1>5. ASSUME NEW i \in DOMAIN inode, Evict(i)
      PROVE  Pristine'
  <2>1. /\ DOMAIN inode' = DOMAIN inode \ {i} /\ \A j \in DOMAIN inode' : inode'[j] = inode[j]
        /\ UNCHANGED <<device_vars, super_vars, task_vars>>
        /\ \A t \in Tasks : pc[t] # "idle" => parent[t] # i
    BY <1>5 DEF Evict
  <2>2. slab' = {}
    BY <1>0, <1>5, NothingKept DEF Evict
  <2>3. \A j \in Directories' : j \in Directories /\ inode'[j] = inode[j] /\ Children(j)' = Children(j)
    BY <2>1 DEF Directories, Children, device_vars
  <2>4. \A t \in Tasks : pc[t] # "idle" => inode'[parent[t]] = inode[parent[t]]
    BY <2>1 DEF Basic, Located
  <2>5. /\ UNCHANGED <<cache, free, start, mounted, pc, parent, ino, res>>
    BY <2>1 DEF device_vars, super_vars, task_vars, local_vars
  <2>6. LockHeld'
    BY <2>4, <2>5 DEF Pristine, LockHeld, HoldsParent
  <2>7. SectorsOwned'
    BY <2>3, <2>5 DEF Pristine, SectorsOwned
  <2>8. \A n : HasInode(n)' <=> HasInode(n)
    BY <2>5 DEF HasInode
  <2>9. InodesWritten'
    BY <2>3, <2>5, <2>8 DEF Pristine, InodesWritten
  <2>10. Counted'
    <3>1. CapacityCovers'
      BY <2>3 DEF Pristine, Counted, CapacityCovers
    <3>2. ASSUME NEW t \in Tasks, pc'[t] = "add"
          PROVE  /\ inode'[parent'[t]].capacity >= 1
                 /\ parent'[t] \in Directories' =>
                       Len(Children(parent[t])') < inode'[parent'[t]].capacity
      <4>1. PICK p \in DOMAIN inode : p = parent[t] /\ parent'[t] = p
        BY <2>5, <3>2 DEF Basic, Located
      <4>2. inode'[p] = inode[p] /\ pc[t] = "add"
        BY <2>4, <2>5, <3>2, <4>1
      <4>3. p \in Directories' => p \in Directories /\ Children(p)' = Children(p)
        BY <2>3
      <4> QED
        BY <4>1, <4>2, <4>3 DEF Pristine, Counted
    <3> QED
      BY <3>1, <3>2 DEF Counted
  <2> QED
    BY <2>2, <2>6, <2>7, <2>9, <2>10 DEF Pristine
<1>6. ASSUME NEW i \in DOMAIN inode, LeaveLocked(i)
      PROVE  Pristine'
  <2>1. /\ Kept({i}) /\ Becomes(i, Gone, inode[i].capacity, inode[i].start) /\ ~inode[i].isdir
        /\ UNCHANGED <<cache, free, start, mounted, slab, pc, parent, ino, res>>
    BY <1>6, LeftLock DEF device_vars, super_vars, task_vars, local_vars
  <2>2. /\ DOMAIN inode' = DOMAIN inode
        /\ \A j \in DOMAIN inode :
              /\ inode'[j].isdir = inode[j].isdir /\ inode'[j].capacity = inode[j].capacity
              /\ inode'[j].start = inode[j].start
    BY <2>1 DEF Kept, Becomes
  <2>3. Directories' = Directories /\ Directories \subseteq DOMAIN inode
    BY <2>2 DEF Directories
  <2>4. \A j \in DOMAIN inode : Children(j)' = Children(j)
    BY <2>1, <2>2 DEF Children
  <2>5. LockHeld'
    <3>1. ASSUME NEW t \in Tasks, pc[t] \in HoldsParent
          PROVE  inode'[parent[t]].lock = inode[parent[t]].lock
      <4>1. parent[t] \in DOMAIN inode /\ inode[parent[t]].isdir
        BY <3>1 DEF Basic, Located, HoldsParent, NoParent
      <4> QED
        BY <2>1, <4>1 DEF Kept
    <3> QED
      BY <2>1, <3>1 DEF Pristine, LockHeld
  <2>6. SectorsOwned'
    BY <2>1, <2>2, <2>3 DEF Pristine, SectorsOwned
  <2>7. \A n : HasInode(n)' <=> HasInode(n)
    BY <2>1 DEF HasInode
  <2>8. InodesWritten'
    BY <2>1, <2>3, <2>4, <2>7 DEF Pristine, InodesWritten
  <2>9. Counted'
    <3>1. CapacityCovers'
      BY <2>2, <2>3, <2>4 DEF Pristine, Counted, CapacityCovers
    <3>2. ASSUME NEW t \in Tasks, pc'[t] = "add"
          PROVE  /\ inode'[parent'[t]].capacity >= 1
                 /\ parent'[t] \in Directories' =>
                       Len(Children(parent[t])') < inode'[parent'[t]].capacity
      <4>1. PICK q \in DOMAIN inode : q = parent[t] /\ parent'[t] = q
        BY <2>1, <3>2 DEF Basic, Located
      <4>2. inode'[q].capacity = inode[q].capacity /\ pc[t] = "add" /\ Children(q)' = Children(q)
        BY <2>1, <2>2, <2>4, <3>2, <4>1
      <4> QED
        BY <2>3, <4>1, <4>2 DEF Pristine, Counted
    <3> QED
      BY <3>1, <3>2 DEF Counted
  <2> QED
    BY <2>1, <2>5, <2>6, <2>8, <2>9 DEF Pristine
<1> QED
  BY <1>1, <1>2, <1>3, <1>4, <1>5, <1>6 DEF SystemStep

\* A sector that was allocated keeps its block, but for a directory block that
\* gets one more child or is damaged by a stray flush.
LEMMA Allocated ==
    ASSUME Basic, NEW t \in Tasks, Step(t) \/ Begin(t)
    PROVE  /\ mounted /\ mounted' = mounted
           /\ free \in Nat /\ free' \in Nat /\ free' <= free
           /\ \A s \in Sector : s > free + 1 =>
                 \/ cache'[s] = cache[s]
                 \/ AddToBlock(t) /\ s = Place(t)
                 \/ FlushFound(t) /\ Damaged(cache[s], cache'[s])
<1>1. pc[t] # "idle" \/ mounted
  BY TaskSteps, BeginStep DEF Flow
<1>2. mounted /\ mounted' = mounted
  <2>1. mounted
    BY <1>1 DEF Basic, Located
  <2> QED
    BY <2>1, SuperChanges
<1>3. free \in Nat /\ free' \in Nat /\ free' <= free
  <2>1. SuperOK
    BY TypeParts DEF Basic
  <2>2. free \in Nat
    BY <2>1, Constants DEF SuperOK
  <2>3. CASE CanAlloc /\ TakeBlock
    BY <2>1, <2>2, <2>3, TakenBlock, Constants
  <2> QED
    BY <2>2, <2>3, SuperChanges
<1>4. ASSUME NEW s \in Sector, s > free + 1
      PROVE  \/ cache'[s] = cache[s]
             \/ AddToBlock(t) /\ s = Place(t)
             \/ FlushFound(t) /\ Damaged(cache[s], cache'[s])
  <2>0. cache \in [Sector -> Block] /\ s # 0 /\ s # LastFree
    BY <1>3, <1>4, Constants DEF Basic, TypeOK, LastFree
  <2>1. CASE InsertPage(t)
    BY <2>0, <2>1 DEF InsertPage
  <2>2. CASE InsertRoot(t)
    <3>1. start = 0
      BY <2>2 DEF InsertRoot, Basic, TreeLocked
    <3> QED
      BY <2>0, <2>2, <3>1 DEF InsertRoot
  <2>3. CASE AddNewBlock(t)
    BY <2>0, <2>3 DEF AddNewBlock
  <2>4. CASE AddToBlock(t)
    BY <2>0, <2>4 DEF AddToBlock
  <2>5. CASE FlushFound(t)
    <3>1. PICK r \in Sector \ {0}, c \in Block :
             cache' = [cache EXCEPT ![r] = c] /\ Damaged(cache[r], c)
      BY <2>5, StrayFlush
    <3> QED
      BY <2>0, <2>5, <3>1
  <2> QED
    BY <2>1, <2>2, <2>3, <2>4, <2>5, CacheChanges
<1> QED
  BY <1>2, <1>3, <1>4

\* An inode block that was written stays.
LEMMA InodeStays ==
    ASSUME Basic, NEW t \in Tasks, Step(t) \/ Begin(t), NEW n, HasInode(n)
    PROVE  HasInode(n)'
<1>1. PICK s \in Sector : s > free + 1 /\ cache[s] = InodeBlock(n)
  BY DEF HasInode
<1>2. cache[s].kind # "dir"
  BY <1>1 DEF InodeBlock
<1>3. ~(AddToBlock(t) /\ s = Place(t)) /\ ~Damaged(cache[s], cache'[s])
  BY <1>2 DEF AddToBlock, Damaged
<1>4. cache'[s] = InodeBlock(n) /\ s > free' + 1
  BY <1>1, <1>3, Allocated, Constants
<1> QED
  BY <1>4 DEF HasInode

\* The block and the capacity of a directory: a new inode has none, and only
\* spfs_add_child gives it one.
LEMMA DirectoryChanges ==
    ASSUME Basic, slab = {}, NEW t \in Tasks, Step(t) \/ Begin(t), NEW i \in Directories'
    PROVE  \/ /\ i \in Directories /\ inode'[i].start = inode[i].start
              /\ inode'[i].capacity >= inode[i].capacity
           \/ /\ AddNewBlock(t) /\ i = parent[t] /\ i \in DOMAIN inode
              /\ inode'[i].start = LastFree /\ inode'[i].capacity = inode[i].capacity
<1>0. i \in DOMAIN inode' /\ inode'[i].isdir /\ inode'[i].start # 0
  BY DEF Directories
<1>1. \A j \in DOMAIN inode : inode[j].capacity \in Nat
  BY DEF Basic, TypeOK, InodeFields
<1>2. CASE GetInode(t)
  <2>1. PICK o \in NewObjects :
           /\ DOMAIN inode' = {ino[t]} \cup DOMAIN inode
           /\ \A j \in DOMAIN inode : inode'[j] = inode[j]
           /\ inode'[ino[t]].start = o.start
    BY <1>2, GetInodeStep
  <2>2. o.start = 0
    BY DEF NewObjects, Constructed
  <2>3. i \in DOMAIN inode /\ inode'[i] = inode[i]
    BY <1>0, <2>1, <2>2
  <2> QED
    BY <1>0, <1>1, <2>3 DEF Directories
<1>3. CASE ~GetInode(t)
  <2>1. InodeEffect(t)
    BY <1>3, InodeEffects
  <2>2. i \in DOMAIN inode /\ inode'[i].isdir = inode[i].isdir
    BY <1>0, <2>1 DEF InodeEffect, Kept
  <2>3. CASE inode'[i].start = inode[i].start /\ inode'[i].capacity = inode[i].capacity
    BY <1>0, <1>1, <2>2, <2>3 DEF Directories
  <2>4. CASE i = parent[t] /\ LockParent(t) /\ Becomes(i, t, inode[i].capacity + 1, inode[i].start)
    BY <1>0, <1>1, <2>2, <2>4 DEF Directories, Becomes
  <2>5. CASE i = parent[t] /\ AddNewBlock(t) /\ Becomes(i, inode[i].lock, inode[i].capacity, LastFree)
    BY <2>2, <2>5 DEF Becomes
  <2> QED
    BY <1>0, <2>1, <2>2, <2>3, <2>4, <2>5 DEF InodeEffect, Kept, Becomes
<1> QED
  BY <1>2, <1>3

\* The directory that spfs_add_child works on, once it has a block.
LEMMA ParentDirectory ==
    ASSUME Basic, NEW t \in Tasks, pc[t] = "add", Place(t) # 0
    PROVE  parent[t] \in Directories /\ Place(t) = inode[parent[t]].start
BY ParentPlace DEF Basic, Located, NoParent, Directories

\* A directory's block lists numbers.
LEMMA ChildrenType ==
    ASSUME Basic, NEW i \in Directories
    PROVE  /\ i \in DOMAIN inode /\ inode[i].start \in Sector /\ inode[i].capacity \in Nat
           /\ Children(i) \in Seq(Numbers) /\ Len(Children(i)) \in Nat
<1>1. i \in DOMAIN inode /\ inode[i].start \in Sector /\ inode[i].capacity \in Nat
  BY DEF Directories, Basic, TypeOK, InodeFields
<1>2. cache[inode[i].start] \in Block
  BY <1>1 DEF Basic, TypeOK
<1>3. Children(i) \in Seq(Numbers)
  BY <1>2, BlockTypes DEF Children
<1> QED
  BY <1>1, <1>3

\* A directory that keeps its block keeps its children, but for the numbers that
\* a stray flush damages; only its own spfs_add_child puts one more behind them.
LEMMA ChildrenKept ==
    ASSUME Basic, Pristine, NEW t \in Tasks, Step(t) \/ Begin(t),
           NEW i \in Directories, inode'[i].start = inode[i].start
    PROVE  /\ cache'[inode'[i].start].kind = "dir"
           /\ \/ Children(i)' = Children(i)
              \/ /\ AddToBlock(t) /\ i = parent[t]
                 /\ Children(i)' = Append(Children(i), ino[t])
              \/ /\ FlushFound(t) /\ Len(Children(i)') = Len(Children(i))
                 /\ \A k \in 1 .. Len(Children(i)) : Children(i)'[k] \in {Children(i)[k], NoInode}
<1> DEFINE s == inode[i].start
<1>1. s \in Sector /\ s > free + 1 /\ cache[s].kind = "dir"
  BY Allocated, ChildrenType DEF Pristine, SectorsOwned
<1>2. Children(i) = cache[s].list
  BY <1>1 DEF Children
<1>3. CASE cache'[s] = cache[s]
  BY <1>1, <1>2, <1>3 DEF Children
<1>4. CASE AddToBlock(t) /\ s = Place(t)
  <2>1. pc[t] = "add" /\ Place(t) # 0
    BY <1>4 DEF AddToBlock
  <2>2. parent[t] \in Directories /\ inode[parent[t]].start = s
    BY <1>4, <2>1, ParentDirectory
  <2>3. parent[t] = i
    BY <2>2, Allocated DEF Pristine, SectorsOwned
  <2>4. cache'[s] = DirBlock(Append(cache[s].list, ino[t]))
    BY <1>1, <1>4 DEF AddToBlock, Basic, TypeOK
  <2>5. cache'[s].kind = "dir" /\ cache'[s].list = Append(Children(i), ino[t])
    BY <1>2, <2>4 DEF DirBlock
  <2> QED
    BY <1>4, <2>3, <2>5 DEF Children
<1>5. CASE FlushFound(t) /\ Damaged(cache[s], cache'[s])
  <2>1. cache'[s].kind = "dir" /\ Children(i)' = cache'[s].list
    BY <1>5 DEF Damaged, Children
  <2> QED
    BY <1>2, <1>5, <2>1 DEF Damaged
<1> QED
  BY <1>1, <1>3, <1>4, <1>5, Allocated

\* The first child in a new block.
LEMMA FirstChild ==
    ASSUME Basic, NEW t \in Tasks, AddNewBlock(t), NEW i, inode'[i].start = LastFree
    PROVE  /\ LastFree \in Sector /\ LastFree = free + 1 /\ free' = free - 1 /\ free \in Nat
           /\ cache'[LastFree].kind = "dir" /\ Children(i)' = <<ino[t]>>
<1>1. LastFree \in Sector /\ LastFree = free + 1 /\ free' = free - 1 /\ free \in Nat
  BY TakenBlock, TypeParts DEF AddNewBlock, Basic
<1>2. cache'[LastFree] = DirBlock(<<ino[t]>>)
  BY <1>1 DEF AddNewBlock, Basic, TypeOK
<1>3. cache'[LastFree].kind = "dir" /\ cache'[LastFree].list = <<ino[t]>>
  BY <1>2 DEF DirBlock
<1> QED
  BY <1>1, <1>3 DEF Children

\* spfs_add_child has parent->lock to itself.
LEMMA Excluded ==
    ASSUME Basic, LockHeld, NEW t \in Tasks, NEW u \in Tasks \ {t}, pc[u] \in HoldsParent,
           \/ ReadDir(t) \/ LockParent(t) \/ AddToBlock(t) \/ AddNewBlock(t) \/ AddNoNewBlock(t)
           \/ UnlockParent(t)
    PROVE  parent[t] # parent[u]
<1>1. inode[parent[u]].lock = u /\ u # NoTask
  BY Constants DEF LockHeld
<1>2. CASE ReadDir(t) \/ LockParent(t)
  BY <1>1, <1>2 DEF ReadDir, LockParent
<1>3. CASE AddToBlock(t) \/ AddNewBlock(t) \/ AddNoNewBlock(t) \/ UnlockParent(t)
  <2>1. inode[parent[t]].lock = t
    BY <1>3 DEF AddToBlock, AddNewBlock, AddNoNewBlock, UnlockParent, LockHeld, HoldsParent
  <2> QED
    BY <1>1, <2>1
<1> QED
  BY <1>2, <1>3

\* A task that has parent->lock keeps it until it gives it back.
LEMMA TaskLockHeld ==
    ASSUME Basic, LockHeld, NEW t \in Tasks, Step(t) \/ Begin(t)
    PROVE  LockHeld'
<1> SUFFICES ASSUME NEW u \in Tasks, pc'[u] \in HoldsParent
             PROVE  inode'[parent'[u]].lock = u
  BY DEF LockHeld
<1>1. ASSUME NEW v \in Tasks, pc[v] \in HoldsParent,
             \/ v # t
             \/ ~(ReadDir(t) \/ LockParent(t) \/ UnlockParent(t))
      PROVE  inode'[parent[v]].lock = v
  <2>1. parent[v] \in DOMAIN inode /\ inode[parent[v]].lock = v
    BY <1>1 DEF Basic, Located, LockHeld, HoldsParent
  <2>2. CASE GetInode(t)
    BY <2>1, <2>2, GetInodeStep
  <2>3. CASE ~GetInode(t)
    <3>1. InodeEffect(t)
      BY <2>3, InodeEffects
    <3>2. CASE v # t
      BY <1>1, <2>1, <3>1, <3>2, Excluded DEF InodeEffect, Kept
    <3>3. CASE ~(ReadDir(t) \/ LockParent(t) \/ UnlockParent(t))
      BY <2>1, <3>1, <3>3 DEF InodeEffect, Kept, Becomes
    <3> QED
      BY <1>1, <3>2, <3>3
  <2> QED
    BY <2>2, <2>3
<1>2. CASE Begin(t)
  <2>1. u # t /\ pc[u] = pc'[u] /\ parent'[u] = parent[u]
    BY <1>2, BeginStep DEF Others, HoldsParent
  <2> QED
    BY <1>1, <2>1
<1>3. CASE Step(t)
  <2>1. CASE u # t
    BY <1>1, <1>3, <2>1, TaskSteps DEF Others
  <2>2. CASE u = t /\ (ReadDir(t) \/ LockParent(t))
    <3>1. parent'[t] = parent[t] /\ pc[t] # "idle"
      BY <2>2 DEF ReadDir, LockParent, local_vars
    <3>2. parent[t] \in DOMAIN inode /\ inode[parent[t]] \in InodeFields
      BY <3>1, ParentPlace
    <3>3. inode'[parent[t]].lock = t
      BY <2>2, <3>2 DEF ReadDir, LockParent, InodeFields
    <3> QED
      BY <2>2, <3>1, <3>3
  <2>3. CASE u = t /\ ~(ReadDir(t) \/ LockParent(t))
    <3>1. Flow(t)
      BY <1>3, TaskSteps
    <3>2. pc[t] \in HoldsParent /\ parent'[t] = parent[t]
      BY <2>3, <3>1 DEF Flow, HoldsParent
    <3>3. ~UnlockParent(t)
      BY <2>3, TaskSteps DEF UnlockParent, Finish, Goto, Basic, TypeOK, HoldsParent
    <3> QED
      BY <1>1, <2>3, <3>2, <3>3
  <2> QED
    BY <2>1, <2>2, <2>3
<1> QED
  BY <1>2, <1>3

\* A block that is allocated is nobody's, so that every block keeps one owner.
LEMMA TaskSectorsOwned ==
    ASSUME Basic, Pristine, NEW t \in Tasks, Step(t) \/ Begin(t)
    PROVE  SectorsOwned'
<1>0. /\ mounted /\ slab = {} /\ SectorsOwned /\ free \in Nat /\ free' \in Nat /\ free' <= free
      /\ start \in Nat /\ \A i \in Directories : inode[i].start \in Nat
  BY Allocated, ChildrenType, Constants DEF Pristine, Basic, TypeOK
<1>1. CASE InsertRoot(t)
  <2>1. start' = free + 1 /\ free' = free - 1
    BY <1>1, TakenBlock, TypeParts DEF InsertRoot, Basic
  <2>2. inode' = inode
    BY <1>1 DEF InsertRoot, inode_vars
  <2>3. Directories' = Directories
    BY <2>2 DEF Directories
  <2>4. \A i \in Directories : cache'[inode[i].start].kind = "dir"
    BY <2>2, ChildrenKept
  <2> QED
    BY <1>0, <2>1, <2>2, <2>3, <2>4 DEF SectorsOwned
<1>2. CASE start' = start
  <2>1. start' # 0 => start' > free' + 1
    BY <1>0, <1>2 DEF SectorsOwned
  <2>2. ASSUME NEW i \in Directories'
        PROVE  /\ inode'[i].start > free' + 1 /\ inode'[i].start # start'
               /\ cache'[inode'[i].start].kind = "dir"
               /\ \/ i \in Directories /\ inode'[i].start = inode[i].start
                  \/ AddNewBlock(t) /\ i = parent[t] /\ inode'[i].start = free + 1
    <3>1. CASE i \in Directories /\ inode'[i].start = inode[i].start
      BY <1>0, <1>2, <3>1, ChildrenKept DEF SectorsOwned
    <3>2. CASE AddNewBlock(t) /\ i = parent[t] /\ inode'[i].start = LastFree
      BY <1>0, <1>2, <3>2, FirstChild DEF SectorsOwned
    <3> QED
      BY <1>0, <3>1, <3>2, DirectoryChanges
  <2>3. ASSUME NEW i \in Directories', NEW j \in Directories', inode'[j].start = inode'[i].start
        PROVE  j = i
    BY <1>0, <2>2, <2>3 DEF SectorsOwned
  <2> QED
    BY <2>1, <2>2, <2>3 DEF SectorsOwned
<1> QED
  BY <1>1, <1>2, SuperChanges

\* spfs_create lists a child only after its inode block was written.
LEMMA TaskInodesWritten ==
    ASSUME Basic, Pristine, NEW t \in Tasks, Step(t) \/ Begin(t)
    PROVE  InodesWritten'
<1>0. slab = {} /\ InodesWritten
  BY DEF Pristine
<1>1. ASSUME NEW i \in Directories', NEW c \in 1 .. Len(Children(i)')
      PROVE  (Children(i)[c] = NoInode)' \/ HasInode(Children(i)[c])'
  <2>1. CASE i \in Directories /\ inode'[i].start = inode[i].start
    <3>0. Children(i) \in Seq(Numbers) /\ Len(Children(i)) \in Nat
      BY <2>1, ChildrenType
    <3>1. \A k \in 1 .. Len(Children(i)) : Children(i)[k] = NoInode \/ HasInode(Children(i)[k])
      BY <1>0, <2>1 DEF InodesWritten
    <3>2. CASE Children(i)' = Children(i)
      <4>1. PICK n : n = Children(i)[c]
        OBVIOUS
      <4>2. n = NoInode \/ HasInode(n)'
        BY <1>1, <3>1, <3>2, <4>1, InodeStays
      <4> QED
        BY <3>2, <4>1, <4>2
    <3>3. CASE AddToBlock(t) /\ Children(i)' = Append(Children(i), ino[t])
      <4>1. HasInode(ino[t])
        BY <1>0, <3>3 DEF AddToBlock, InodesWritten
      <4>2. PICK n : n = Children(i)'[c]
        OBVIOUS
      <4>3. (c \in 1 .. Len(Children(i)) /\ n = Children(i)[c]) \/ n = ino[t]
        BY <1>1, <3>0, <3>3, <4>2
      <4>4. n = NoInode \/ HasInode(n)'
        BY <3>1, <4>1, <4>3, InodeStays
      <4> QED
        BY <4>2, <4>4
    <3>4. CASE /\ Len(Children(i)') = Len(Children(i))
               /\ \A k \in 1 .. Len(Children(i)) : Children(i)'[k] \in {Children(i)[k], NoInode}
      <4>1. PICK n : n = Children(i)'[c]
        OBVIOUS
      <4>2. n = NoInode \/ (c \in 1 .. Len(Children(i)) /\ n = Children(i)[c])
        BY <1>1, <3>4, <4>1
      <4>3. n = NoInode \/ HasInode(n)'
        BY <3>1, <4>2, InodeStays
      <4> QED
        BY <4>1, <4>3
    <3> QED
      BY <2>1, <3>2, <3>3, <3>4, ChildrenKept
  <2>2. CASE AddNewBlock(t) /\ inode'[i].start = LastFree
    <3>1. Children(i)' = <<ino[t]>>
      BY <2>2, FirstChild
    <3>2. HasInode(ino[t])
      BY <1>0, <2>2 DEF AddNewBlock, InodesWritten
    <3>3. PICK n : n = ino[t]
      OBVIOUS
    <3>4. HasInode(n)'
      BY <3>2, <3>3, InodeStays
    <3>5. Children(i)'[c] = n
      BY <1>1, <3>1, <3>3
    <3> QED
      BY <3>4, <3>5
  <2> QED
    BY <1>0, <2>1, <2>2, DirectoryChanges
<1> DEFINE Written(u) == \/ pc[u] \in {"newroot", "parent", "add"}
                         \/ pc[u] = "inserted" /\ res[u] = "ok"
<1>2. ASSUME NEW u \in Tasks, Written(u)'
      PROVE  HasInode(ino[u])'
  <2>1. CASE InsertPage(t) /\ u = t
    <3>1. LastFree \in Sector /\ LastFree = free + 1 /\ free' = free - 1 /\ free \in Nat
      BY <2>1, TakenBlock, TypeParts DEF InsertPage, Basic
    <3>2. cache'[LastFree] = InodeBlock(ino[t]) /\ ino' = ino
      BY <2>1, <3>1 DEF InsertPage, Basic, TypeOK
    <3>3. PICK s \in Sector : s > free' + 1 /\ cache'[s] = InodeBlock(ino'[t])
      BY <3>1, <3>2
    <3> QED
      BY <2>1, <3>3 DEF HasInode
  <2>2. CASE ~(InsertPage(t) /\ u = t)
    <3>1. Written(u) /\ ino'[u] = ino[u]
      <4>1. CASE u # t
        <5>1. pc'[u] = pc[u] /\ ino'[u] = ino[u] /\ res'[u] = res[u]
          BY <4>1, TaskSteps, BeginStep DEF Others
        <5> QED
          BY <1>2, <5>1
      <4>2. CASE u = t /\ Begin(t)
        BY <1>2, <4>2, BeginStep
      <4>3. CASE u = t /\ Step(t)
        <5>1. Flow(t)
          BY <4>3, TaskSteps
        <5>2. CASE pc'[t] = "inserted"
          BY <1>2, <4>3, <5>1, <5>2 DEF Flow
        <5>3. CASE pc'[t] \in {"newroot", "parent", "add"}
          BY <2>2, <4>3, <5>1, <5>3 DEF Flow
        <5> QED
          BY <1>2, <4>3, <5>2, <5>3
      <4> QED
        BY <4>1, <4>2, <4>3
    <3>2. PICK n : n = ino[u]
      OBVIOUS
    <3>3. HasInode(n)
      BY <1>0, <3>1, <3>2 DEF InodesWritten
    <3>4. HasInode(n)'
      BY <3>3, InodeStays
    <3> QED
      BY <3>1, <3>2, <3>4
  <2> QED
    BY <2>1, <2>2
<1> QED
  BY <1>1, <1>2 DEF InodesWritten

\* The capacity is raised before the child is listed, and parent->lock keeps
\* other tasks from listing theirs in between.
LEMMA TaskCounted ==
    ASSUME Basic, Pristine, NEW t \in Tasks, Step(t) \/ Begin(t)
    PROVE  Counted'
<1>0. slab = {} /\ Counted /\ LockHeld
  BY DEF Pristine
<1>1. ASSUME NEW i \in Directories'
      PROVE  Len(Children(i)') <= inode'[i].capacity
  <2>1. CASE /\ i \in Directories /\ inode'[i].start = inode[i].start
             /\ inode'[i].capacity >= inode[i].capacity
    <3>0. /\ Children(i) \in Seq(Numbers) /\ Len(Children(i)) \in Nat /\ inode[i].capacity \in Nat
          /\ inode'[i].capacity \in Nat
      BY <2>1, ChildrenType, NextInodes, NextSplit DEF InodeOK, InodeFields, Directories
    <3>1. CASE Len(Children(i)') = Len(Children(i))
      BY <1>0, <2>1, <3>0, <3>1 DEF Counted, CapacityCovers
    <3>2. CASE AddToBlock(t) /\ i = parent[t] /\ Children(i)' = Append(Children(i), ino[t])
      <4>1. Len(Children(i)) < inode[i].capacity
        BY <1>0, <2>1, <3>2 DEF Counted, AddToBlock
      <4>2. ino[t] \in Numbers
        BY DEF Basic, TypeOK
      <4>3. Len(Children(i)') = Len(Children(i)) + 1
        BY <3>0, <3>2, <4>2
      <4> QED
        BY <2>1, <3>0, <4>1, <4>3
    <3> QED
      BY <2>1, <3>1, <3>2, ChildrenKept
  <2>2. CASE /\ AddNewBlock(t) /\ i = parent[t] /\ inode'[i].start = LastFree
             /\ inode'[i].capacity = inode[i].capacity
    <3>1. Children(i)' = <<ino[t]>>
      BY <2>2, FirstChild
    <3>2. inode[i].capacity >= 1
      BY <1>0, <2>2 DEF AddNewBlock, Counted
    <3> QED
      BY <2>2, <3>1, <3>2
  <2> QED
    BY <1>0, <2>1, <2>2, DirectoryChanges
<1>2. ASSUME NEW u \in Tasks, pc'[u] = "add", NEW p, p = parent'[u]
      PROVE  /\ inode'[p].capacity >= 1
             /\ p \in Directories' => Len(Children(p)') < inode'[p].capacity
  <2>1. CASE u = t
    <3>1. LockParent(t) /\ parent'[t] = parent[t]
      BY <1>2, <2>1, TaskSteps, BeginStep DEF Flow
    <3>2. p = parent[t] /\ p \in DOMAIN inode /\ inode[p] \in InodeFields
      BY <1>2, <2>1, <3>1, ParentPlace DEF LockParent
    <3>3. inode[p].capacity \in Nat
      BY <3>2 DEF InodeFields
    <3>4. inode'[p].capacity = inode[p].capacity + 1
      BY <3>1, <3>2, Zenon DEF LockParent, InodeFields
    <3>5. ASSUME p \in Directories'
          PROVE  Len(Children(p)') < inode'[p].capacity
      <4>1. ~AddNewBlock(t) /\ ~AddToBlock(t)
        BY <3>1 DEF LockParent, AddNewBlock, AddToBlock
      <4>2. p \in Directories /\ inode'[p].start = inode[p].start
        BY <1>0, <3>5, <4>1, DirectoryChanges
      <4>3. Len(Children(p)') = Len(Children(p))
        BY <4>1, <4>2, ChildrenKept
      <4>4. Len(Children(p)) <= inode[p].capacity /\ Len(Children(p)) \in Nat
        BY <1>0, <4>2, ChildrenType DEF Counted, CapacityCovers
      <4> QED
        BY <3>3, <3>4, <4>3, <4>4
    <3> QED
      BY <3>3, <3>4, <3>5
  <2>2. CASE u # t
    <3>1. pc[u] = "add" /\ p = parent[u]
      BY <1>2, <2>2, TaskSteps, BeginStep DEF Others
    <3>2. p \in DOMAIN inode /\ inode[p].capacity >= 1
          /\ (p \in Directories => Len(Children(p)) < inode[p].capacity)
      BY <1>0, <3>1, ParentPlace DEF Counted
    <3>3. ~(p = parent[t] /\ (AddToBlock(t) \/ AddNewBlock(t) \/ LockParent(t)))
      BY <1>0, <2>2, <3>1, Excluded DEF HoldsParent
    <3>4. inode'[p].capacity = inode[p].capacity
      <4>1. CASE GetInode(t)
        BY <3>2, <4>1, GetInodeStep
      <4>2. CASE ~GetInode(t)
        <5>1. InodeEffect(t)
          BY <4>2, InodeEffects
        <5> QED
          BY <3>2, <3>3, <5>1 DEF InodeEffect, Kept, Becomes
      <4> QED
        BY <4>1, <4>2
    <3>5. ASSUME p \in Directories'
          PROVE  p \in Directories /\ Len(Children(p)') = Len(Children(p))
      <4>1. p \in Directories /\ inode'[p].start = inode[p].start
        BY <1>0, <3>3, <3>5, DirectoryChanges
      <4> QED
        BY <3>3, <4>1, ChildrenKept
    <3> QED
      BY <3>2, <3>4, <3>5
  <2> QED
    BY <2>1, <2>2
<1>3. CapacityCovers'
  BY <1>1 DEF CapacityCovers
<1> QED
  BY <1>2, <1>3 DEF Counted

\* The steps of a task.
LEMMA TaskPristine ==
    ASSUME Basic, Pristine, NEW t \in Tasks, Step(t) \/ Begin(t)
    PROVE  Pristine'
<1>1. slab' = {}
  BY SetChanges, GetInodeStep DEF Pristine
<1> QED
  BY <1>1, TaskLockHeld, TaskSectorsOwned, TaskInodesWritten, TaskCounted DEF Pristine

\* Before the first mount.
LEMMA InitPristine == Init => Pristine
<1> SUFFICES ASSUME Init PROVE Pristine
  OBVIOUS
<1>1. slab = {} /\ start = 0 /\ DOMAIN inode = {} /\ \A t \in Tasks : pc[t] = "idle"
  BY DEF Init, Idle
<1>2. Directories = {}
  BY <1>1 DEF Directories
<1> QED
  BY <1>1, <1>2
  DEF Pristine, LockHeld, HoldsParent, SectorsOwned, InodesWritten, Counted, CapacityCovers

\* Every step keeps the whole invariant.
LEMMA NextPristine ==
    ASSUME MaxSlab = 0, Basic, Pristine, [Next]_vars
    PROVE  Pristine'
<1>1. CASE UNCHANGED vars
  BY <1>1
  DEF vars, device_vars, super_vars, inode_vars, task_vars, local_vars, Pristine, LockHeld,
      SectorsOwned, InodesWritten, HasInode, Counted, CapacityCovers, Directories, Children
<1> QED
  BY <1>1, SystemPristine, TaskPristine, NextSplit

\* The inductive invariant holds in every reachable state.
THEOREM Invariant == Spec => []IInv
<1>1. Init => IInv
  BY InitBasic, InitPristine DEF IInv
<1>2. IInv /\ [Next]_vars => IInv'
  BY NextBasic, NextPristine DEF IInv
<1> QED
  BY <1>1, <1>2, PTL DEF Spec

\* As long as spfs_alloc_inode gets constructed objects, a block has one owner:
\* the allocator never gives away the root of the tree or a directory's block,
\* and no two directories get the same block, whatever creations race and
\* whenever they fail.
THEOREM BlocksHaveOneOwner == Spec => [](MaxSlab = 0 => SectorsOwned)
<1>1. IInv => (MaxSlab = 0 => SectorsOwned)
  BY DEF IInv, Pristine
<1> QED
  BY Invariant, <1>1, PTL

\* As long as spfs_alloc_inode gets constructed objects, every child that a
\* directory lists has an inode block: spfs_btree_insert has written it before
\* spfs_add_child names it, and nothing overwrites it afterwards; a stray flush
\* may make a number of the list none at all.
THEOREM ListedChildrenExist == Spec => [](MaxSlab = 0 => ListedHasInode)
<1>1. ASSUME InodesWritten PROVE ListedHasInode
  BY <1>1 DEF InodesWritten, HasInode, ListedHasInode
<1>2. IInv => (MaxSlab = 0 => ListedHasInode)
  BY <1>1 DEF IInv, Pristine
<1> QED
  BY Invariant, <1>2, PTL

\* As long as spfs_alloc_inode gets constructed objects, the capacity covers
\* the children, so that spfs_iterate does not stop before the last of them.
THEOREM CapacityIsEnough == Spec => [](MaxSlab = 0 => CapacityCovers)
<1>1. IInv => (MaxSlab = 0 => CapacityCovers)
  BY DEF IInv, Pristine, Counted
<1> QED
  BY Invariant, <1>1, PTL

\* A block that has left the free list keeps its inode or its children until the
\* volume is unmounted, whatever objects the slab hands out: a directory whose
\* object names a stale sector writes no child over an inode block, and no
\* creation is given a block that another one has written in this mount.
THEOREM AllocatedBlocksStay == Spec => AllocatedKept
<1>a. ASSUME NEW b \in Block
      PROVE  BlockKept(b, b)
  <2>1. b.list \in Seq(Numbers)
    BY BlockTypes
  <2> QED
    BY <2>1 DEF BlockKept
<1>1. ASSUME Basic, [Next]_vars, mounted, mounted', NEW s \in Sector, s > free + 1
      PROVE  BlockKept(cache[s], cache'[s])
  <2>1. cache[s] \in Block
    BY <1>1 DEF Basic, TypeOK
  <2>2. CASE cache' = cache
    BY <1>a, <2>1, <2>2
  <2>3. CASE SystemStep
    <3>1. ~Mkfs /\ ~Mount /\ ~Umount /\ ~Crash
      BY <1>1, Zenon DEF Mkfs, Mount, Umount, Crash, Forgotten
    <3>2. cache' = cache
      BY <2>3, <3>1, Zenon DEF SystemStep, WriteBack, Evict, LeaveLocked, device_vars
    <3> QED
      BY <2>2, <3>2
  <2>4. ASSUME NEW t \in Tasks, Step(t) \/ Begin(t)
        PROVE  BlockKept(cache[s], cache'[s])
    <3>1. CASE cache'[s] = cache[s]
      BY <1>a, <2>1, <3>1
    <3>2. CASE AddToBlock(t) /\ s = Place(t)
      <4>1. /\ cache[s].kind = "dir" /\ ino[t] \in Numbers
            /\ cache'[s] = DirBlock(Append(cache[s].list, ino[t]))
        BY <1>1, <3>2 DEF AddToBlock, Basic, TypeOK
      <4>2. cache'[s].kind = "dir" /\ cache'[s].list = Append(cache[s].list, ino[t])
        BY <4>1 DEF DirBlock
      <4>3. cache[s].list \in Seq(Numbers)
        BY <2>1, BlockTypes
      <4> DEFINE q == cache[s].list
      <4>4. Len(q) <= Len(Append(q, ino[t])) /\ \A k \in 1 .. Len(q) : Append(q, ino[t])[k] = q[k]
        BY <4>1, <4>3
      <4> QED
        BY <4>1, <4>2, <4>4 DEF BlockKept
    <3>3. CASE Damaged(cache[s], cache'[s])
      <4>1. cache[s].list \in Seq(Numbers)
        BY <2>1, BlockTypes
      <4> QED
        BY <3>3, <4>1 DEF Damaged, BlockKept
    <3> QED
      BY <1>1, <2>4, <3>1, <3>2, <3>3, Allocated
  <2>5. CASE UNCHANGED vars
    BY <2>2, <2>5 DEF vars, device_vars
  <2> QED
    BY <1>1, <2>3, <2>4, <2>5, NextSplit
<1>2. Basic /\ [Next]_vars =>
         (mounted /\ mounted' => \A s \in Sector : s > free + 1 => BlockKept(cache[s], cache'[s]))
  BY <1>1
<1> QED
  BY BasicInvariant, <1>2, PTL DEF Spec, AllocatedKept

-----------------------------------------------------------------------------
(* Nobody waits for ever *)

\* While no task has died, whoever has a lock is at a place that gives it back,
\* and an inode that is I_NEW has a task that fetches it.
Holders ==
    /\ \A t \in Tasks : id_lock = t => pc[t] = "bump"
    /\ \A t \in Tasks : tree_lock = t => pc[t] \in HoldsTree
    /\ \A t \in Tasks : \A i \in DOMAIN inode :
          inode[i].lock = t => pc[t] \in HoldsParent /\ parent[t] = i
    /\ \A n \in fetching : \E t \in Tasks : pc[t] \in {"fetch", "find"} /\ ino[t] = n

SomeDead == \E t \in Tasks : pc[t] = "dead"
Traced == SomeDead \/ Holders

\* Without locks, inodes and calls.
LEMMA NothingHeld ==
    ASSUME id_lock = NoTask, tree_lock = NoTask, fetching = {}, DOMAIN inode = {}
    PROVE  Holders
BY Constants DEF Holders

\* The system's steps.
LEMMA SystemTraced ==
    ASSUME Basic, Traced, SystemStep
    PROVE  Traced'
<1>1. CASE Mount
  <2>2. DOMAIN inode' = {Root} /\ inode'[Root].lock \in {NoTask, Gone}
    BY <1>1, MountStep
  <2>3. id_lock' = NoTask /\ tree_lock' = NoTask /\ fetching' = {}
    BY <1>1 DEF Mount
  <2> QED
    BY <2>2, <2>3, Constants DEF Traced, Holders
<1>2. CASE Umount \/ Crash
  <2>1. Forgotten
    BY <1>2 DEF Umount, Crash
  <2> QED
    BY <2>1, Constants DEF Forgotten, Traced, Holders
<1>3. CASE /\ UNCHANGED <<pc, parent, ino, res>> /\ UNCHANGED super_vars
           /\ UNCHANGED inode_vars \/ \E i \in DOMAIN inode : Evict(i) \/ LeaveLocked(i)
  <2>1. SomeDead' <=> SomeDead
    BY <1>3 DEF SomeDead
  <2> DEFINE Locks == /\ fetching' = fetching
                      /\ \A j \in DOMAIN inode' :
                            /\ j \in DOMAIN inode
                            /\ inode'[j].lock = inode[j].lock \/ inode'[j].lock \notin Tasks
  <2>a. ASSUME UNCHANGED inode_vars \/ \E i \in DOMAIN inode : Evict(i)
        PROVE  Locks
    BY <2>a DEF inode_vars, Evict
  <2>b. ASSUME NEW i \in DOMAIN inode, LeaveLocked(i)
        PROVE  Locks
    BY <2>b, LeftLock, Constants DEF Kept, Becomes
  <2>2. Locks
    BY <1>3, <2>a, <2>b
  <2>3. id_lock' = id_lock /\ tree_lock' = tree_lock
    BY <1>3 DEF super_vars
  <2> QED
    BY <1>3, <2>1, <2>2, <2>3 DEF Traced, Holders
<1> QED
  BY <1>1, <1>2, <1>3, SystemTasks

\* A call that begins holds nothing yet.
LEMMA BeginTraced ==
    ASSUME Basic, Holders, NEW t \in Tasks, Begin(t)
    PROVE  Holders'
<1>1. /\ Others(t) /\ pc[t] = "idle"
      /\ id_lock' = id_lock /\ tree_lock' = tree_lock /\ fetching' = fetching
  BY Zenon, BeginStep DEF Begin, BeginCreate, BeginScan, BeginFlush, super_vars
<1>2. Kept({})
  <2>1. ~GetInode(t)
    BY <1>1 DEF GetInode
  <2> QED
    BY <1>1, <2>1, InodeEffects
    DEF InodeEffect, ReadDir, LockParent, AddNewBlock, AddNoNewBlock, UnlockParent
<1>3. \A u \in Tasks : pc[u] # "idle" => u # t
  BY <1>1
<1> QED
  BY <1>1, <1>2, <1>3 DEF Holders, Others, Kept, HoldsTree, HoldsParent

\* The steps that give something back.
LEMMA GivingBack ==
    ASSUME Basic, NEW t \in Tasks, Step(t)
    PROVE  /\ pc[t] = "inserted" => InsertDone(t)
           /\ pc[t] = "unlock" => UnlockParent(t)
           /\ pc[t] = "find" => FindNothing(t) \/ FindBug(t) \/ FindGarbage(t)
           /\ pc[t] = "sync" => FlushNothing(t) \/ FlushFound(t) \/ FindBug(t)
           /\ pc[t] = "fetch" => LockTree(t)
<1>1. CASE CreateStep(t)
  <2>1. pc[t] \in {"id", "bump", "iget", "insert", "newroot", "parent", "add"} \/ InsertDone(t)
    BY <1>1
    DEF CreateStep, ReadId, BumpId, GetInode, GetInodeFails, InsertBelowRoot, InsertNoRoot,
        InsertPage, InsertNoPage, InsertRoot, InsertRootFails, LockParent, AddToBlock, AddToNoBlock,
        AddNewBlock, AddNoNewBlock
  <2>2. InsertDone(t) => pc[t] = "inserted"
    BY DEF InsertDone
  <2> QED
    BY <2>1, <2>2
<1>2. CASE ScanStep(t)
  <2>1. \/ pc[t] \in {"scan", "child"} \/ FindNothing(t) \/ FindBug(t) \/ FindGarbage(t)
        \/ FlushFound(t) \/ FlushNothing(t)
    BY <1>2 DEF ScanStep, ReadDir, VisitCached, VisitUncached, ScanDone
  <2>2. /\ FindNothing(t) => pc[t] = "find"
        /\ FindBug(t) => pc[t] \in {"find", "sync"}
        /\ FindGarbage(t) => pc[t] = "find"
        /\ FlushFound(t) => pc[t] = "sync"
        /\ FlushNothing(t) => pc[t] = "sync"
    BY DEF FindNothing, FindBug, FindGarbage, FlushFound, FlushNothing
  <2> QED
    BY <2>1, <2>2
<1>3. CASE LockTree(t)
  <2>1. pc[t] \in {"tree", "fetch", "flush"}
    BY <1>3 DEF LockTree, AfterTreeLock
  <2> QED
    BY <1>3, <2>1
<1>4. CASE UnlockParent(t)
  <2>1. pc[t] = "unlock"
    BY <1>4 DEF UnlockParent
  <2> QED
    BY <1>4, <2>1
<1> QED
  BY <1>1, <1>2, <1>3, <1>4 DEF Step

\* A task that goes on keeps what it has or gives it back.
LEMMA StepTraced ==
    ASSUME Basic, Holders, NEW t \in Tasks, Step(t), pc'[t] # "dead"
    PROVE  Holders'
<1>1. Others(t) /\ Flow(t)
  BY TaskSteps
<1>2. \A u \in Tasks : id_lock' = u => pc'[u] = "bump"
  <2>1. CASE ReadId(t)
    BY <2>1, <1>1 DEF ReadId, Goto, Basic, TypeOK
  <2>2. CASE BumpId(t)
    BY <2>2, Constants DEF BumpId
  <2>3. CASE id_lock' = id_lock /\ ~ReadId(t) /\ ~BumpId(t)
    <3>1. pc[t] # "bump"
      BY <1>1, <2>3 DEF Flow
    <3> QED
      BY <1>1, <2>3, <3>1 DEF Holders, Others
  <2> QED
    BY <2>1, <2>2, <2>3, SuperChanges
<1>3. \A u \in Tasks : tree_lock' = u => pc'[u] \in HoldsTree
  <2>1. CASE LockTree(t)
    <3>1. tree_lock' = t /\ pc[t] \in {"tree", "fetch", "flush"}
      BY <2>1 DEF LockTree, AfterTreeLock
    <3>2. pc'[t] \in HoldsTree
      BY <1>1, <3>1 DEF Flow, HoldsTree
    <3> QED
      BY <3>1, <3>2
  <2>2. CASE InsertDone(t) \/ FindNothing(t) \/ FindGarbage(t) \/ FlushFound(t) \/ FlushNothing(t)
    BY <2>2, Constants DEF InsertDone, FindNothing, FindGarbage, FlushFound, FlushNothing
  <2>3. CASE /\ tree_lock' = tree_lock
             /\ ~(LockTree(t) \/ InsertDone(t) \/ FindNothing(t) \/ FlushFound(t) \/ FlushNothing(t))
    <3>1. pc[t] \in HoldsTree => pc'[t] \in HoldsTree
      <4>1. ~FindBug(t) /\ ~FindGarbage(t)
        BY DEF FindBug, FindGarbage, Goto, Basic, TypeOK
      <4>2. pc[t] \in HoldsTree => pc[t] \in {"insert", "newroot"}
        BY <2>3, <4>1, GivingBack DEF HoldsTree
      <4> QED
        BY <1>1, <4>2 DEF Flow, HoldsTree
    <3> QED
      BY <1>1, <2>3, <3>1 DEF Holders, Others
  <2> QED
    BY <2>1, <2>2, <2>3, SuperChanges
<1>4. ASSUME NEW u \in Tasks, NEW i \in DOMAIN inode', inode'[i].lock = u
      PROVE  pc'[u] \in HoldsParent /\ parent'[u] = i
  <2>0. u # NoTask /\ u # Gone
    BY Constants
  <2>1. ASSUME i \in DOMAIN inode, inode[i].lock = u, ~UnlockParent(t)
        PROVE  pc'[u] \in HoldsParent /\ parent'[u] = i
    <3>1. pc[u] \in HoldsParent /\ parent[u] = i
      BY <2>1 DEF Holders
    <3>2. CASE u = t
      <4>1. ~FindNothing(t) /\ ~FindBug(t) /\ ~FindGarbage(t)
        BY DEF FindNothing, FindBug, FindGarbage, Goto, Basic, TypeOK
      <4>2. pc[t] \in {"add", "child", "fetch"}
        BY <2>1, <3>1, <3>2, <4>1, GivingBack DEF HoldsParent
      <4> QED
        BY <1>1, <3>1, <3>2, <4>2 DEF Flow, HoldsParent
    <3> QED
      BY <1>1, <3>1, <3>2 DEF Others
  <2>2. CASE GetInode(t)
    <3>1. CASE i \in DOMAIN inode
      <4>1. inode'[i] = inode[i] /\ ~UnlockParent(t)
        BY <2>2, <3>1, GetInodeStep DEF GetInode, UnlockParent
      <4> QED
        BY <1>4, <2>1, <3>1, <4>1
    <3>2. CASE i \notin DOMAIN inode
      <4>1. inode'[i].lock \in {NoTask, Gone}
        BY <2>2, <3>2, GetInodeStep
      <4> QED
        BY <1>4, <2>0, <4>1
    <3> QED
      BY <3>1, <3>2
  <2>3. CASE ~GetInode(t)
    <3>1. InodeEffect(t)
      BY <2>3, InodeEffects
    <3>2. i \in DOMAIN inode
      BY <3>1 DEF InodeEffect, Kept
    <3>3. CASE UnlockParent(t)
      <4>1. pc[t] = "unlock" /\ i # parent[t]
        BY <1>4, <2>0, <3>3, ParentPlace DEF UnlockParent
      <4>2. inode[i].lock = u
        BY <1>4, <3>1, <3>2, <4>1 DEF InodeEffect, Kept
      <4>3. pc[u] \in HoldsParent /\ parent[u] = i
        BY <3>2, <4>2 DEF Holders
      <4>4. u # t
        BY <4>1, <4>3
      <4> QED
        BY <1>1, <4>3, <4>4 DEF Others
    <3>4. CASE ~UnlockParent(t) /\ inode'[i].lock = inode[i].lock
      BY <1>4, <2>1, <3>2, <3>4
    <3>5. CASE inode'[i].lock # inode[i].lock /\ ~UnlockParent(t)
      <4>1. i = parent[t] /\ inode'[i].lock = t /\ (ReadDir(t) \/ LockParent(t))
        BY <3>1, <3>2, <3>5 DEF InodeEffect, Kept, Becomes
      <4>2. pc'[t] \in {"child", "add"} /\ parent'[t] = parent[t]
        BY <4>1 DEF ReadDir, LockParent, Goto, local_vars, Basic, TypeOK
      <4> QED
        BY <1>4, <4>1, <4>2 DEF HoldsParent
    <3> QED
      BY <3>3, <3>4, <3>5
  <2> QED
    BY <2>2, <2>3
<1>5. \A n \in fetching' : \E u \in Tasks : pc'[u] \in {"fetch", "find"} /\ ino'[u] = n
  <2>1. ASSUME NEW n \in fetching
        PROVE  \E u \in Tasks : pc'[u] \in {"fetch", "find"} /\ ino'[u] = n
    <3>1. PICK u \in Tasks : pc[u] \in {"fetch", "find"} /\ ino[u] = n
      BY DEF Holders
    <3>2. CASE u = t
      BY <1>1, <3>1, <3>2 DEF Flow
    <3> QED
      BY <1>1, <3>1, <3>2 DEF Others
  <2>2. CASE fetching' \subseteq fetching
    BY <2>1, <2>2
  <2>3. CASE VisitUncached(t) /\ ~(fetching' \subseteq fetching)
    <3>1. /\ fetching' = fetching \cup {Head(todo[t])}
          /\ pc'[t] = "fetch" /\ ino'[t] = Head(todo[t])
      BY <2>3 DEF VisitUncached, Goto, Basic, TypeOK
    <3> QED
      BY <2>1, <3>1
  <2>4. FindNothing(t) => fetching' \subseteq fetching
    BY DEF FindNothing
  <2> QED
    BY <2>2, <2>3, <2>4, SetChanges
<1> QED
  BY <1>2, <1>3, <1>4, <1>5 DEF Holders

\* Every step.
LEMMA NextTraced ==
    ASSUME Basic, Traced, [Next]_vars
    PROVE  Traced'
<1>1. CASE SystemStep
  BY <1>1, SystemTraced
<1>2. ASSUME NEW t \in Tasks, Step(t) \/ Begin(t)
      PROVE  Traced'
  <2>1. CASE SomeDead
    <3>1. PICK u \in Tasks : pc[u] = "dead"
      BY <2>1 DEF SomeDead
    <3>2. pc'[u] = "dead"
      BY <1>2, <3>1, TaskSteps, BeginStep DEF Flow, Others
    <3> QED
      BY <3>2 DEF Traced, SomeDead
  <2>2. CASE Holders
    <3>1. CASE pc'[t] = "dead"
      BY <3>1 DEF Traced, SomeDead
    <3> QED
      BY <1>2, <2>2, <3>1, BeginTraced, StepTraced DEF Traced
  <2> QED
    BY <2>1, <2>2 DEF Traced
<1>3. CASE UNCHANGED vars
  BY <1>3
  DEF vars, super_vars, inode_vars, task_vars, local_vars, Traced, SomeDead, Holders
<1> QED
  BY <1>1, <1>2, <1>3, NextSplit

\* The locks are ordered: who has id_lock or tree.lock waits for nothing, who
\* fetches an inode waits for tree.lock only, and who has parent->lock waits for
\* one of these two.
LEMMA SomebodyRuns ==
    ASSUME Basic, Holders, ~LockLeft, NEW t \in Tasks, pc[t] # "idle"
    PROVE  \E u \in Tasks : pc[u] # "idle" /\ ~Waits(u)
<1>1. CASE id_lock # NoTask
  <2>1. PICK u \in Tasks : pc[u] = "bump"
    BY <1>1 DEF Holders, Basic, TypeOK
  <2> QED
    BY <2>1 DEF Waits, AfterTreeLock
<1>2. CASE tree_lock # NoTask
  <2>1. PICK u \in Tasks : pc[u] \in HoldsTree
    BY <1>2 DEF Holders, Basic, TypeOK
  <2> QED
    BY <2>1 DEF Waits, AfterTreeLock, HoldsTree
<1>3. CASE id_lock = NoTask /\ tree_lock = NoTask /\ fetching # {}
  <2>1. PICK u \in Tasks : pc[u] \in {"fetch", "find"}
    BY <1>3 DEF Holders
  <2> QED
    BY <1>3, <2>1 DEF Waits
<1>4. CASE id_lock = NoTask /\ tree_lock = NoTask /\ fetching = {} /\ Waits(t)
  <2>1. pc[t] \in {"parent", "scan"} /\ inode[parent[t]].lock # NoTask
    BY <1>4 DEF Waits
  <2>2. parent[t] \in DOMAIN inode /\ inode[parent[t]].lock \in Tasks
    <3>1. parent[t] \in DOMAIN inode /\ inode[parent[t]].lock \in Tasks \cup {NoTask, Gone}
      BY <2>1, ParentPlace DEF InodeFields
    <3>2. inode[parent[t]].isdir
      BY <2>1 DEF Basic, Located, NoParent
    <3> QED
      BY <2>1, <3>1, <3>2 DEF LockLeft
  <2>3. PICK u \in Tasks : pc[u] \in HoldsParent
    BY <2>2 DEF Holders
  <2>4. pc[u] # "idle" /\ ~Waits(u)
    BY <1>4, <2>3 DEF Waits, HoldsParent
  <2> QED
    BY <2>4
<1> QED
  BY <1>1, <1>2, <1>3, <1>4

\* Deadlock freedom, for every number of tasks and every history of mounts,
\* failures and recycled objects: while no task has died and no directory has got
\* an object that a failed read or write left locked, the tasks inside spfs do
\* not all wait for id_lock, parent->lock, tree.lock or an I_NEW inode.
THEOREM DeadlockFree == Spec => []NoWaitCycle
<1>1. Init => Traced
  BY NothingHeld DEF Init, Traced
<1>2. Basic /\ Traced /\ [Next]_vars => Traced'
  BY NextTraced
<1>3. Basic /\ Traced => NoWaitCycle
  BY SomebodyRuns DEF Traced, SomeDead, NoWaitCycle
<1> QED
  BY BasicInvariant, <1>1, <1>2, <1>3, PTL DEF Spec

=============================================================================
