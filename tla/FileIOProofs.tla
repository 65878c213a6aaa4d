---------------------------- MODULE FileIOProofs -----------------------------
(***************************************************************************)
(* Proofs about FileIO.tla, for every number of tasks and inode objects,   *)
(* every block size and every length of a read or write.                   *)
(***************************************************************************)
EXTENDS FileIO, TLAPS

-----------------------------------------------------------------------------
(* The inductive invariant *)

Reading == {"extent", "block"}
WritePath == {"ensure", "modify", "whead", "wblock"}
Locked == Reading \cup WritePath \cup {"add"}

\* A call knows what it is for, the sectors it remembers are on the device, and
\* an extent does not end before it begins.
CallSectors ==
    \A t \in Tasks :
        /\ call[t].at \in Sector /\ call[t].next \in Sector /\ call[t].extra \in Sector
        /\ pc[t] = "wblock" => call[t].end >= call[t].at
        /\ pc[t] = "lock" => call[t].kind # "none"

TypeInv == TypeOK /\ CallSectors

\* An inode lives only on a mounted volume, and a mount keeps the module loaded;
\* an object waits for its callback only while there is a slab.
Lives ==
    /\ mounted => module = "registered"
    /\ \A o \in Objects : obj[o].life = "live" => mounted
    /\ SlabOutlivesCallbacks

\* A call works on a live inode of the kind it is for.
Busy ==
    \A t \in Tasks : pc[t] # "idle" =>
        /\ obj[call[t].o].life = "live"
        /\ pc[t] \in Locked \cup {"lock"} => (obj[call[t].o].isdir <=> call[t].kind = "add")
        /\ pc[t] \in Locked => obj[call[t].o].lock = t
        /\ pc[t] \in Reading => call[t].kind = "read"
        /\ pc[t] \in WritePath => call[t].kind = "write"
        /\ pc[t] = "add" => call[t].kind = "add"
        /\ pc[t] = "lock" => call[t].kind \in {"read", "write", "add"}

\* No write gets as far as a second extent: the file stays empty in i_size, so
\* that a write begins at position 0, puts at least one byte into the first
\* block and is ended by that.
WriteFact(t) ==
    LET c == call[t] o == obj[call[t].o]
    IN  /\ pc[t] \in WritePath \cup {"lock"} => c.written = 0
        /\ pc[t] \in {"ensure", "modify", "whead"} => c.pos = 0 /\ c.n >= 1 /\ c.at = o.start
        /\ pc[t] = "lock" /\ c.kind = "write" => c.n >= 1
        /\ pc[t] \in {"modify", "whead"} => o.capacity >= 1
        /\ pc[t] = "wblock" => c.pos = 0 /\ c.res >= 1 /\ c.at # 0

WriteFacts ==
    /\ \A o \in Objects : obj[o].size = 0
    /\ \A t \in Tasks : WriteFact(t)

\* An object in its first life: a file has an extent exactly when it has a
\* capacity, and only the call that has made it so is holding the lock.
FirstLife ==
    \A o \in Objects : obj[o].fresh =>
        /\ obj[o].life = "slab" => obj[o].lock = NoTask /\ obj[o].start = 0 /\ obj[o].capacity = 0
        /\ obj[o].life = "live" /\ ~obj[o].isdir =>
              /\ obj[o].start = 0 <=> obj[o].capacity = 0
              /\ obj[o].lock = NoTask => obj[o].start = 0

BeforeAlloc ==
    \A t \in Tasks : pc[t] \in Reading \cup {"ensure"} /\ obj[call[t].o].fresh =>
        obj[call[t].o].start = 0

\* The blocks of a live object.
Blocks(o) == IF obj[o].isdir THEN 1 ELSE BlocksFor(obj[o].capacity + HeaderSize)

\* A live inode that has blocks.
Placed(o) == obj[o].life = "live" /\ obj[o].start # 0

\* Its blocks are allocated and on the device, and a file's capacity is what
\* fits into them.
Within(o) ==
    /\ obj[o].start >= free + 2 /\ obj[o].start + Blocks(o) <= LastSector + 1
    /\ ~obj[o].isdir => Blocks(o) * BlockSize = obj[o].capacity + HeaderSize

Apart(o, p) ==
    obj[o].start + Blocks(o) <= obj[p].start \/ obj[p].start + Blocks(p) <= obj[o].start

\* No inode block is among them.
NoPages(o) == \A s \in pages : s < obj[o].start \/ s >= obj[o].start + Blocks(o)

Regions ==
    AllFresh => \A o \in Objects : Placed(o) =>
        Within(o) /\ NoPages(o) /\ \A p \in Objects \ {o} : Placed(p) => Apart(o, p)

\* The inode blocks of a mount are not free.
PagesTaken == \A s \in pages : s >= free + 2

\* The header a write meets is the one spfs_file_extent_alloc has made, and what
\* is left to write fits into the blocks that are left.
ExtentFact(t) ==
    LET c == call[t] o == obj[call[t].o]
    IN  /\ pc[t] \in {"modify", "whead"} =>
              /\ head[o.start].magic /\ head[o.start].capacity = Blocks(c.o)
              /\ c.n <= o.capacity
        /\ pc[t] = "wblock" =>
              /\ c.at = o.start /\ c.end = c.at + Blocks(c.o)
              /\ c.it \in (c.at + 1) .. c.end
              /\ c.n <= (c.end - c.it) * BlockSize

Extents == AllFresh => \A t \in Tasks : ExtentFact(t)

IInv ==
    /\ TypeInv /\ Lives /\ Busy /\ WriteFacts
    /\ FirstLife /\ BeforeAlloc /\ Regions /\ PagesTaken /\ Extents
    /\ OnlyErrorsKeepLock /\ AssertsHoldOnFresh

-----------------------------------------------------------------------------
(* Types *)

\* Everything that only task t does leaves the other tasks where they are.
Others(t) == \A u \in Tasks \ {t} : pc'[u] = pc[u] /\ call'[u] = call[u]

\* A call that is not under way has its type.
LEMMA NoCallType ==
    ASSUME NEW o \in Objects
    PROVE  NoCall(o) \in Calls
BY DEF NoCall, Calls

\* What Return leaves in the task: the object, the kind and the counts of the
\* call, and its result.
LEMMA ReturnStep ==
    ASSUME NEW t \in Tasks, NEW c \in Calls, NEW value \in Int,
           pc \in [Tasks -> Labels], call \in [Tasks -> Calls],
           Return(t, c, value)
    PROVE  /\ pc' \in [Tasks -> Labels] /\ call' \in [Tasks -> Calls]
           /\ Others(t) /\ pc'[t] = "return"
           /\ call'[t].o = c.o /\ call'[t].kind = c.kind /\ call'[t].written = c.written
           /\ call'[t].ret = value /\ call'[t].done = c.done
           /\ call'[t].at = 0 /\ call'[t].next = 0 /\ call'[t].extra = 0
<1> DEFINE r == [NoCall(c.o) EXCEPT !.kind = c.kind, !.done = c.done,
                                    !.written = c.written, !.ret = value]
<1>1. /\ r \in Calls
      /\ r.o = c.o /\ r.kind = c.kind /\ r.written = c.written /\ r.ret = value
      /\ r.done = c.done /\ r.at = 0 /\ r.next = 0 /\ r.extra = 0
  BY DEF NoCall, Calls
<1>2. call' = [call EXCEPT ![t] = r] /\ pc' = [pc EXCEPT ![t] = "return"]
  BY DEF Return, Goto
<1> HIDE DEF r
<1> QED
  BY <1>1, <1>2 DEF Others, Labels

\* What BUG_ON leaves in the task: the object.
LEMMA DiesStep ==
    ASSUME NEW t \in Tasks, NEW label \in Labels,
           pc \in [Tasks -> Labels], call \in [Tasks -> Calls],
           Dies(t, label)
    PROVE  /\ pc' \in [Tasks -> Labels] /\ call' \in [Tasks -> Calls]
           /\ Others(t) /\ pc'[t] = label /\ call'[t] = NoCall(call[t].o)
<1>1. call[t].o \in Objects
  BY DEF Calls
<1> QED
  BY <1>1, NoCallType DEF Others, Dies, Goto

\* A count of bytes needs a natural number of blocks, one at least if there is a
\* byte.
LEMMA BlocksForType ==
    ASSUME NEW bytes \in Nat
    PROVE  BlocksFor(bytes) \in Nat /\ (bytes > 0 => BlocksFor(bytes) >= 1)
<1>1. ASSUME NEW b \in Nat, b > 0, NEW x \in Nat
      PROVE  x \div b \in Nat /\ (x >= b => x \div b >= 1)
  BY <1>1
<1>2. BlockSize \in Nat /\ BlockSize > 0 /\ bytes + BlockSize - 1 \in Nat
  BY FileIOAssumption
<1> QED
  BY <1>1, <1>2 DEF BlocksFor

\* spfs_calc_extra_blocks asks for a natural number of blocks.
LEMMA NeedsType ==
    ASSUME TypeInv, NEW t \in Tasks
    PROVE  Needs(t) \in Nat
<1> DEFINE x == call[t].pos + call[t].n - obj[call[t].o].capacity + HeaderSize
<1>1. /\ obj[call[t].o].capacity \in Nat /\ call[t].pos \in Nat /\ call[t].n \in Nat
      /\ HeaderSize \in Nat
  BY FileIOAssumption DEF TypeInv, TypeOK, Calls, ObjectFields
<1>2. ~(call[t].pos + call[t].n <= obj[call[t].o].capacity) => x \in Nat
  BY <1>1
<1> QED
  BY <1>1, <1>2, BlocksForType DEF Needs, ExtraBlocks

\* One extent holds at least its header.
LEMMA DataBytesType ==
    ASSUME NEW k \in Nat, k >= 1
    PROVE  DataBytes(k) \in Nat /\ DataBytes(k) >= 1
<1>1. ASSUME NEW b \in Nat, NEW h \in Nat, b > h
      PROVE  k * b - h \in Nat /\ k * b - h >= 1
  BY <1>1
<1> QED
  BY <1>1, FileIOAssumption DEF DataBytes

\* What the loop of spfs_read does to the local variables keeps their types.
LEMMA ConsumedType ==
    ASSUME NEW c \in Calls
    PROVE  /\ Consumed(c) \in Calls
           /\ Consumed(c).o = c.o /\ Consumed(c).kind = c.kind
           /\ Consumed(c).at = c.at /\ Consumed(c).next = c.next /\ Consumed(c).extra = c.extra
           /\ Consumed(c).it = c.it /\ Consumed(c).written = c.written
<1> DEFINE skip == Least(c.pos, Least(Room(c), c.left))
           copy == IF c.pos > skip THEN 0
                   ELSE Least(c.n, Least(Room(c) - skip, c.left - skip))
<1>1. /\ c.pos \in Nat /\ c.left \in Nat /\ c.n \in Nat /\ c.done \in Nat
      /\ Room(c) \in Nat
  BY FileIOAssumption DEF Calls, Room
<1>2. skip \in Nat /\ skip <= c.pos /\ skip <= c.left /\ skip <= Room(c)
  BY <1>1 DEF Least
<1>3. copy \in Nat /\ copy <= c.n /\ copy <= c.left - skip
  <2> HIDE DEF skip
  <2> QED
    BY <1>1, <1>2 DEF Least
<1>4. Consumed(c) = [c EXCEPT !.pos = @ - skip, !.n = @ - copy, !.done = @ + copy,
                              !.left = @ - skip - copy]
  BY Zenon DEF Consumed
<1> HIDE DEF skip, copy
<1>5. /\ c.pos - skip \in Nat /\ c.n - copy \in Nat /\ c.done + copy \in Nat
      /\ c.left - skip - copy \in Nat
  BY <1>1, <1>2, <1>3
<1> QED
  BY <1>4, <1>5 DEF Calls

\* Of an empty file, unread sectors and an unloaded module.
LEMMA InitType == Init => TypeInv
<1> SUFFICES ASSUME Init PROVE TypeInv
  OBVIOUS
<1>1. Nothing \in Calls
  BY NoCallType, FileIOAssumption DEF Nothing
<1>2. Constructed \in ObjectFields
  BY FileIOAssumption DEF Constructed, ObjectFields, Sector, LastSector
<1>3. NoHeader \in HeaderFields
  BY FileIOAssumption DEF NoHeader, HeaderFields, Sector, LastSector
<1>4. obj \in [Objects -> ObjectFields] /\ head \in [Sector -> HeaderFields]
  BY <1>2, <1>3 DEF Init
<1>5. pc \in [Tasks -> Labels] /\ call \in [Tasks -> Calls]
  BY <1>1 DEF Init, Labels
<1>6. TypeOK
  <2>1. mounted \in BOOLEAN
    BY Zenon DEF Init
  <2> QED
    BY <1>4, <1>5, <2>1, FileIOAssumption DEF Init, TypeOK
<1>7. CallSectors
  BY FileIOAssumption DEF Init, CallSectors, Nothing, NoCall, Sector, LastSector
<1> QED
  BY <1>6, <1>7 DEF TypeInv

\* Module load and unload, mount, unmount and the life of an inode object.
SystemStep ==
    \/ CreateSlab \/ Register \/ Unregister \/ DestroySlab \/ Mount \/ Umount
    \/ \E o \in Objects, d \in BOOLEAN : CreateInode(o, d) \/ CreateFails(o, d)
    \/ \E o \in Objects : VisitChild(o) \/ FreeInode(o) \/ FreeInodeCb(o)

\* spfs_alloc_inode keeps the types of the objects.
LEMMA AllocType ==
    ASSUME TypeInv, NEW o \in Objects, NEW d \in BOOLEAN, NEW life \in {"live", "lost"},
           AllocInode(o, d, life)
    PROVE  obj' \in [Objects -> ObjectFields]
<1>1. [obj[o] EXCEPT !.life = life, !.isdir = d, !.size = 0] \in ObjectFields
  BY DEF ObjectFields, TypeInv, TypeOK
<1>2. obj' = [obj EXCEPT ![o] = [obj[o] EXCEPT !.life = life, !.isdir = d, !.size = 0]]
  BY Zenon DEF AllocInode
<1> QED
  BY <1>1, <1>2 DEF TypeInv, TypeOK

\* Module load, mounts and the life of inode objects keep the types.
LEMMA SystemType ==
    ASSUME TypeInv, SystemStep
    PROVE  TypeInv'
<1> USE DEF TypeInv, TypeOK
<1>1. UNCHANGED task_vars => CallSectors'
  BY DEF CallSectors, task_vars
<1>2. CASE CreateSlab
  BY <1>1, <1>2 DEF CreateSlab, task_vars
<1>3. CASE Register
  BY <1>1, <1>3 DEF Register, task_vars
<1>4. CASE Unregister
  BY <1>1, <1>4 DEF Unregister, task_vars
<1>5. CASE DestroySlab
  <2>1. Constructed \in ObjectFields
    BY FileIOAssumption DEF Constructed, ObjectFields, Sector, LastSector
  <2> QED
    BY <1>1, <1>5, <2>1 DEF DestroySlab, task_vars
<1>6. CASE Mount
  <2>1. PICK o \in Objects : AllocInode(o, TRUE, "live") /\ root' = {o}
    BY <1>6, Zenon DEF Mount
  <2>2. obj' \in [Objects -> ObjectFields]
    BY <2>1, AllocType
  <2>3. mounted' \in BOOLEAN
    BY <1>6, Zenon DEF Mount
  <2> QED
    BY <1>1, <1>6, <2>1, <2>2, <2>3, FileIOAssumption DEF Mount, task_vars
<1>7. CASE Umount
  <2>1. \A o \in Objects : /\ [obj[o] EXCEPT !.life = "rcu"] \in ObjectFields
                           /\ [obj[o] EXCEPT !.life = "lost"] \in ObjectFields
    BY DEF ObjectFields
  <2>2. obj' \in [Objects -> ObjectFields]
    BY <1>7, <2>1 DEF Umount, ObjectFields
  <2>3. mounted' \in BOOLEAN
    BY <1>7, Zenon DEF Umount
  <2> QED
    BY <1>1, <1>7, <2>2, <2>3, FileIOAssumption DEF Umount, task_vars
<1>8. ASSUME NEW o \in Objects, NEW d \in BOOLEAN, CreateInode(o, d) \/ CreateFails(o, d)
      PROVE  TypeInv'
  <2>1. obj' \in [Objects -> ObjectFields]
    BY <1>8, AllocType DEF CreateInode, CreateFails
  <2>2. CASE CreateInode(o, d)
    <3>1. RunOf(1) \in Sector /\ free' \in 0 .. DataBlocks
      BY <2>2, FileIOAssumption DEF CreateInode, CanAlloc, RunOf, Sector, LastSector
    <3>2. PICK number \in Numbers, l \in PageLengths :
             head' = [head EXCEPT ![RunOf(1)] = PageHeader(number, l)]
      BY <2>2, Zenon DEF CreateInode
    <3>3. number \in Sector /\ l \in Nat /\ Huge \in Nat
      BY FileIOAssumption DEF Sector, LastSector, PageLengths, Huge
    <3>4. PageHeader(number, l) \in HeaderFields
      BY <3>3 DEF PageHeader, Header, HeaderFields
    <3>5. head' \in [Sector -> HeaderFields]
      BY <3>1, <3>2, <3>4
    <3>6. pages' \subseteq Sector
      BY <2>2, <3>1 DEF CreateInode
    <3> QED
      BY <1>1, <2>1, <2>2, <3>1, <3>5, <3>6 DEF CreateInode, task_vars, module_vars
  <2>3. CASE CreateFails(o, d)
    <3>1. free' \in 0 .. DataBlocks
      BY <2>3, FileIOAssumption DEF CreateFails, CanAlloc
    <3> QED
      BY <1>1, <2>1, <2>3, <3>1 DEF CreateFails, task_vars, module_vars
  <2> QED
    BY <1>8, <2>2, <2>3
<1>9. ASSUME NEW o \in Objects, FreeInode(o)
      PROVE  TypeInv'
  <2>1. obj' \in [Objects -> ObjectFields]
    BY <1>9 DEF FreeInode, ObjectFields
  <2> QED
    BY <1>1, <1>9, <2>1 DEF FreeInode, task_vars, module_vars
<1>10. ASSUME NEW o \in Objects, FreeInodeCb(o)
       PROVE  TypeInv'
  <2>1. [obj[o] EXCEPT !.life = "slab", !.fresh = FALSE] \in ObjectFields
    BY <1>10 DEF ObjectFields
  <2>2. obj' = [obj EXCEPT ![o] = [obj[o] EXCEPT !.life = "slab", !.fresh = FALSE]]
    BY <1>10, Zenon DEF FreeInodeCb
  <2>3. obj' \in [Objects -> ObjectFields]
    BY <2>1, <2>2
  <2> QED
    BY <1>1, <1>10, <2>3 DEF FreeInodeCb, task_vars, module_vars
<1>11. ASSUME NEW o \in Objects, VisitChild(o)
       PROVE  TypeInv'
  BY <1>1, <1>11 DEF VisitChild, task_vars
<1> QED
  BY <1>2, <1>3, <1>4, <1>5, <1>6, <1>7, <1>8, <1>9, <1>10, <1>11 DEF SystemStep

\* A step that ends the call of task t and changes no sector keeps the types of
\* the tasks.
LEMMA ReturnType ==
    ASSUME TypeInv, NEW t \in Tasks, NEW c \in Calls, NEW value \in Int, Return(t, c, value)
    PROVE  pc' \in [Tasks -> Labels] /\ call' \in [Tasks -> Calls] /\ CallSectors'
<1>1. /\ pc' \in [Tasks -> Labels] /\ call' \in [Tasks -> Calls]
      /\ Others(t) /\ pc'[t] = "return"
      /\ call'[t].at = 0 /\ call'[t].next = 0 /\ call'[t].extra = 0
  BY ReturnStep DEF TypeInv, TypeOK
<1> QED
  BY <1>1, FileIOAssumption DEF TypeInv, CallSectors, Others, Sector, LastSector

\* ... and so does a step that kills it.
LEMMA DiesType ==
    ASSUME TypeInv, NEW t \in Tasks, NEW label \in {"dead", "bug"}, Dies(t, label)
    PROVE  pc' \in [Tasks -> Labels] /\ call' \in [Tasks -> Calls] /\ CallSectors'
<1>1. label \in Labels /\ label # "wblock"
  BY DEF Labels
<1>2. /\ pc' \in [Tasks -> Labels] /\ call' \in [Tasks -> Calls]
      /\ Others(t) /\ pc'[t] = label /\ call'[t] = NoCall(call[t].o)
  BY <1>1, DiesStep DEF TypeInv, TypeOK
<1> QED
  BY <1>1, <1>2, FileIOAssumption DEF TypeInv, CallSectors, Others, NoCall, Sector, LastSector

\* A result of spfs_read or spfs_write is an integer.
LEMMA CallTypes ==
    ASSUME TypeInv, NEW t \in Tasks
    PROVE  /\ call[t] \in Calls /\ call[t].o \in Objects /\ obj[call[t].o] \in ObjectFields
           /\ EIO \in Int /\ EINVAL \in Int /\ EINTR \in Int
BY DEF TypeInv, TypeOK, Calls, EIO, EINVAL, EINTR

\* The calls begin, wait for inode->lock and come back with their types.
LEMMA CallType ==
    ASSUME TypeInv, NEW t \in Tasks,
           LockInode(t) \/ Interrupted(t) \/ Returned(t) \/ \E o \in Objects : BeginCall(t, o)
    PROVE  TypeInv'
<1> USE DEF TypeInv
<1>1. CASE LockInode(t)
  <2>1. obj' \in [Objects -> ObjectFields]
    <3> DEFINE r == [obj[call[t].o] EXCEPT !.lock = t]
    <3>1. obj' = [obj EXCEPT ![call[t].o] = r]
      BY <1>1, Zenon DEF LockInode
    <3>2. r \in ObjectFields
      BY CallTypes DEF ObjectFields
    <3> HIDE DEF r
    <3> QED
      BY <3>1, <3>2 DEF TypeOK
  <2> DEFINE o == obj[call[t].o]
             c == [call[t] EXCEPT !.at = o.start,
                                  !.pos = IF call[t].kind = "write" /\ @ > o.size
                                          THEN o.size ELSE @]
  <2>2. o.start \in Sector /\ o.start \in Nat /\ o.size \in Nat
    BY CallTypes, FileIOAssumption DEF ObjectFields, Sector, LastSector
  <2>3. c \in Calls /\ c.at = o.start /\ c.next = call[t].next /\ c.extra = call[t].extra
    <3> HIDE DEF o
    <3> QED
      BY <2>2, CallTypes DEF Calls
  <2>4. call' = [call EXCEPT ![t] = c]
    BY <1>1, Zenon DEF LockInode
  <2>5. pc' \in [Tasks -> Labels] /\ pc'[t] \notin {"wblock", "lock"} /\ Others(t)
    <3>1. call[t].kind \in {"read", "write", "add"}
      BY <1>1, CallTypes DEF LockInode, CallSectors, Calls
    <3>2. AfterLock[call[t].kind] \in {"extent", "ensure", "add"}
      BY <3>1 DEF AfterLock
    <3>3. pc' = [pc EXCEPT ![t] = AfterLock[call[t].kind]]
      BY <1>1 DEF LockInode, Goto
    <3> HIDE DEF c
    <3> QED
      BY <2>4, <3>2, <3>3 DEF TypeOK, Labels, Others
  <2> HIDE DEF o, c
  <2>6. CallSectors'
    BY <2>2, <2>3, <2>4, <2>5 DEF CallSectors, TypeOK, Others
  <2> QED
    BY <1>1, <2>1, <2>3, <2>4, <2>5, <2>6 DEF LockInode, TypeOK, module_vars
<1>2. CASE Interrupted(t)
  BY <1>2, CallTypes, ReturnType DEF Interrupted, TypeOK, module_vars
<1>3. CASE Returned(t)
  <2>1. Nothing \in Calls /\ Nothing.at = 0 /\ Nothing.next = 0 /\ Nothing.extra = 0
    BY NoCallType, FileIOAssumption DEF Nothing, NoCall
  <2> QED
    BY <1>3, <2>1, FileIOAssumption
    DEF Returned, Goto, TypeOK, Labels, CallSectors, Sector, LastSector, module_vars
<1>4. ASSUME NEW o \in Objects, NEW k \in {"read", "write", "add"}, NEW n \in Nat, NEW p \in Nat,
             Begin(t, k, o, n, p)
      PROVE  TypeInv'
  <2> DEFINE c == [NoCall(o) EXCEPT !.kind = k, !.n = n, !.pos = p]
  <2>1. c \in Calls /\ c.at = 0 /\ c.next = 0 /\ c.extra = 0 /\ c.kind # "none"
    BY NoCallType DEF Calls, NoCall
  <2>2. call' = [call EXCEPT ![t] = c] /\ pc' = [pc EXCEPT ![t] = "lock"]
    BY <1>4 DEF Begin, Goto
  <2>3. UNCHANGED <<module_vars, free, head, pages, obj, tree_lock>>
    BY <1>4 DEF Begin
  <2> HIDE DEF c
  <2> QED
    BY <2>1, <2>2, <2>3, FileIOAssumption
    DEF TypeOK, Labels, CallSectors, Sector, LastSector, module_vars
<1>5. 1 .. MaxLen \subseteq Nat /\ 0 .. MaxPos \subseteq Nat
  BY FileIOAssumption
<1> QED
  BY <1>1, <1>2, <1>3, <1>4, <1>5 DEF BeginCall

\* spfs_read keeps the types.
LEMMA ReadType ==
    ASSUME TypeInv, NEW t \in Tasks, ReadStep(t) \/ ReadFails(t) \/ ReadBlockFails(t)
    PROVE  TypeInv'
<1> USE DEF TypeInv
<1>1. CASE ReadHeader(t)
  <2>1. CASE head[call[t].at].magic
    <3> DEFINE h == head[call[t].at]
               c == [call[t] EXCEPT !.next = h.next, !.left = h.length, !.it = call[t].at]
    <3>1. h.next \in Sector /\ h.next \in Nat /\ h.length \in Nat
      BY <1>1, FileIOAssumption DEF ReadHeader, TypeOK, HeaderFields, Sector, LastSector
    <3>2. call[t].at \in Nat
      BY CallTypes DEF Calls
    <3>3. c \in Calls /\ c.at = call[t].at /\ c.next = h.next /\ c.extra = call[t].extra
      <4> HIDE DEF h
      <4> QED
        BY <3>1, <3>2, CallTypes DEF Calls
    <3>4. call' = [call EXCEPT ![t] = c] /\ pc' = [pc EXCEPT ![t] = "block"]
      BY <1>1, <2>1, Zenon DEF ReadHeader, Goto
    <3> HIDE DEF c, h
    <3> QED
      BY <1>1, <3>1, <3>3, <3>4 DEF ReadHeader, TypeOK, Labels, CallSectors, module_vars
  <2>2. CASE ~head[call[t].at].magic
    BY <1>1, <2>2, CallTypes, ReturnType DEF ReadHeader, TypeOK, module_vars
  <2> QED
    BY <2>1, <2>2
<1>2. CASE ReadBlock(t)
  <2> DEFINE c == Consumed(call[t])
  <2>1. c \in Calls /\ c.at = call[t].at /\ c.next = call[t].next /\ c.extra = call[t].extra
    BY CallTypes, ConsumedType
  <2> HIDE DEF c
  <2>2. CASE c.left > 0 /\ NextSector(c.it) \in Sector
    <3> DEFINE d == [c EXCEPT !.it = NextSector(@)]
    <3>1. d \in Calls /\ d.at = c.at /\ d.next = c.next /\ d.extra = c.extra
      BY <2>1 DEF Calls, NextSector
    <3>2. call' = [call EXCEPT ![t] = d] /\ pc' = pc
      BY <1>2, <2>2, Zenon DEF ReadBlock, c
    <3> HIDE DEF d
    <3> QED
      BY <1>2, <2>1, <3>1, <3>2 DEF ReadBlock, TypeOK, CallSectors, module_vars
  <2>3. CASE c.left > 0 /\ NextSector(c.it) \notin Sector
    <3>1. Return(t, c, EIO)
      BY <1>2, <2>3, Zenon DEF ReadBlock, c
    <3> QED
      BY <1>2, <2>1, <3>1, CallTypes, ReturnType DEF ReadBlock, TypeOK, module_vars
  <2>4. CASE ~(c.left > 0)
    <3> DEFINE d == [c EXCEPT !.left = 0, !.it = 0, !.next = 0,
                              !.at = IF c.n > 0 THEN c.next ELSE 0]
    <3>1. /\ d \in Calls /\ (d.at = c.next \/ d.at = 0) /\ d.next = 0
          /\ d.extra = c.extra
      BY <2>1 DEF Calls
    <3>2. call' = [call EXCEPT ![t] = d] /\ pc' = [pc EXCEPT ![t] = "extent"]
      BY <1>2, <2>4, Zenon DEF ReadBlock, c, Goto
    <3> HIDE DEF d
    <3>3. UNCHANGED <<module, mounted, mounts, root, pinned, free, head, pages, obj, tree_lock>>
      BY <1>2, Zenon DEF ReadBlock, module_vars
    <3>4. TypeOK'
      BY <3>1, <3>2, <3>3 DEF TypeOK, Labels
    <3>5. d.at \in Sector /\ d.next \in Sector /\ d.extra \in Sector
      <4>1. 0 \in Sector
        BY FileIOAssumption DEF Sector, LastSector
      <4> QED
        BY <2>1, <3>1, <4>1 DEF CallSectors
    <3>6. CallSectors'
      BY <3>2, <3>5 DEF TypeOK, CallSectors
    <3> QED
      BY <3>4, <3>6
  <2> QED
    BY <2>2, <2>3, <2>4
<1>3. CASE ReadDone(t)
  <2>1. call[t].done \in Int
    BY CallTypes DEF Calls
  <2>2. obj' \in [Objects -> ObjectFields]
    <3> DEFINE r == [obj[call[t].o] EXCEPT !.lock = NoTask]
    <3>1. obj' = [obj EXCEPT ![call[t].o] = r]
      BY <1>3, Zenon DEF ReadDone
    <3>2. r \in ObjectFields
      BY CallTypes DEF ObjectFields
    <3> HIDE DEF r
    <3> QED
      BY <3>1, <3>2 DEF TypeOK
  <2> QED
    BY <1>3, <2>1, <2>2, CallTypes, ReturnType DEF ReadDone, TypeOK, module_vars
<1>4. CASE ReadFails(t)
  BY <1>4, CallTypes, ReturnType DEF ReadFails, TypeOK, module_vars
<1>5. CASE ReadBlockFails(t)
  BY <1>5, CallTypes, ConsumedType, ReturnType DEF ReadBlockFails, TypeOK, module_vars
<1> QED
  BY <1>1, <1>2, <1>3, <1>4, <1>5 DEF ReadStep

\* What spfs_do_write does to the local variables keeps their types.
LEMMA DoWriteType ==
    ASSUME NEW c \in Calls, NEW room \in Nat
    PROVE  /\ DoWrite(c, room) \in Calls /\ Copy(c, room) \in Nat
           /\ Copy(c, room) <= c.n /\ Copy(c, room) <= room
           /\ DoWrite(c, room).n = c.n - Copy(c, room)
           /\ DoWrite(c, room).pos = c.pos - Skip(c, room)
           /\ DoWrite(c, room).o = c.o /\ DoWrite(c, room).kind = c.kind
           /\ DoWrite(c, room).at = c.at /\ DoWrite(c, room).next = c.next
           /\ DoWrite(c, room).extra = c.extra /\ DoWrite(c, room).it = c.it
           /\ DoWrite(c, room).end = c.end /\ DoWrite(c, room).res = c.res
           /\ DoWrite(c, room).written = c.written
<1>1. c.pos \in Nat /\ c.n \in Nat /\ c.left \in Nat /\ c.done \in Nat /\ c.dirty \in BOOLEAN
  BY DEF Calls
<1>2. Copy(c, room) \in Nat /\ Copy(c, room) <= c.n /\ Copy(c, room) <= room
  BY <1>1 DEF Copy, Least
<1>3. c.pos - Skip(c, room) \in Nat
  BY <1>1 DEF Skip, Least
<1>4. /\ c.n - Copy(c, room) \in Nat /\ c.left + Copy(c, room) \in Nat
      /\ c.done + Copy(c, room) \in Nat
  BY <1>1, <1>2
<1> QED
  BY <1>2, <1>3, <1>4 DEF DoWrite, Calls

\* The run of an allocation is on the device, behind the super block and the
\* free list.
LEMMA RunOfType ==
    ASSUME TypeInv, NEW k \in Nat, k >= 1, CanAlloc(k)
    PROVE  RunOf(k) \in Sector \ {0} /\ free - k \in 0 .. DataBlocks /\ free - k >= 1
BY FileIOAssumption DEF TypeInv, TypeOK, CanAlloc, RunOf, Sector, LastSector

\* spfs_ensure_capacity keeps the types.
LEMMA EnsureType ==
    ASSUME TypeInv, NEW t \in Tasks,
           \/ EnsureNothing(t) \/ EnsureAlloc(t) \/ EnsureNoSpace(t) \/ EnsureNoBuffer(t)
           \/ Modify(t) \/ ModifyBug(t)
    PROVE  TypeInv'
<1> USE DEF TypeInv
<1>1. CASE EnsureNothing(t)
  BY <1>1 DEF EnsureNothing, Goto, TypeOK, Labels, CallSectors, module_vars
<1>2. CASE EnsureAlloc(t)
  <2> DEFINE k == Needs(t)
             first == obj[call[t].o].start = 0
  <2>1. k \in Nat /\ k >= 1 /\ CanAlloc(k)
    BY <1>2, NeedsType DEF EnsureAlloc
  <2>2. RunOf(k) \in Sector /\ RunOf(k) \in Nat /\ free - k \in 0 .. DataBlocks
    BY <2>1, RunOfType, FileIOAssumption DEF Sector, LastSector
  <2>3. DataBytes(k) \in Nat
    BY <2>1, DataBytesType
  <2> HIDE DEF k
  <2>4. Header(0, k, 0) \in HeaderFields
    BY <2>1, FileIOAssumption DEF Header, HeaderFields, Sector, LastSector
  <2>5. head' \in [Sector -> HeaderFields] /\ free' \in 0 .. DataBlocks
    BY <1>2, <2>2, <2>4 DEF EnsureAlloc, TypeOK, k
  <2>6. obj' \in [Objects -> ObjectFields]
    <3> DEFINE e == obj[call[t].o]
               d == [e EXCEPT !.start = IF first THEN RunOf(k) ELSE @,
                              !.capacity = @ + DataBytes(k)]
    <3>1. obj' = [obj EXCEPT ![call[t].o] = d]
      BY <1>2, Zenon DEF EnsureAlloc, k
    <3>2. d \in ObjectFields
      <4>1. e \in ObjectFields
        BY CallTypes
      <4>2. d = [e EXCEPT !.start = IF first THEN RunOf(k) ELSE @,
                          !.capacity = @ + DataBytes(k)]
        OBVIOUS
      <4> HIDE DEF d, e, first
      <4>3. (IF first THEN RunOf(k) ELSE e.start) \in Sector /\ e.capacity + DataBytes(k) \in Nat
        BY <2>2, <2>3, <4>1 DEF ObjectFields
      <4> QED
        BY <4>1, <4>2, <4>3, Zenon DEF ObjectFields
    <3> HIDE DEF d
    <3> QED
      BY <3>1, <3>2, CallTypes DEF TypeOK
  <2>7. pc' = [pc EXCEPT ![t] = "modify"]
    BY <1>2 DEF EnsureAlloc, Goto
  <2>8. call' \in [Tasks -> Calls] /\ CallSectors'
    <3> DEFINE c == [call[t] EXCEPT !.extra = IF first THEN 0 ELSE RunOf(k),
                                    !.at = IF first THEN RunOf(k) ELSE @]
    <3>1. /\ c \in Calls /\ (c.at = RunOf(k) \/ c.at = call[t].at) /\ c.next = call[t].next
          /\ (c.extra = RunOf(k) \/ c.extra = 0)
      BY <2>2, CallTypes DEF Calls
    <3>2. call' = [call EXCEPT ![t] = c]
      BY <1>2, Zenon DEF EnsureAlloc, k
    <3> HIDE DEF c
    <3> QED
      BY <2>2, <2>7, <3>1, <3>2, FileIOAssumption DEF TypeOK, CallSectors, Sector, LastSector
  <2> QED
    BY <1>2, <2>5, <2>6, <2>7, <2>8 DEF EnsureAlloc, TypeOK, Labels, module_vars
<1>3. CASE EnsureNoSpace(t)
  BY <1>3, CallTypes, ReturnType DEF EnsureNoSpace, TypeOK, module_vars
<1>4. CASE EnsureNoBuffer(t)
  <2>1. free' \in 0 .. DataBlocks
    BY <1>4, NeedsType, RunOfType DEF EnsureNoBuffer
  <2> QED
    BY <1>4, <2>1, DiesType DEF EnsureNoBuffer, TypeOK, module_vars
<1>5. CASE Modify(t)
  <2>1. PICK r \in ModifyResults :
          IF r = 0 THEN Goto(t, "whead") /\ UNCHANGED call ELSE Return(t, call[t], r)
    BY <1>5 DEF Modify
  <2>2. r \in Int
    BY FileIOAssumption
  <2>3. pc' \in [Tasks -> Labels] /\ call' \in [Tasks -> Calls] /\ CallSectors'
    <3>1. CASE r = 0
      BY <2>1, <3>1 DEF Goto, TypeOK, Labels, CallSectors
    <3>2. CASE r # 0
      BY <2>1, <2>2, <3>2, CallTypes, ReturnType
    <3> QED
      BY <3>1, <3>2
  <2> QED
    BY <1>5, <2>3 DEF Modify, TypeOK, module_vars
<1>6. CASE ModifyBug(t)
  BY <1>6, DiesType DEF ModifyBug, TypeOK, module_vars
<1> QED
  BY <1>1, <1>2, <1>3, <1>4, <1>5, <1>6

\* The loop of spfs_write over the blocks of the extents keeps the types.
LEMMA WriteType ==
    ASSUME TypeInv, NEW t \in Tasks,
           WriteHead(t) \/ WriteBlock(t) \/ WriteFails(t) \/ WriteEnd(t) \/ WriteDone(t)
    PROVE  TypeInv'
<1> USE DEF TypeInv
<1>1. CASE WriteHead(t)
  <2> DEFINE h == head[call[t].at]
             link == h.next = 0 /\ call[t].extra # 0
             room == BlockSize - HeaderSize
             c == [call[t] EXCEPT !.next = IF link THEN call[t].extra ELSE h.next,
                                  !.extra = IF link THEN 0 ELSE @,
                                  !.dirty = link, !.left = h.length,
                                  !.it = call[t].at + 1, !.end = call[t].at + h.capacity]
  <2>1. CASE h.magic
    <3>1. /\ h.next \in Sector /\ h.length \in Nat /\ h.capacity \in Nat
          /\ call[t].extra \in Sector /\ call[t].at \in Nat
      BY CallTypes DEF TypeOK, CallSectors, HeaderFields, Calls
    <3>10. Sector \subseteq Nat /\ 0 \in Sector
      BY FileIOAssumption DEF Sector, LastSector
    <3>11. link \in BOOLEAN
      BY Zenon
    <3> HIDE DEF h, link
    <3>2. /\ c \in Calls /\ c.at = call[t].at /\ c.next \in Sector /\ c.extra \in Sector
          /\ c.end >= c.at
      <4> DEFINE e == call[t]
      <4>1. e \in Calls /\ e.at = call[t].at /\ e.extra = call[t].extra
        BY CallTypes
      <4>2. c = [e EXCEPT !.next = IF link THEN e.extra ELSE h.next,
                          !.extra = IF link THEN 0 ELSE @,
                          !.dirty = link, !.left = h.length,
                          !.it = e.at + 1, !.end = e.at + h.capacity]
        OBVIOUS
      <4> HIDE DEF c, e
      <4>3. /\ (IF link THEN e.extra ELSE h.next) \in Sector /\ (IF link THEN 0 ELSE e.extra) \in Sector
        BY <3>1, <3>10, <4>1, Zenon
      <4>4. /\ (IF link THEN e.extra ELSE h.next) \in Nat /\ (IF link THEN 0 ELSE e.extra) \in Nat
        BY <3>10, <4>3, Zenon
      <4>5. e.at + 1 \in Nat /\ e.at + h.capacity \in Nat /\ e.at + h.capacity >= e.at
        BY <3>1, <4>1
      <4> QED
        BY <3>1, <3>11, <4>1, <4>2, <4>3, <4>4, <4>5, Zenon DEF Calls
    <3>3. room \in Nat
      BY FileIOAssumption
    <3> DEFINE d == [DoWrite(c, room) EXCEPT !.res = Copy(c, room)]
    <3>4. call' = [call EXCEPT ![t] = d] /\ pc' = [pc EXCEPT ![t] = "wblock"]
      BY <1>1, <2>1, Zenon DEF WriteHead, Goto, h, link
    <3> HIDE DEF c, room
    <3>5. /\ d \in Calls /\ d.at = c.at /\ d.next = c.next /\ d.extra = c.extra
          /\ d.end = c.end
      BY <3>2, <3>3, DoWriteType DEF Calls
    <3> HIDE DEF d
    <3> QED
      BY <1>1, <3>2, <3>4, <3>5 DEF WriteHead, TypeOK, Labels, CallSectors, module_vars
  <2>2. CASE ~h.magic
    BY <1>1, <2>2, CallTypes, ReturnType DEF WriteHead, TypeOK, module_vars
  <2> QED
    BY <2>1, <2>2
<1>2. CASE WriteBlock(t)
  <2> DEFINE c == call[t]
  <2>0. c \in Calls
    BY CallTypes
  <2>1. CASE c.pos >= BlockSize
    <3> DEFINE d == [c EXCEPT !.pos = @ - BlockSize, !.it = @ + 1]
    <3>1. /\ d \in Calls /\ d.at = c.at /\ d.next = c.next /\ d.extra = c.extra
          /\ d.end = c.end /\ d.kind = c.kind
      <4>1. d = [c EXCEPT !.pos = @ - BlockSize, !.it = @ + 1]
        OBVIOUS
      <4> HIDE DEF c, d
      <4>2. c.pos - BlockSize \in Nat /\ c.it + 1 \in Nat
        BY <2>0, <2>1, FileIOAssumption DEF Calls
      <4> QED
        BY <2>0, <4>1, <4>2, Zenon DEF Calls
    <3>2. call' = [call EXCEPT ![t] = d] /\ pc' = pc /\ head' = head
      <4>1. ~(c.pos < BlockSize /\ c.it \in Sector)
        BY <2>0, <2>1, FileIOAssumption DEF Calls
      <4> QED
        BY <1>2, <2>1, <4>1, Zenon DEF WriteBlock
    <3> HIDE DEF d
    <3> QED
      BY <1>2, <3>1, <3>2 DEF WriteBlock, TypeOK, CallSectors, module_vars
  <2>2. CASE ~(c.pos >= BlockSize) /\ c.it \in Sector
    <3> DEFINE d == [DoWrite(c, BlockSize) EXCEPT !.it = @ + 1]
    <3>1. /\ d \in Calls /\ d.at = c.at /\ d.next = c.next /\ d.extra = c.extra
          /\ d.end = c.end /\ d.kind = c.kind
      BY CallTypes, DoWriteType, FileIOAssumption DEF Calls
    <3>2. c.pos < BlockSize
      BY <2>2, CallTypes, FileIOAssumption DEF Calls
    <3>3. /\ call' = [call EXCEPT ![t] = d] /\ pc' = pc
          /\ head' = [head EXCEPT ![c.it] = IF Copy(c, BlockSize) > 0 THEN NoHeader ELSE @]
      BY <1>2, <2>2, <3>2, Zenon DEF WriteBlock
    <3>4. NoHeader \in HeaderFields
      BY FileIOAssumption DEF NoHeader, HeaderFields, Sector, LastSector
    <3> HIDE DEF d
    <3>5. head' \in [Sector -> HeaderFields]
      BY <3>3, <3>4 DEF TypeOK
    <3> QED
      BY <1>2, <3>1, <3>3, <3>5 DEF WriteBlock, TypeOK, CallSectors, module_vars
  <2>3. CASE ~(c.pos >= BlockSize) /\ c.it \notin Sector
    <3>1. Return(t, c, EIO) /\ head' = head
      BY <1>2, <2>3, Zenon DEF WriteBlock
    <3> QED
      BY <1>2, <3>1, CallTypes, ReturnType DEF WriteBlock, TypeOK, module_vars
  <2> QED
    BY <2>1, <2>2, <2>3
<1>3. CASE WriteFails(t)
  BY <1>3, CallTypes, ReturnType DEF WriteFails, TypeOK, module_vars
<1>4. CASE WriteEnd(t)
  <2> DEFINE c == call[t]
  <2>0. c \in Calls
    BY CallTypes
  <2>1. head' \in [Sector -> HeaderFields]
    <3>1. Header(c.next, c.end - c.at, c.left) \in HeaderFields
      BY <1>4, CallTypes DEF WriteEnd, CallSectors, Calls, Header, HeaderFields
    <3> QED
      BY <1>4, <3>1 DEF WriteEnd, TypeOK
  <2>2. CASE c.res # 0
    <3>1. Return(t, c, EIO)
      BY <1>4, <2>2 DEF WriteEnd
    <3> QED
      BY <1>4, <2>1, <3>1, CallTypes, ReturnType DEF WriteEnd, TypeOK, module_vars
  <2>3. CASE c.res = 0
    <3>0. c.next \in Sector /\ 0 \in Sector
      BY FileIOAssumption DEF CallSectors, Sector, LastSector
    <3> DEFINE d == [c EXCEPT !.written = @ + c.res, !.at = IF c.n > 0 THEN c.next ELSE 0]
    <3>1. /\ d \in Calls /\ (d.at = c.next \/ d.at = 0) /\ d.next = c.next
          /\ d.extra = c.extra
      <4>1. d = [c EXCEPT !.written = @ + c.res, !.at = IF c.n > 0 THEN c.next ELSE 0]
        OBVIOUS
      <4> HIDE DEF c, d
      <4>2. c.written + c.res \in Nat /\ (IF c.n > 0 THEN c.next ELSE 0) \in Nat
        BY <2>0 DEF Calls
      <4>3. (IF c.n > 0 THEN c.next ELSE 0) \in {c.next, 0}
        OBVIOUS
      <4> QED
        BY <2>0, <4>1, <4>2, <4>3, Zenon DEF Calls
    <3>2. call' = [call EXCEPT ![t] = d] /\ pc' = [pc EXCEPT ![t] = "whead"]
      BY <1>4, <2>3, Zenon DEF WriteEnd, Goto
    <3> HIDE DEF d
    <3> QED
      BY <1>4, <2>1, <3>0, <3>1, <3>2 DEF WriteEnd, TypeOK, Labels, CallSectors, module_vars
  <2> QED
    BY <2>2, <2>3
<1>5. CASE WriteDone(t)
  <2>1. CASE call[t].extra # 0 \/ call[t].n # 0
    BY <1>5, <2>1, DiesType DEF WriteDone, TypeOK, module_vars
  <2>2. CASE ~(call[t].extra # 0 \/ call[t].n # 0)
    <3>1. call[t].written \in Int /\ call[t].written \in Nat
      BY CallTypes DEF Calls
    <3>2. obj' \in [Objects -> ObjectFields]
      BY <1>5, <2>2, <3>1, CallTypes DEF WriteDone, TypeOK, ObjectFields
    <3> QED
      BY <1>5, <2>2, <3>1, <3>2, CallTypes, ReturnType DEF WriteDone, TypeOK, module_vars
  <2> QED
    BY <2>1, <2>2
<1> QED
  BY <1>1, <1>2, <1>3, <1>4, <1>5

\* A directory that is counted one up and unlocked keeps its fields.
LEMMA CountedType ==
    ASSUME NEW r \in ObjectFields
    PROVE  [r EXCEPT !.capacity = @ + 1, !.lock = NoTask] \in ObjectFields
<1> DEFINE c == r.capacity + 1
           q == [r EXCEPT !.capacity = c]
<1>1. c \in Nat
  BY DEF ObjectFields
<1> HIDE DEF c
<1>2. q \in ObjectFields
  BY <1>1 DEF ObjectFields
<1>3. [r EXCEPT !.capacity = c, !.lock = NoTask] = [q EXCEPT !.lock = NoTask]
  BY DEF ObjectFields
<1> HIDE DEF q
<1>4. [q EXCEPT !.lock = NoTask] \in ObjectFields
  BY <1>2 DEF ObjectFields
<1> QED
  BY <1>3, <1>4, Zenon DEF c

\* The parent's object as spfs_add_child leaves it.
LEMMA AddedType ==
    ASSUME NEW o \in Objects, obj \in [Objects -> ObjectFields],
           obj' = [obj EXCEPT ![o].capacity = @ + 1, ![o].lock = NoTask]
    PROVE  obj' \in [Objects -> ObjectFields]
<1> DEFINE r == [obj[o] EXCEPT !.capacity = @ + 1, !.lock = NoTask]
<1>1. obj' = [obj EXCEPT ![o] = r]
  OBVIOUS
<1>2. r \in ObjectFields
  BY CountedType, Zenon
<1> HIDE DEF r
<1> QED
  BY <1>1, <1>2

\* spfs_add_child keeps the types.
LEMMA AddType ==
    ASSUME TypeInv, NEW t \in Tasks, AddStep(t)
    PROVE  TypeInv'
<1> USE DEF TypeInv
<1>1. CASE AddFirst(t)
  <2>1. RunOf(1) \in Sector /\ free - 1 \in 0 .. DataBlocks
    BY <1>1, RunOfType DEF AddFirst
  <2>2. \A number \in Numbers : Header(0, 1, number) \in HeaderFields
    BY FileIOAssumption DEF Header, HeaderFields, Sector, LastSector
  <2>5. PICK number \in Numbers : head' = [head EXCEPT ![RunOf(1)] = Header(0, 1, number)]
    BY <1>1, Zenon DEF AddFirst
  <2>3. head' \in [Sector -> HeaderFields] /\ free' \in 0 .. DataBlocks
    BY <1>1, <2>1, <2>2, <2>5 DEF AddFirst, TypeOK
  <2>4. obj' \in [Objects -> ObjectFields]
    BY <1>1, <2>1, CallTypes DEF AddFirst, TypeOK, ObjectFields
  <2> QED
    BY <1>1, <2>3, <2>4, CallTypes, ReturnType DEF AddFirst, TypeOK, module_vars
<1>2. CASE AddMore(t)
  <2>1. head' \in [Sector -> HeaderFields]
    <3> DEFINE s == obj[call[t].o].start
               h == [head[s] EXCEPT !.capacity = @ + 1]
    <3>1. head' = [head EXCEPT ![s] = h]
      BY <1>2, Zenon DEF AddMore
    <3>2. s \in Sector
      BY CallTypes DEF ObjectFields
    <3>3. head[s] \in HeaderFields
      BY <3>2 DEF TypeOK
    <3>4. h \in HeaderFields
      BY <3>3 DEF HeaderFields
    <3> HIDE DEF h, s
    <3> QED
      BY <3>1, <3>2, <3>4 DEF TypeOK
  <2>2. obj' \in [Objects -> ObjectFields]
    BY <1>2, CallTypes, AddedType, Zenon DEF AddMore, TypeOK
  <2>3. Return(t, call[t], 0) /\ UNCHANGED <<module_vars, pages, free, tree_lock>>
    BY <1>2, Zenon DEF AddMore
  <2> QED
    BY <2>1, <2>2, <2>3, CallTypes, ReturnType DEF TypeOK, module_vars
<1>3. CASE AddFails(t)
  <2>1. free' \in 0 .. DataBlocks
    BY <1>3, RunOfType DEF AddFails, TypeOK
  <2>2. obj' \in [Objects -> ObjectFields]
    BY <1>3, CallTypes, AddedType, Zenon DEF AddFails, TypeOK
  <2>3. \E v \in Int : Return(t, call[t], v)
    BY <1>3, CallTypes DEF AddFails
  <2> QED
    BY <1>3, <2>1, <2>2, <2>3, CallTypes, ReturnType DEF AddFails, TypeOK, module_vars
<1>4. CASE AddBug(t)
  <2>1. obj' \in [Objects -> ObjectFields]
    <3> DEFINE r == [obj[call[t].o] EXCEPT !.capacity = @ + 1]
    <3>1. obj' = [obj EXCEPT ![call[t].o] = r]
      BY <1>4, Zenon DEF AddBug
    <3>2. r \in ObjectFields
      BY CallTypes DEF ObjectFields
    <3> HIDE DEF r
    <3> QED
      BY <3>1, <3>2 DEF TypeOK
  <2> QED
    BY <1>4, <2>1, DiesType DEF AddBug, TypeOK, module_vars
<1> QED
  BY <1>1, <1>2, <1>3, <1>4 DEF AddStep

\* Every step is one of the system or one of a task.
LEMMA NextSplit ==
    Next <=> \/ SystemStep
             \/ \E t \in Tasks : Step(t) \/ Fault(t) \/ \E o \in Objects : BeginCall(t, o)
BY Zenon DEF Next, SystemStep

\* Every step keeps the types.
LEMMA NextType == TypeInv /\ [Next]_vars => TypeInv'
<1> SUFFICES ASSUME TypeInv, [Next]_vars PROVE TypeInv'
  OBVIOUS
<1>1. CASE SystemStep
  BY <1>1, SystemType
<1>2. ASSUME NEW t \in Tasks, Step(t) \/ Fault(t) \/ \E o \in Objects : BeginCall(t, o)
      PROVE  TypeInv'
  BY <1>2, CallType, ReadType, EnsureType, WriteType, AddType, Zenon
  DEF Step, Fault, ReadStep, WriteStep
<1>3. CASE UNCHANGED vars
  BY <1>3 DEF vars, module_vars, task_vars, TypeInv, TypeOK, CallSectors
<1> QED
  BY <1>1, <1>2, <1>3, NextSplit

\* Types hold in every reachable state, with any number of tasks and objects: no
\* length, position or count of blocks goes below zero in spfs_read, spfs_write
\* and spfs_ensure_capacity, and every extent begins on the device.
THEOREM TypeCorrect == Spec => []TypeOK
<1>1. TypeInv => TypeOK
  BY DEF TypeInv
<1> QED
  BY InitType, NextType, <1>1, PTL DEF Spec

-----------------------------------------------------------------------------
(* Locks and the life of the objects *)

\* What a step of the system may do to an object, and that it leaves alone the
\* ones that calls work on.
SystemEffect ==
    /\ UNCHANGED <<pc, call>>
    /\ \A t \in Tasks : pc[t] # "idle" => obj'[call[t].o] = obj[call[t].o]
    /\ \A o \in Objects :
          \/ obj'[o] = obj[o]
          \/ obj'[o] = Constructed
          \/ obj[o].life = "live" /\ \E l \in {"rcu", "lost"} : obj'[o] = [obj[o] EXCEPT !.life = l]
          \/ obj[o].life = "rcu" /\ obj'[o].life = "slab" /\ ~obj'[o].fresh /\ obj'[o].size = obj[o].size
          \/ /\ obj[o].life = "slab" /\ obj'[o].life \in {"live", "lost"} /\ obj'[o].size = 0
             /\ obj'[o].start = obj[o].start /\ obj'[o].capacity = obj[o].capacity
             /\ obj'[o].fresh = obj[o].fresh /\ obj'[o].lock = obj[o].lock

\* What spfs_alloc_inode leaves of the object's last life.
LEMMA AllocStep ==
    ASSUME TypeInv, NEW o \in Objects, NEW d \in BOOLEAN, NEW life \in {"live", "lost"},
           AllocInode(o, d, life)
    PROVE  /\ \A p \in Objects \ {o} : obj'[p] = obj[p]
           /\ obj[o].life = "slab" /\ obj'[o].life = life /\ obj'[o].size = 0
           /\ obj'[o].start = obj[o].start /\ obj'[o].capacity = obj[o].capacity
           /\ obj'[o].fresh = obj[o].fresh /\ obj'[o].lock = obj[o].lock
BY DEF AllocInode, TypeInv, TypeOK, ObjectFields

\* No step of the system touches the object of a call that is under way: not
\* spfs_free_inode_cb, not unmount, and not spfs_exit, which finds none.
LEMMA SystemObjects ==
    ASSUME TypeInv, Lives, Busy, SystemStep
    PROVE  Lives' /\ SystemEffect
<1> USE DEF Lives, SlabOutlivesCallbacks
<1>1. ASSUME UNCHANGED <<pc, call, obj>>
      PROVE  SystemEffect
  BY <1>1 DEF SystemEffect
<1>2. CASE CreateSlab
  BY <1>1, <1>2 DEF CreateSlab, task_vars
<1>3. CASE Register
  BY <1>1, <1>3 DEF Register, task_vars
<1>4. CASE Unregister
  BY <1>1, <1>4 DEF Unregister, task_vars
<1>5. CASE DestroySlab
  <2>1. ~mounted
    BY <1>5 DEF DestroySlab
  <2>2. \A o \in Objects : \/ obj'[o] = Constructed
                           \/ obj'[o] = obj[o] /\ obj[o].life = "lost"
    BY <1>5 DEF DestroySlab, Barrier
  <2>3. Constructed.life = "slab"
    BY DEF Constructed
  <2>4. \A t \in Tasks : pc[t] = "idle"
    BY <2>1, CallTypes DEF Busy
  <2> QED
    BY <1>5, <2>1, <2>2, <2>3, <2>4 DEF DestroySlab, SystemEffect, task_vars
<1>6. CASE Mount
  <2>1. PICK o \in Objects : AllocInode(o, TRUE, "live")
    BY <1>6, Zenon DEF Mount
  <2>2. /\ module = "registered" /\ module' = module /\ mounted' /\ ~mounted
        /\ UNCHANGED <<pc, call>>
    BY <1>6 DEF Mount, task_vars
  <2>3. \A t \in Tasks : pc[t] = "idle"
    BY <2>2, CallTypes DEF Busy
  <2> QED
    BY <2>1, <2>2, <2>3, AllocStep DEF SystemEffect
<1>7. CASE Umount
  <2>1. ASSUME NEW o \in Objects
        PROVE  \/ obj[o].life # "live" /\ obj'[o] = obj[o]
               \/ /\ obj[o].life = "live" /\ obj'[o].life \in {"rcu", "lost"}
                  /\ \E l \in {"rcu", "lost"} : obj'[o] = [obj[o] EXCEPT !.life = l]
    <3>1. /\ [obj[o] EXCEPT !.life = "rcu"].life = "rcu"
          /\ [obj[o] EXCEPT !.life = "lost"].life = "lost"
      BY DEF TypeInv, TypeOK, ObjectFields
    <3> QED
      BY <1>7, <3>1 DEF Umount
  <2>2. ~mounted' /\ module' = "registered"
    BY <1>7 DEF Umount
  <2>3. Lives'
    BY <2>1, <2>2
  <2> QED
    BY <1>7, <2>1, <2>3 DEF Umount, SystemEffect, task_vars
<1>8. ASSUME NEW o \in Objects, NEW d \in BOOLEAN, CreateInode(o, d) \/ CreateFails(o, d)
      PROVE  Lives' /\ SystemEffect
  <2>1. PICK l \in {"live", "lost"} : AllocInode(o, d, l)
    BY <1>8 DEF CreateInode, CreateFails
  <2>2. mounted /\ mounted' = mounted /\ module' = module /\ UNCHANGED <<pc, call>>
    BY <1>8 DEF CreateInode, CreateFails, module_vars, task_vars
  <2>3. \A t \in Tasks : pc[t] # "idle" => call[t].o \in Objects \ {o}
    BY <2>1, CallTypes DEF Busy, AllocInode
  <2> QED
    BY <2>1, <2>2, <2>3, AllocStep DEF SystemEffect
<1>9. ASSUME NEW o \in Objects, FreeInode(o)
      PROVE  Lives' /\ SystemEffect
  <2>1. /\ mounted' = mounted /\ module' = module /\ obj[o].life = "live"
        /\ UNCHANGED <<pc, call>>
        /\ obj' = [obj EXCEPT ![o] = [obj[o] EXCEPT !.life = "rcu"]]
    BY <1>9 DEF FreeInode, module_vars, task_vars
  <2>2. /\ \A p \in Objects \ {o} : obj'[p] = obj[p]
        /\ obj'[o] = [obj[o] EXCEPT !.life = "rcu"] /\ obj'[o].life = "rcu"
    BY <2>1 DEF TypeInv, TypeOK, ObjectFields
  <2>3. \A t \in Tasks : pc[t] # "idle" => call[t].o \in Objects \ {o}
    BY <1>9, CallTypes DEF FreeInode
  <2> QED
    BY <2>1, <2>2, <2>3 DEF SystemEffect
<1>10. ASSUME NEW o \in Objects, FreeInodeCb(o)
       PROVE  Lives' /\ SystemEffect
  <2>1. /\ mounted' = mounted /\ module' = module /\ obj[o].life = "rcu"
        /\ UNCHANGED <<pc, call>>
    BY <1>10 DEF FreeInodeCb, module_vars, task_vars
  <2>2. /\ \A p \in Objects \ {o} : obj'[p] = obj[p]
        /\ obj'[o].life = "slab" /\ ~obj'[o].fresh /\ obj'[o].size = obj[o].size
    BY <1>10 DEF FreeInodeCb, TypeInv, TypeOK, ObjectFields
  <2>3. \A t \in Tasks : pc[t] # "idle" => call[t].o \in Objects \ {o}
    BY <2>1, CallTypes DEF Busy
  <2> QED
    BY <2>1, <2>2, <2>3 DEF SystemEffect
<1>11. ASSUME NEW o \in Objects, VisitChild(o)
       PROVE  Lives' /\ SystemEffect
  BY <1>1, <1>11 DEF VisitChild, task_vars
<1> QED
  BY <1>2, <1>3, <1>4, <1>5, <1>6, <1>7, <1>8, <1>9, <1>10, <1>11 DEF SystemStep

\* A call returns an error with inode->lock held.
FailsLocked(t) ==
    /\ pc'[t] = "return" /\ obj' = obj
    /\ \/ pc[t] \in Reading /\ call'[t].ret < 0
       \/ pc[t] \in WritePath /\ call'[t].ret # 0
    /\ call'[t].written = call[t].written

\* What a step of task t does to its place in the call and to inode->lock: the
\* control flow of spfs_read, spfs_write and spfs_add_child.
Moves(t) ==
    LET o == call[t].o
    IN  \/ /\ pc[t] = "lock" /\ obj[o].lock = NoTask
           /\ pc'[t] = AfterLock[call[t].kind] /\ obj' = [obj EXCEPT ![o].lock = t]
        \/ /\ pc[t] = "lock" /\ call[t].kind = "write" /\ pc'[t] = "return" /\ obj' = obj
           /\ call'[t].ret < 0 /\ call'[t].written = call[t].written
        \/ pc[t] = "return" /\ pc'[t] = "idle" /\ obj' = obj
        \/ pc[t] \in Reading /\ pc'[t] \in Reading /\ obj' = obj
        \/ /\ pc[t] \in WritePath /\ pc'[t] \in WritePath \ {"ensure"}
           /\ obj'[o].lock = obj[o].lock
        \/ pc[t] \in WritePath /\ pc'[t] = "dead" /\ obj' = obj
        \/ pc[t] = "add" /\ pc'[t] = "dead" /\ obj'[o].lock = obj[o].lock
        \/ pc[t] = "whead" /\ call[t].at = 0 /\ pc'[t] = "bug" /\ obj' = obj
        \/ FailsLocked(t)
        \/ pc[t] \in Locked /\ pc'[t] = "return" /\ obj'[o].lock = NoTask

\* A step of task t inside a call changes only the object of the call, and of
\* that only what the locks protect.
TaskEffect(t) ==
    /\ UNCHANGED <<module, mounted>> /\ Others(t) /\ Moves(t)
    /\ \A p \in Objects \ {call[t].o} : obj'[p] = obj[p]
    /\ \A p \in Objects : /\ obj'[p].life = obj[p].life /\ obj'[p].isdir = obj[p].isdir
                          /\ obj'[p].fresh = obj[p].fresh
    /\ pc'[t] # "idle" => call'[t].o = call[t].o
    /\ pc'[t] \notin {"idle", "dead", "bug"} => call'[t].kind = call[t].kind

\* A step that changes no object.
LEMMA SameObjects ==
    ASSUME NEW t \in Tasks, obj' = obj, UNCHANGED module_vars, Others(t), Moves(t),
           pc'[t] # "idle" => call'[t].o = call[t].o,
           pc'[t] \notin {"idle", "dead", "bug"} => call'[t].kind = call[t].kind
    PROVE  TaskEffect(t)
BY DEF TaskEffect, module_vars

\* A failing call keeps inode->lock.
LEMMA FailEffect ==
    ASSUME TypeInv, NEW t \in Tasks, NEW c \in Calls, NEW value \in Int, Return(t, c, value),
           obj' = obj, UNCHANGED module_vars,
           c.o = call[t].o, c.kind = call[t].kind, c.written = call[t].written,
           \/ pc[t] \in Reading /\ value < 0
           \/ pc[t] \in WritePath /\ value # 0
    PROVE  TaskEffect(t)
<1>1. /\ Others(t) /\ pc'[t] = "return" /\ call'[t].o = c.o /\ call'[t].kind = c.kind
      /\ call'[t].ret = value /\ call'[t].written = c.written
  BY ReturnStep DEF TypeInv, TypeOK
<1>2. Moves(t)
  BY <1>1 DEF Moves, FailsLocked
<1> QED
  BY <1>1, <1>2, SameObjects

\* The call is locked, interrupted, or over.
LEMMA CallEffect ==
    ASSUME TypeInv, NEW t \in Tasks, LockInode(t) \/ Interrupted(t) \/ Returned(t)
    PROVE  TaskEffect(t)
<1>1. CASE LockInode(t)
  <2>1. /\ Others(t) /\ call'[t].o = call[t].o /\ call'[t].kind = call[t].kind
        /\ pc'[t] = AfterLock[call[t].kind]
    BY <1>1, CallTypes DEF LockInode, Goto, Others, TypeInv, TypeOK, Calls
  <2>2. /\ \A p \in Objects \ {call[t].o} : obj'[p] = obj[p]
        /\ \A p \in Objects : /\ obj'[p].life = obj[p].life /\ obj'[p].isdir = obj[p].isdir
                              /\ obj'[p].fresh = obj[p].fresh
    BY <1>1, CallTypes DEF LockInode, TypeInv, TypeOK, ObjectFields
  <2>3. Moves(t)
    BY <1>1, <2>1 DEF LockInode, Moves
  <2> QED
    BY <1>1, <2>1, <2>2, <2>3 DEF LockInode, TaskEffect, module_vars
<1>2. CASE Interrupted(t)
  <2>1. /\ Others(t) /\ pc'[t] = "return" /\ call'[t].o = call[t].o
        /\ call'[t].kind = call[t].kind /\ call'[t].ret = EINTR
        /\ call'[t].written = call[t].written
    BY <1>2, CallTypes, ReturnStep DEF Interrupted, TypeInv, TypeOK
  <2>2. Moves(t)
    BY <1>2, <2>1 DEF Interrupted, Moves, EINTR
  <2> QED
    BY <1>2, <2>1, <2>2, SameObjects DEF Interrupted
<1>3. CASE Returned(t)
  <2>1. Others(t) /\ pc'[t] = "idle"
    BY <1>3 DEF Returned, Goto, Others, TypeInv, TypeOK
  <2>2. Moves(t)
    BY <1>3, <2>1 DEF Returned, Moves
  <2> QED
    BY <1>3, <2>1, <2>2, SameObjects DEF Returned
<1> QED
  BY <1>1, <1>2, <1>3

\* spfs_read
LEMMA ReadEffect ==
    ASSUME TypeInv, NEW t \in Tasks, ReadStep(t) \/ ReadFails(t) \/ ReadBlockFails(t)
    PROVE  TaskEffect(t)
<1> DEFINE c == Consumed(call[t])
<1>0. EIO < 0 /\ EINVAL < 0
  BY DEF EIO, EINVAL
<1>a. c \in Calls /\ c.o = call[t].o /\ c.kind = call[t].kind /\ c.written = call[t].written
  BY CallTypes, ConsumedType
<1>b. ASSUME NEW d, call' = [call EXCEPT ![t] = d], d.o = call[t].o, d.kind = call[t].kind,
             \/ pc' = pc
             \/ \E l \in Reading : pc' = [pc EXCEPT ![t] = l],
             pc[t] \in Reading, UNCHANGED <<module_vars, obj>>
      PROVE  TaskEffect(t)
  <2>1. Others(t) /\ pc'[t] \in Reading /\ call'[t] = d
    BY <1>b DEF Others, TypeInv, TypeOK
  <2>2. Moves(t)
    BY <1>b, <2>1 DEF Moves
  <2> QED
    BY <1>b, <2>1, <2>2, SameObjects
<1>1. CASE ReadHeader(t)
  <2>1. CASE head[call[t].at].magic
    <3> DEFINE d == [call[t] EXCEPT !.next = head[call[t].at].next, !.left = head[call[t].at].length,
                                    !.it = call[t].at]
    <3>1. call' = [call EXCEPT ![t] = d] /\ pc' = [pc EXCEPT ![t] = "block"]
      BY <1>1, <2>1, Zenon DEF ReadHeader, Goto
    <3>2. d.o = call[t].o /\ d.kind = call[t].kind
      BY CallTypes, Zenon DEF Calls
    <3> HIDE DEF d
    <3> QED
      BY <1>1, <1>b, <3>1, <3>2 DEF ReadHeader, Reading
  <2>2. CASE ~head[call[t].at].magic
    BY <1>0, <1>1, <2>2, CallTypes, FailEffect DEF ReadHeader, Reading
  <2> QED
    BY <2>1, <2>2
<1> HIDE DEF c
<1>2. CASE ReadBlock(t)
  <2>1. CASE c.left > 0 /\ NextSector(c.it) \in Sector
    <3> DEFINE d == [c EXCEPT !.it = NextSector(@)]
    <3>1. d.o = c.o /\ d.kind = c.kind
      BY <1>a, Zenon DEF Calls
    <3>2. call' = [call EXCEPT ![t] = d] /\ pc' = pc
      BY <1>2, <2>1, Zenon DEF ReadBlock, c
    <3> HIDE DEF d
    <3> QED
      BY <1>2, <1>a, <1>b, <3>1, <3>2 DEF ReadBlock, Reading
  <2>2. CASE c.left > 0 /\ NextSector(c.it) \notin Sector
    <3>1. Return(t, c, EIO)
      BY <1>2, <2>2, Zenon DEF ReadBlock, c
    <3> QED
      BY <1>0, <1>2, <1>a, <3>1, CallTypes, FailEffect DEF ReadBlock, Reading
  <2>3. CASE ~(c.left > 0)
    <3> DEFINE d == [c EXCEPT !.left = 0, !.it = 0, !.next = 0,
                              !.at = IF c.n > 0 THEN c.next ELSE 0]
    <3>1. d.o = c.o /\ d.kind = c.kind
      BY <1>a, Zenon DEF Calls
    <3>2. call' = [call EXCEPT ![t] = d] /\ pc' = [pc EXCEPT ![t] = "extent"]
      BY <1>2, <2>3, Zenon DEF ReadBlock, c, Goto
    <3> HIDE DEF d
    <3> QED
      BY <1>2, <1>a, <1>b, <3>1, <3>2 DEF ReadBlock, Reading
  <2> QED
    BY <2>1, <2>2, <2>3
<1>3. CASE ReadDone(t)
  <2>1. /\ Others(t) /\ pc'[t] = "return" /\ call'[t].o = call[t].o
        /\ call'[t].kind = call[t].kind
    <3>1. call[t].done \in Int
      BY CallTypes DEF Calls
    <3> QED
      BY <1>3, <3>1, CallTypes, ReturnStep DEF ReadDone, TypeInv, TypeOK
  <2>2. /\ \A p \in Objects \ {call[t].o} : obj'[p] = obj[p]
        /\ \A p \in Objects : /\ obj'[p].life = obj[p].life /\ obj'[p].isdir = obj[p].isdir
                              /\ obj'[p].fresh = obj[p].fresh
        /\ obj'[call[t].o].lock = NoTask
    BY <1>3, CallTypes DEF ReadDone, TypeInv, TypeOK, ObjectFields
  <2>3. Moves(t)
    BY <1>3, <2>1, <2>2 DEF ReadDone, Moves, Locked, Reading
  <2> QED
    BY <1>3, <2>1, <2>2, <2>3 DEF ReadDone, TaskEffect, module_vars
<1>4. CASE ReadFails(t)
  BY <1>0, <1>4, CallTypes, FailEffect DEF ReadFails, Reading
<1>5. CASE ReadBlockFails(t)
  <2>1. Return(t, c, EIO)
    BY <1>5 DEF ReadBlockFails, c
  <2> QED
    BY <1>0, <1>5, <1>a, <2>1, CallTypes, FailEffect DEF ReadBlockFails, Reading
<1> QED
  BY <1>1, <1>2, <1>3, <1>4, <1>5 DEF ReadStep

\* What the first block of an extent leaves in the call.
LEMMA WriteHeadStep ==
    ASSUME TypeInv, NEW t \in Tasks, WriteHead(t), head[call[t].at].magic
    PROVE  LET room == BlockSize - HeaderSize
               c == call[t]
               copied == IF c.pos > room THEN 0 ELSE Least(c.n, room - c.pos)
           IN  /\ Others(t) /\ pc'[t] = "wblock"
               /\ call'[t].o = c.o /\ call'[t].kind = c.kind /\ call'[t].written = c.written
               /\ call'[t].at = c.at /\ call'[t].it = c.at + 1
               /\ call'[t].end = c.at + head[c.at].capacity
               /\ call'[t].pos = c.pos - Least(c.pos, room)
               /\ call'[t].res = copied /\ call'[t].n = c.n - copied
<1> DEFINE h == head[call[t].at]
           link == h.next = 0 /\ call[t].extra # 0
           room == BlockSize - HeaderSize
           e == call[t]
           c == [e EXCEPT !.next = IF link THEN e.extra ELSE h.next,
                          !.extra = IF link THEN 0 ELSE @,
                          !.dirty = link, !.left = h.length,
                          !.it = e.at + 1, !.end = e.at + h.capacity]
           w == DoWrite(c, room)
           d == [w EXCEPT !.res = Copy(c, room)]
<1>1. call' = [call EXCEPT ![t] = d] /\ pc' = [pc EXCEPT ![t] = "wblock"]
  BY Zenon DEF WriteHead, Goto
<1>2. /\ h.next \in Sector /\ h.length \in Nat /\ h.capacity \in Nat
      /\ e \in Calls /\ e.extra \in Sector /\ e.at \in Nat
  BY CallTypes DEF TypeInv, TypeOK, CallSectors, HeaderFields, Calls
<1>3. link \in BOOLEAN
  BY Zenon
<1>4. Sector \subseteq Nat /\ 0 \in Sector
  BY FileIOAssumption DEF Sector, LastSector
<1>5. room \in Nat
  BY FileIOAssumption
<1>6. /\ c \in Calls /\ c.o = e.o /\ c.kind = e.kind /\ c.written = e.written
      /\ c.at = e.at /\ c.it = e.at + 1 /\ c.end = e.at + h.capacity
      /\ c.pos = e.pos /\ c.n = e.n
  <2>1. c = [e EXCEPT !.next = IF link THEN e.extra ELSE h.next,
                      !.extra = IF link THEN 0 ELSE @,
                      !.dirty = link, !.left = h.length,
                      !.it = e.at + 1, !.end = e.at + h.capacity]
    OBVIOUS
  <2> HIDE DEF c, e, h, link
  <2>2. (IF link THEN e.extra ELSE h.next) \in Nat /\ (IF link THEN 0 ELSE e.extra) \in Nat
    BY <1>2, <1>4, Zenon
  <2>3. e.at + 1 \in Nat /\ e.at + h.capacity \in Nat
    BY <1>2
  <2> QED
    BY <1>2, <1>3, <2>1, <2>2, <2>3, Zenon DEF Calls
<1> HIDE DEF c
<1>7. /\ w \in Calls /\ w.o = c.o /\ w.kind = c.kind /\ w.written = c.written
      /\ w.at = c.at /\ w.it = c.it /\ w.end = c.end
      /\ w.pos = c.pos - Skip(c, room) /\ w.n = c.n - Copy(c, room)
  BY <1>5, <1>6, DoWriteType
<1> HIDE DEF w
<1>8. /\ d.o = w.o /\ d.kind = w.kind /\ d.written = w.written
      /\ d.at = w.at /\ d.it = w.it /\ d.end = w.end /\ d.pos = w.pos /\ d.n = w.n
      /\ d.res = Copy(c, room)
  BY <1>7, Zenon DEF Calls
<1>9. Others(t) /\ pc'[t] = "wblock" /\ call'[t] = d
  <2> HIDE DEF d
  <2> QED
    BY <1>1 DEF Others, TypeInv, TypeOK
<1> HIDE DEF d
<1> QED
  BY <1>6, <1>7, <1>8, <1>9 DEF Copy, Skip

\* What another block leaves in the call, when the position is reached.
LEMMA WriteBlockStep ==
    ASSUME TypeInv, NEW t \in Tasks, WriteBlock(t), call[t].pos < BlockSize, call[t].it \in Sector
    PROVE  LET c == call[t]
               copied == Least(c.n, BlockSize - c.pos)
           IN  /\ Others(t) /\ pc'[t] = "wblock"
               /\ call'[t].o = c.o /\ call'[t].kind = c.kind /\ call'[t].written = c.written
               /\ call'[t].at = c.at /\ call'[t].it = c.it + 1
               /\ call'[t].end = c.end /\ call'[t].pos = 0
               /\ call'[t].res = c.res /\ call'[t].n = c.n - copied
               /\ head' = [head EXCEPT ![c.it] = IF copied > 0 THEN NoHeader ELSE @]
<1> DEFINE c == call[t]
           w == DoWrite(c, BlockSize)
           d == [w EXCEPT !.it = @ + 1]
<1>1. c \in Calls /\ c.pos \in Nat /\ c.n \in Nat /\ BlockSize \in Nat
  BY CallTypes, FileIOAssumption DEF Calls
<1>2. ~(c.pos >= BlockSize) /\ ~(c.pos > BlockSize)
  BY <1>1
<1>3. /\ call' = [call EXCEPT ![t] = d] /\ pc' = pc
      /\ head' = [head EXCEPT ![c.it] = IF Copy(c, BlockSize) > 0 THEN NoHeader ELSE @]
  BY <1>2, Zenon DEF WriteBlock
<1>4. /\ w \in Calls /\ w.o = c.o /\ w.kind = c.kind /\ w.written = c.written
      /\ w.at = c.at /\ w.it = c.it /\ w.end = c.end /\ w.res = c.res
      /\ w.pos = c.pos - Skip(c, BlockSize) /\ w.n = c.n - Copy(c, BlockSize)
  BY <1>1, DoWriteType
<1> HIDE DEF w
<1>5. /\ d.o = w.o /\ d.kind = w.kind /\ d.written = w.written
      /\ d.at = w.at /\ d.it = w.it + 1 /\ d.end = w.end /\ d.pos = w.pos /\ d.n = w.n
      /\ d.res = w.res
  BY <1>4, Zenon DEF Calls
<1> HIDE DEF d
<1>6. Others(t) /\ pc'[t] = "wblock" /\ call'[t] = d
  BY <1>3 DEF WriteBlock, Others, TypeInv, TypeOK
<1>7. Copy(c, BlockSize) = Least(c.n, BlockSize - c.pos) /\ Skip(c, BlockSize) = c.pos
  BY <1>1, <1>2 DEF Copy, Skip, Least
<1> HIDE DEF c
<1>8. w.pos = 0
  BY <1>1, <1>4, <1>7
<1> QED
  BY <1>3, <1>4, <1>5, <1>6, <1>7, <1>8 DEF c

\* What spfs_file_extent_alloc leaves in the call and in the object.
LEMMA EnsureAllocStep ==
    ASSUME TypeInv, NEW t \in Tasks, EnsureAlloc(t)
    PROVE  LET o == call[t].o
               first == obj[o].start = 0
               run == RunOf(Needs(t))
           IN  /\ Others(t) /\ pc'[t] = "modify"
               /\ call'[t].o = o /\ call'[t].kind = call[t].kind
               /\ call'[t].written = call[t].written
               /\ call'[t].pos = call[t].pos /\ call'[t].n = call[t].n
               /\ call'[t].at = IF first THEN run ELSE call[t].at
               /\ \A p \in Objects \ {o} : obj'[p] = obj[p]
               /\ obj'[o].start = IF first THEN run ELSE obj[o].start
               /\ obj'[o].capacity = obj[o].capacity + DataBytes(Needs(t))
               /\ obj'[o].life = obj[o].life /\ obj'[o].isdir = obj[o].isdir
               /\ obj'[o].fresh = obj[o].fresh /\ obj'[o].size = obj[o].size
               /\ obj'[o].lock = obj[o].lock
<1> DEFINE o == call[t].o
           first == obj[o].start = 0
           run == RunOf(Needs(t))
           e == call[t]
           c == [e EXCEPT !.extra = IF first THEN 0 ELSE run, !.at = IF first THEN run ELSE @]
           f == obj[o]
           d == [f EXCEPT !.start = IF first THEN run ELSE @, !.capacity = @ + DataBytes(Needs(t))]
<1>1. call' = [call EXCEPT ![t] = c] /\ obj' = [obj EXCEPT ![o] = d]
  BY Zenon DEF EnsureAlloc
<1>2. e \in Calls /\ f \in ObjectFields /\ o \in Objects
  BY CallTypes
<1>3. pc' = [pc EXCEPT ![t] = "modify"]
  BY DEF EnsureAlloc, Goto
<1> HIDE DEF e, f, first, run
<1>4. /\ c.o = e.o /\ c.kind = e.kind /\ c.written = e.written /\ c.pos = e.pos /\ c.n = e.n
      /\ c.at = IF first THEN run ELSE e.at
  BY <1>2, Zenon DEF Calls
<1>5. /\ d.life = f.life /\ d.isdir = f.isdir /\ d.fresh = f.fresh /\ d.size = f.size
      /\ d.lock = f.lock /\ d.start = (IF first THEN run ELSE f.start)
      /\ d.capacity = f.capacity + DataBytes(Needs(t))
  BY <1>2, Zenon DEF ObjectFields
<1> HIDE DEF c, d, o
<1>6. /\ Others(t) /\ pc'[t] = "modify" /\ call'[t] = c /\ obj'[o] = d
      /\ \A p \in Objects \ {o} : obj'[p] = obj[p]
  BY <1>1, <1>2, <1>3 DEF Others, TypeInv, TypeOK
<1> QED
  BY <1>4, <1>5, <1>6, Zenon DEF o, e, f, first, run

\* spfs_ensure_capacity and the loops of spfs_write
LEMMA WriteEffect ==
    ASSUME TypeInv, NEW t \in Tasks,
           WriteStep(t) \/ WriteFails(t) \/ EnsureNoBuffer(t) \/ ModifyBug(t)
    PROVE  TaskEffect(t)
<1>0. EIO # 0 /\ EIO < 0
  BY DEF EIO
<1>a. ASSUME Others(t), pc[t] \in WritePath, pc'[t] \in WritePath \ {"ensure"},
             UNCHANGED <<module_vars, obj>>,
             call'[t].o = call[t].o, call'[t].kind = call[t].kind
      PROVE  TaskEffect(t)
  BY <1>a, SameObjects DEF Moves
<1>b. ASSUME NEW l \in {"dead", "bug"}, Dies(t, l), pc[t] \in WritePath,
             l = "bug" => pc[t] = "whead" /\ call[t].at = 0,
             UNCHANGED <<module_vars, obj>>
      PROVE  TaskEffect(t)
  <2>1. l \in Labels
    BY DEF Labels
  <2>2. Others(t) /\ pc'[t] = l /\ call'[t] = NoCall(call[t].o)
    BY <1>b, <2>1, DiesStep DEF TypeInv, TypeOK
  <2>3. call'[t].o = call[t].o
    BY <2>2 DEF NoCall
  <2>4. Moves(t)
    BY <1>b, <2>2 DEF Moves
  <2> QED
    BY <1>b, <2>2, <2>3, <2>4, SameObjects
<1>1. CASE EnsureNothing(t)
  <2>1. Others(t) /\ pc'[t] = "whead" /\ call' = call
    BY <1>1 DEF EnsureNothing, Goto, Others, TypeInv, TypeOK
  <2> QED
    BY <1>1, <1>a, <2>1 DEF EnsureNothing, WritePath
<1>2. CASE EnsureAlloc(t)
  <2>1. pc[t] = "ensure" /\ UNCHANGED <<module, mounted>>
    BY <1>2 DEF EnsureAlloc, module_vars
  <2>2. /\ Others(t) /\ pc'[t] = "modify" /\ call'[t].o = call[t].o
        /\ call'[t].kind = call[t].kind
        /\ \A p \in Objects \ {call[t].o} : obj'[p] = obj[p]
        /\ obj'[call[t].o].life = obj[call[t].o].life
        /\ obj'[call[t].o].isdir = obj[call[t].o].isdir
        /\ obj'[call[t].o].fresh = obj[call[t].o].fresh
        /\ obj'[call[t].o].lock = obj[call[t].o].lock
    BY <1>2, EnsureAllocStep
  <2>3. Moves(t)
    BY <2>1, <2>2 DEF Moves, WritePath
  <2>4. \A p \in Objects : /\ obj'[p].life = obj[p].life /\ obj'[p].isdir = obj[p].isdir
                           /\ obj'[p].fresh = obj[p].fresh
    BY <2>2
  <2> QED
    BY <2>1, <2>2, <2>3, <2>4, Zenon DEF TaskEffect
<1>3. CASE EnsureNoSpace(t)
  BY <1>0, <1>3, CallTypes, FailEffect DEF EnsureNoSpace, WritePath
<1>4. CASE EnsureNoBuffer(t)
  BY <1>4, <1>b DEF EnsureNoBuffer, WritePath
<1>5. CASE Modify(t)
  <2>1. PICK r \in ModifyResults :
          IF r = 0 THEN Goto(t, "whead") /\ UNCHANGED call ELSE Return(t, call[t], r)
    BY <1>5 DEF Modify
  <2>2. CASE r = 0
    <3>1. Others(t) /\ pc'[t] = "whead" /\ call' = call
      BY <2>1, <2>2 DEF Goto, Others, TypeInv, TypeOK
    <3> QED
      BY <1>5, <1>a, <3>1 DEF Modify, WritePath
  <2>3. CASE r # 0
    <3>1. r \in Int
      BY FileIOAssumption
    <3> QED
      BY <1>5, <2>1, <2>3, <3>1, CallTypes, FailEffect DEF Modify, WritePath
  <2> QED
    BY <2>2, <2>3
<1>6. CASE ModifyBug(t)
  BY <1>6, <1>b DEF ModifyBug, WritePath
<1>7. CASE WriteHead(t)
  <2>1. CASE head[call[t].at].magic
    <3>1. /\ Others(t) /\ pc'[t] = "wblock" /\ call'[t].o = call[t].o
          /\ call'[t].kind = call[t].kind
      BY <1>7, <2>1, WriteHeadStep
    <3> QED
      BY <1>7, <1>a, <3>1 DEF WriteHead, WritePath
  <2>2. CASE ~head[call[t].at].magic
    BY <1>0, <1>7, <2>2, CallTypes, FailEffect DEF WriteHead, WritePath
  <2> QED
    BY <2>1, <2>2
<1>8. CASE WriteBlock(t)
  <2>0. call[t].pos \in Nat /\ BlockSize \in Nat
    BY CallTypes, FileIOAssumption DEF Calls
  <2>1. CASE call[t].pos >= BlockSize
    <3> DEFINE d == [call[t] EXCEPT !.pos = @ - BlockSize, !.it = @ + 1]
    <3>1. ~(call[t].pos < BlockSize /\ call[t].it \in Sector)
      BY <2>0, <2>1
    <3>2. call' = [call EXCEPT ![t] = d] /\ pc' = pc
      BY <1>8, <2>1, <3>1, Zenon DEF WriteBlock
    <3>3. d.o = call[t].o /\ d.kind = call[t].kind
      BY CallTypes, Zenon DEF Calls
    <3> HIDE DEF d
    <3>4. Others(t) /\ call'[t] = d /\ pc'[t] = "wblock"
      BY <1>8, <3>2 DEF WriteBlock, Others, TypeInv, TypeOK
    <3> QED
      BY <1>8, <1>a, <3>3, <3>4 DEF WriteBlock, WritePath
  <2>2. CASE call[t].pos < BlockSize /\ call[t].it \in Sector
    <3>1. /\ Others(t) /\ pc'[t] = "wblock" /\ call'[t].o = call[t].o
          /\ call'[t].kind = call[t].kind
      BY <1>8, <2>2, WriteBlockStep
    <3> QED
      BY <1>8, <1>a, <3>1 DEF WriteBlock, WritePath
  <2>3. CASE call[t].pos < BlockSize /\ call[t].it \notin Sector
    <3>1. ~(call[t].pos >= BlockSize)
      BY <2>0, <2>3
    <3>2. Return(t, call[t], EIO)
      BY <1>8, <2>3, <3>1, Zenon DEF WriteBlock
    <3> QED
      BY <1>0, <1>8, <3>2, CallTypes, FailEffect DEF WriteBlock, WritePath
  <2> QED
    BY <2>0, <2>1, <2>2, <2>3
<1>9. CASE WriteFails(t)
  BY <1>0, <1>9, CallTypes, FailEffect DEF WriteFails, WritePath
<1>10. CASE WriteEnd(t)
  <2>1. CASE call[t].res # 0
    <3>1. Return(t, call[t], EIO)
      BY <1>10, <2>1 DEF WriteEnd
    <3> QED
      BY <1>0, <1>10, <3>1, CallTypes, FailEffect DEF WriteEnd, WritePath
  <2>2. CASE call[t].res = 0
    <3> DEFINE c == call[t]
               d == [c EXCEPT !.written = @ + c.res, !.at = IF c.n > 0 THEN c.next ELSE 0]
    <3>1. call' = [call EXCEPT ![t] = d] /\ pc' = [pc EXCEPT ![t] = "whead"]
      BY <1>10, <2>2, Zenon DEF WriteEnd, Goto
    <3>2. d.o = c.o /\ d.kind = c.kind
      BY CallTypes, Zenon DEF Calls
    <3> HIDE DEF d
    <3>3. Others(t) /\ call'[t] = d /\ pc'[t] = "whead"
      BY <3>1 DEF Others, TypeInv, TypeOK
    <3> QED
      BY <1>10, <1>a, <3>2, <3>3 DEF WriteEnd, WritePath
  <2> QED
    BY <2>1, <2>2
<1>11. CASE WriteDone(t)
  <2>1. CASE call[t].extra # 0 \/ call[t].n # 0
    BY <1>11, <1>b, <2>1 DEF WriteDone, WritePath
  <2>2. CASE ~(call[t].extra # 0 \/ call[t].n # 0)
    <3>1. call[t].written \in Int
      BY CallTypes DEF Calls
    <3>2. /\ Others(t) /\ pc'[t] = "return" /\ call'[t].o = call[t].o
          /\ call'[t].kind = call[t].kind
      BY <1>11, <2>2, <3>1, CallTypes, ReturnStep DEF WriteDone, TypeInv, TypeOK
    <3>3. /\ \A p \in Objects \ {call[t].o} : obj'[p] = obj[p]
          /\ \A p \in Objects : /\ obj'[p].life = obj[p].life /\ obj'[p].isdir = obj[p].isdir
                                /\ obj'[p].fresh = obj[p].fresh
          /\ obj'[call[t].o].lock = NoTask
      BY <1>11, <2>2, CallTypes DEF WriteDone, TypeInv, TypeOK, ObjectFields
    <3>4. Moves(t)
      BY <1>11, <3>2, <3>3 DEF WriteDone, Moves, Locked, WritePath
    <3> QED
      BY <1>11, <3>2, <3>3, <3>4 DEF WriteDone, TaskEffect, module_vars
  <2> QED
    BY <2>1, <2>2
<1> QED
  BY <1>1, <1>2, <1>3, <1>4, <1>5, <1>6, <1>7, <1>8, <1>9, <1>10, <1>11 DEF WriteStep

\* What spfs_add_child leaves in the object and in the call.
LEMMA AddObject ==
    ASSUME TypeInv, NEW t \in Tasks, AddStep(t)
    PROVE  /\ Others(t) /\ pc[t] = "add" /\ call'[t].o = call[t].o
           /\ \/ /\ pc'[t] = "return" /\ call'[t].kind = call[t].kind
                 /\ obj'[call[t].o].lock = NoTask
              \/ pc'[t] = "dead" /\ obj'[call[t].o].lock = obj[call[t].o].lock
           /\ \A p \in Objects \ {call[t].o} : obj'[p] = obj[p]
           /\ \A p \in Objects : /\ obj'[p].life = obj[p].life /\ obj'[p].isdir = obj[p].isdir
                                 /\ obj'[p].fresh = obj[p].fresh /\ obj'[p].size = obj[p].size
           /\ UNCHANGED module_vars
<1>1. pc[t] = "add" /\ UNCHANGED module_vars
  BY DEF AddStep, AddFirst, AddMore, AddBug, AddFails
<1>2. AddBug(t) \/ \E v \in Int : Return(t, call[t], v)
  <2>1. CASE AddFirst(t) \/ AddMore(t)
    <3>1. Return(t, call[t], 0)
      BY <2>1, Zenon DEF AddFirst, AddMore
    <3>2. 0 \in Int
      OBVIOUS
    <3> QED
      BY <3>1, <3>2, Zenon
  <2>2. CASE AddFails(t)
    BY <2>2, CallTypes DEF AddFails
  <2> QED
    BY <2>1, <2>2 DEF AddStep
<1>3. \/ /\ Others(t) /\ pc'[t] = "return"
         /\ call'[t].o = call[t].o /\ call'[t].kind = call[t].kind
      \/ AddBug(t) /\ Others(t) /\ pc'[t] = "dead" /\ call'[t].o = call[t].o
  <2>1. CASE AddBug(t)
    <3>1. Dies(t, "dead") /\ "dead" \in Labels
      BY <2>1 DEF AddBug, Labels
    <3>2. Others(t) /\ pc'[t] = "dead" /\ call'[t] = NoCall(call[t].o)
      BY <3>1, DiesStep DEF TypeInv, TypeOK
    <3> QED
      BY <2>1, <3>2 DEF NoCall
  <2>2. ASSUME NEW v \in Int, Return(t, call[t], v)
        PROVE  /\ Others(t) /\ pc'[t] = "return"
               /\ call'[t].o = call[t].o /\ call'[t].kind = call[t].kind
    BY <2>2, CallTypes, ReturnStep DEF TypeInv, TypeOK
  <2> QED
    BY <1>2, <2>1, <2>2
<1>4. /\ \A p \in Objects \ {call[t].o} : obj'[p] = obj[p]
      /\ \A p \in Objects : /\ obj'[p].life = obj[p].life /\ obj'[p].isdir = obj[p].isdir
                            /\ obj'[p].fresh = obj[p].fresh /\ obj'[p].size = obj[p].size
      /\ obj'[call[t].o].lock = IF AddBug(t) THEN obj[call[t].o].lock ELSE NoTask
  <2>0. AddBug(t) => ~AddFirst(t) /\ ~AddMore(t)
    BY DEF AddBug, AddFirst, AddMore
  <2>1. CASE AddFirst(t)
    BY <2>0, <2>1, CallTypes DEF AddFirst, TypeInv, TypeOK, ObjectFields
  <2>2. CASE AddMore(t)
    BY <2>0, <2>2, CallTypes DEF AddMore, TypeInv, TypeOK, ObjectFields
  <2>3. CASE AddFails(t)
    <3>1. ~AddBug(t)
      BY <2>3, CallTypes DEF AddFails, AddBug, Return, Dies, Goto, TypeInv, TypeOK
    <3> QED
      BY <2>3, <3>1, CallTypes DEF AddFails, TypeInv, TypeOK, ObjectFields
  <2>4. CASE AddBug(t)
    BY <2>4, CallTypes DEF AddBug, TypeInv, TypeOK, ObjectFields
  <2> QED
    BY <2>1, <2>2, <2>3, <2>4 DEF AddStep
<1>5. pc'[t] = "return" => ~AddBug(t)
  BY <1>1 DEF AddBug, Dies, Goto, TypeInv, TypeOK
<1> QED
  BY <1>1, <1>3, <1>4, <1>5

\* Every step of a task inside a call follows the control flow and the locks.
LEMMA TaskEffects ==
    ASSUME TypeInv, NEW t \in Tasks, Step(t) \/ Fault(t)
    PROVE  TaskEffect(t)
<1>1. CASE AddStep(t)
  <2>1. Moves(t)
    BY <1>1, AddObject DEF Moves, Locked
  <2> QED
    BY <1>1, <2>1, AddObject DEF TaskEffect, module_vars
<1> QED
  BY <1>1, CallEffect, ReadEffect, WriteEffect, Zenon DEF Step, Fault

\* A call begins on a live object.
LEMMA BeginStep ==
    ASSUME TypeInv, NEW t \in Tasks, NEW o \in Objects, BeginCall(t, o)
    PROVE  /\ Others(t) /\ pc[t] = "idle" /\ pc'[t] = "lock"
           /\ call'[t].o = o /\ call'[t].written = 0
           /\ call'[t].kind \in {"read", "write", "add"}
           /\ call'[t].kind = "write" => call'[t].n >= 1
           /\ obj[o].life = "live" /\ (obj[o].isdir <=> call'[t].kind = "add")
           /\ UNCHANGED <<module_vars, free, head, pages, obj, tree_lock>>
<1>1. PICK k \in {"read", "write", "add"}, n \in Nat, p \in Nat :
         Begin(t, k, o, n, p) /\ (k = "write" => n >= 1)
  BY FileIOAssumption DEF BeginCall
<1> DEFINE c == [NoCall(o) EXCEPT !.kind = k, !.n = n, !.pos = p]
<1>2. c.o = o /\ c.written = 0 /\ c.kind = k /\ c.n = n
  BY Zenon DEF NoCall
<1>3. call' = [call EXCEPT ![t] = c] /\ pc' = [pc EXCEPT ![t] = "lock"]
  BY <1>1 DEF Begin, Goto
<1> HIDE DEF c
<1>4. Others(t) /\ pc'[t] = "lock" /\ call'[t] = c
  BY <1>3 DEF Others, TypeInv, TypeOK
<1>5. /\ pc[t] = "idle" /\ obj[o].life = "live" /\ (obj[o].isdir <=> k = "add")
      /\ UNCHANGED <<module_vars, free, head, pages, obj, tree_lock>>
  BY <1>1 DEF Begin
<1> QED
  BY <1>1, <1>2, <1>4, <1>5

\* A call that holds inode->lock is not disturbed by the steps of other tasks.
LEMMA Undisturbed ==
    ASSUME TypeInv, Busy, NEW t \in Tasks, Step(t) \/ Fault(t),
           NEW u \in Tasks, u # t, pc[u] \in Locked
    PROVE  pc'[u] = pc[u] /\ call'[u] = call[u] /\ obj'[call[u].o] = obj[call[u].o]
<1>0. u # NoTask /\ call[u].o \in Objects
  BY CallTypes, FileIOAssumption
<1>1. TaskEffect(t)
  BY TaskEffects
<1>2. pc'[u] = pc[u] /\ call'[u] = call[u]
  BY <1>1 DEF TaskEffect, Others
<1>3. obj[call[u].o].lock = u
  BY DEF Busy, Locked, Reading, WritePath
<1>4. CASE call[u].o # call[t].o
  BY <1>0, <1>1, <1>2, <1>4 DEF TaskEffect
<1>5. CASE call[u].o = call[t].o
  <2>1. pc[t] \notin Locked
    BY <1>3, <1>5 DEF Busy, Locked, Reading, WritePath
  <2>2. obj' = obj
    BY <1>0, <1>1, <1>3, <1>5, <2>1 DEF TaskEffect, Moves, FailsLocked, Locked
  <2> QED
    BY <1>2, <2>2
<1> QED
  BY <1>4, <1>5

\* No inode is live without a mount or freed without a slab, and every call works
\* on a live inode whose lock it holds.
LEMMA NextBusy ==
    ASSUME TypeInv, Lives, Busy, [Next]_vars
    PROVE  Lives' /\ Busy'
<1>0. \A t \in Tasks : t # NoTask /\ call[t].o \in Objects
  BY CallTypes, FileIOAssumption
<1>1. CASE SystemStep
  <2>1. Lives' /\ SystemEffect
    BY <1>1, SystemObjects
  <2>2. Busy'
    BY <2>1 DEF SystemEffect, Busy
  <2> QED
    BY <2>1, <2>2
<1>2. ASSUME NEW t \in Tasks, Step(t) \/ Fault(t)
      PROVE  Lives' /\ Busy'
  <2>1. TaskEffect(t)
    BY <1>2, TaskEffects
  <2>2. Lives'
    BY <2>1 DEF TaskEffect, Lives, SlabOutlivesCallbacks
  <2>3. ASSUME NEW u \in Tasks, u # t, pc[u] \in Locked
        PROVE  obj'[call[u].o].lock = u
    <3>1. obj[call[u].o].lock = u
      BY <2>3 DEF Busy, Locked, Reading, WritePath
    <3> QED
      BY <1>2, <2>3, <3>1, Undisturbed
  <2>4. \A u \in Tasks \ {t} : pc'[u] = pc[u] /\ call'[u] = call[u]
    BY <2>1 DEF TaskEffect, Others
  <2>5. ASSUME NEW u \in Tasks, u # t, pc'[u] # "idle"
        PROVE  /\ obj'[call'[u].o].life = "live"
               /\ pc'[u] \in Locked \cup {"lock"} => (obj'[call'[u].o].isdir <=> call'[u].kind = "add")
               /\ pc'[u] \in Locked => obj'[call'[u].o].lock = u
               /\ pc'[u] \in Reading => call'[u].kind = "read"
               /\ pc'[u] \in WritePath => call'[u].kind = "write"
               /\ pc'[u] = "add" => call'[u].kind = "add"
               /\ pc'[u] = "lock" => call'[u].kind \in {"read", "write", "add"}
    BY <1>0, <2>1, <2>3, <2>4, <2>5 DEF TaskEffect, Busy
  <2>6. ASSUME pc'[t] # "idle"
        PROVE  /\ obj'[call'[t].o].life = "live"
               /\ pc'[t] \in Locked \cup {"lock"} => (obj'[call'[t].o].isdir <=> call'[t].kind = "add")
               /\ pc'[t] \in Locked => obj'[call'[t].o].lock = t
               /\ pc'[t] \in Reading => call'[t].kind = "read"
               /\ pc'[t] \in WritePath => call'[t].kind = "write"
               /\ pc'[t] = "add" => call'[t].kind = "add"
               /\ pc'[t] = "lock" => call'[t].kind \in {"read", "write", "add"}
    <3>1. call'[t].o = call[t].o
      BY <2>1, <2>6 DEF TaskEffect
    <3>2. pc[t] # "idle"
      BY <2>1, <2>6 DEF TaskEffect, Moves, FailsLocked, Reading, WritePath, Locked
    <3>3. obj'[call'[t].o].life = "live" /\ obj'[call[t].o].isdir = obj[call[t].o].isdir
      BY <1>0, <2>1, <3>1, <3>2 DEF TaskEffect, Busy
    <3>4. CASE pc[t] = "lock"
      <4>1. CASE pc'[t] = "return"
        BY <3>3, <4>1 DEF Locked, Reading, WritePath
      <4>2. CASE pc'[t] # "return"
        <5>1. /\ pc'[t] = AfterLock[call[t].kind] /\ obj' = [obj EXCEPT ![call[t].o].lock = t]
              /\ call[t].kind \in {"read", "write", "add"}
          BY <2>1, <3>4, <4>2 DEF TaskEffect, Moves, FailsLocked, Locked, Reading, WritePath, Busy
        <5>2. obj'[call[t].o].lock = t
          BY <1>0, <5>1 DEF TypeInv, TypeOK, ObjectFields
        <5>3. \/ call[t].kind = "read" /\ pc'[t] = "extent"
              \/ call[t].kind = "write" /\ pc'[t] = "ensure"
              \/ call[t].kind = "add" /\ pc'[t] = "add"
          BY <5>1 DEF AfterLock
        <5>4. call'[t].kind = call[t].kind
          BY <2>1, <5>3 DEF TaskEffect
        <5> QED
          BY <3>1, <3>2, <3>3, <3>4, <5>2, <5>3, <5>4 DEF Busy, Locked, Reading, WritePath
      <4> QED
        BY <4>1, <4>2
    <3>5. CASE pc[t] # "lock"
      <4>1. \/ pc[t] \in Reading /\ pc'[t] \in Reading /\ obj' = obj
            \/ pc[t] \in WritePath /\ pc'[t] \in WritePath /\ obj'[call[t].o].lock = obj[call[t].o].lock
            \/ pc'[t] \in {"dead", "bug", "return"}
        BY <2>1, <2>6, <3>5 DEF TaskEffect, Moves, FailsLocked
      <4>2. CASE pc'[t] \in {"dead", "bug", "return"}
        BY <3>3, <4>2 DEF Locked, Reading, WritePath
      <4>3. CASE pc[t] \in Reading \cup WritePath /\ pc'[t] \notin {"dead", "bug", "return"}
        <5>1. call'[t].kind = call[t].kind
          BY <2>1, <2>6, <4>3 DEF TaskEffect
        <5>2. /\ obj[call[t].o].lock = t /\ (obj[call[t].o].isdir <=> call[t].kind = "add")
              /\ pc[t] \in Reading => call[t].kind = "read"
              /\ pc[t] \in WritePath => call[t].kind = "write"
          BY <3>2, <4>3 DEF Busy, Locked, Reading, WritePath
        <5> QED
          BY <3>1, <3>3, <4>1, <4>3, <5>1, <5>2 DEF Locked, Reading, WritePath
      <4> QED
        BY <4>1, <4>2, <4>3
    <3> QED
      BY <3>4, <3>5
  <2>7. Busy'
    BY <2>5, <2>6 DEF Busy
  <2> QED
    BY <2>2, <2>7
<1>3. ASSUME NEW t \in Tasks, NEW o \in Objects, BeginCall(t, o)
      PROVE  Lives' /\ Busy'
  <2>1. /\ Others(t) /\ pc[t] = "idle" /\ pc'[t] = "lock" /\ call'[t].o = o
        /\ call'[t].kind \in {"read", "write", "add"}
        /\ obj[o].life = "live" /\ (obj[o].isdir <=> call'[t].kind = "add")
        /\ UNCHANGED <<module, mounted, obj>>
    BY <1>3, BeginStep DEF module_vars
  <2>2. Lives'
    BY <2>1 DEF Lives, SlabOutlivesCallbacks
  <2>3. Busy'
    BY <2>1 DEF Busy, Others, Locked, Reading, WritePath
  <2> QED
    BY <2>2, <2>3
<1>4. CASE UNCHANGED vars
  BY <1>4 DEF vars, module_vars, task_vars, Lives, SlabOutlivesCallbacks, Busy
<1> QED
  BY <1>1, <1>2, <1>3, <1>4, NextSplit

-----------------------------------------------------------------------------
(* A write never comes to a second extent *)

\* A file that needs no more blocks has room for what is to be written.
LEMMA NeedsNothing ==
    ASSUME TypeInv, NEW t \in Tasks, Needs(t) = 0
    PROVE  call[t].pos + call[t].n <= obj[call[t].o].capacity
<1> DEFINE x == call[t].pos + call[t].n - obj[call[t].o].capacity + HeaderSize
<1>1. /\ obj[call[t].o].capacity \in Nat /\ call[t].pos \in Nat /\ call[t].n \in Nat
      /\ HeaderSize \in Nat
  BY FileIOAssumption DEF TypeInv, TypeOK, Calls, ObjectFields
<1>2. ~(call[t].pos + call[t].n <= obj[call[t].o].capacity) => x \in Nat /\ x > 0
  BY <1>1
<1> QED
  BY <1>1, <1>2, BlocksForType DEF Needs, ExtraBlocks

\* The facts about a write hold again after each of its steps.
LEMMA WriterKeepsFacts ==
    ASSUME TypeInv, TypeInv', Lives, Busy, WriteFacts, NEW t \in Tasks, Step(t) \/ Fault(t)
    PROVE  WriteFact(t)' /\ obj'[call[t].o].size = 0
<1> DEFINE o == call[t].o
<1>0. /\ o \in Objects /\ obj[o].size = 0 /\ obj[o].start \in Nat /\ obj[o].capacity \in Nat
      /\ call[t].n \in Nat /\ call[t].pos \in Nat /\ call[t].at \in Nat
  <2>1. call[t].n \in Nat /\ call[t].pos \in Nat /\ call[t].at \in Nat
    BY CallTypes DEF Calls
  <2>2. o \in Objects /\ obj[o].start \in Sector /\ obj[o].capacity \in Nat
    BY CallTypes DEF ObjectFields
  <2>3. Sector \subseteq Nat
    BY FileIOAssumption DEF Sector, LastSector
  <2> QED
    BY <2>1, <2>2, <2>3 DEF WriteFacts
<1>w. WriteFact(t)
  BY DEF WriteFacts
<1>a. ASSUME pc'[t] \in {"idle", "return", "dead", "bug", "add"} \cup Reading
      PROVE  WriteFact(t)'
  BY <1>a DEF WriteFact, WritePath, Reading
<1>b. ASSUME NEW v \in Int, Return(t, call[t], v)
      PROVE  pc'[t] = "return"
  BY <1>b, CallTypes, ReturnStep DEF TypeInv, TypeOK
<1>c. ASSUME NEW l \in {"dead", "bug"}, Dies(t, l)
      PROVE  pc'[t] = l
  BY <1>c DEF Dies, Goto, TypeInv, TypeOK
<1>d. EIO \in Int
  BY DEF EIO
<1>1. CASE LockInode(t)
  <2>1. obj'[o].size = 0 /\ obj'[o].start = obj[o].start
    BY <1>0, <1>1 DEF LockInode, TypeInv, TypeOK, ObjectFields
  <2>2. /\ call'[t].o = o /\ call'[t].at = obj[o].start /\ call'[t].n = call[t].n
        /\ call'[t].written = call[t].written
        /\ call'[t].pos = IF call[t].kind = "write" /\ call[t].pos > obj[o].size
                          THEN obj[o].size ELSE call[t].pos
    <3> DEFINE c == [call[t] EXCEPT !.at = obj[o].start,
                                    !.pos = IF call[t].kind = "write" /\ @ > obj[o].size
                                            THEN obj[o].size ELSE @]
    <3>1. call' = [call EXCEPT ![t] = c]
      BY <1>1, Zenon DEF LockInode
    <3>2. /\ c.o = o /\ c.at = obj[o].start /\ c.n = call[t].n /\ c.written = call[t].written
          /\ c.pos = IF call[t].kind = "write" /\ call[t].pos > obj[o].size
                     THEN obj[o].size ELSE call[t].pos
      BY CallTypes, Zenon DEF Calls
    <3>3. call'[t] = c
      BY <3>1, Zenon DEF TypeInv, TypeOK
    <3> HIDE DEF c
    <3> QED
      BY <3>2, <3>3
  <2>3. \/ call[t].kind = "write" /\ pc'[t] = "ensure"
        \/ pc'[t] \in {"extent", "add"}
    <3>1. call[t].kind \in {"read", "write", "add"}
      BY <1>1 DEF LockInode, Busy
    <3>2. pc'[t] = AfterLock[call[t].kind]
      BY <1>1 DEF LockInode, Goto, TypeInv, TypeOK
    <3> QED
      BY <3>1, <3>2 DEF AfterLock
  <2>4. CASE pc'[t] \in {"extent", "add"}
    BY <1>a, <2>1, <2>4 DEF Reading
  <2>5. CASE call[t].kind = "write" /\ pc'[t] = "ensure"
    <3>1. call[t].written = 0 /\ call[t].n >= 1
      BY <1>1, <1>w, <2>5 DEF LockInode, WriteFact
    <3>2. call'[t].pos = 0
      BY <1>0, <2>2, <2>5
    <3> QED
      BY <2>1, <2>2, <2>5, <3>1, <3>2 DEF WriteFact
  <2> QED
    BY <2>3, <2>4, <2>5
<1>2. CASE Interrupted(t)
  BY <1>0, <1>2, <1>a, <1>b DEF Interrupted, EINTR
<1>3. CASE Returned(t)
  BY <1>0, <1>3, <1>a DEF Returned, Goto, TypeInv, TypeOK
<1>4. CASE ReadStep(t) \/ ReadFails(t) \/ ReadBlockFails(t)
  <2>1. TaskEffect(t) /\ pc[t] \in Reading
    BY <1>4, ReadEffect
    DEF ReadStep, ReadHeader, ReadBlock, ReadDone, ReadFails, ReadBlockFails, Reading
  <2>2. pc'[t] \in Reading \cup {"return"}
    BY <2>1 DEF TaskEffect, Moves, FailsLocked, Reading, WritePath
  <2>3. obj'[o].size = obj[o].size
    <3>1. CASE ReadDone(t)
      BY <1>0, <3>1 DEF ReadDone, TypeInv, TypeOK, ObjectFields
    <3>2. CASE ~ReadDone(t)
      BY <1>4, <3>2 DEF ReadStep, ReadHeader, ReadBlock, ReadFails, ReadBlockFails
    <3> QED
      BY <3>1, <3>2
  <2> QED
    BY <1>0, <1>a, <2>2, <2>3
<1>5. CASE AddStep(t)
  BY <1>0, <1>5, <1>a, AddObject
<1>6. CASE EnsureNothing(t)
  <2>1. pc'[t] = "whead" /\ call' = call /\ obj' = obj /\ pc[t] = "ensure" /\ Needs(t) = 0
    BY <1>6 DEF EnsureNothing, Goto, TypeInv, TypeOK
  <2>2. call[t].pos + call[t].n <= obj[o].capacity
    BY <2>1, NeedsNothing
  <2>3. call[t].written = 0 /\ call[t].pos = 0 /\ call[t].n >= 1 /\ call[t].at = obj[o].start
    BY <1>w, <2>1 DEF WriteFact, WritePath
  <2> QED
    BY <1>0, <2>1, <2>2, <2>3 DEF WriteFact
<1>7. CASE EnsureAlloc(t)
  <2>1. pc[t] = "ensure"
    BY <1>7 DEF EnsureAlloc
  <2>2. /\ pc'[t] = "modify" /\ call'[t].o = o /\ call'[t].written = call[t].written
        /\ call'[t].pos = call[t].pos /\ call'[t].n = call[t].n
        /\ call'[t].at = IF obj[o].start = 0 THEN RunOf(Needs(t)) ELSE call[t].at
        /\ obj'[o].start = IF obj[o].start = 0 THEN RunOf(Needs(t)) ELSE obj[o].start
        /\ obj'[o].capacity = obj[o].capacity + DataBytes(Needs(t))
        /\ obj'[o].size = obj[o].size
    BY <1>7, EnsureAllocStep
  <2>3. DataBytes(Needs(t)) \in Nat /\ DataBytes(Needs(t)) >= 1
    BY <1>7, NeedsType, DataBytesType DEF EnsureAlloc
  <2>4. call[t].written = 0 /\ call[t].pos = 0 /\ call[t].n >= 1 /\ call[t].at = obj[o].start
    BY <1>w, <2>1 DEF WriteFact, WritePath
  <2> QED
    BY <1>0, <2>2, <2>3, <2>4 DEF WriteFact
<1>8. CASE EnsureNoSpace(t)
  BY <1>0, <1>8, <1>a, <1>b, <1>d DEF EnsureNoSpace
<1>9. CASE EnsureNoBuffer(t)
  BY <1>0, <1>9, <1>a, <1>c DEF EnsureNoBuffer
<1>10. CASE Modify(t)
  <2>1. PICK r \in ModifyResults :
          IF r = 0 THEN Goto(t, "whead") /\ UNCHANGED call ELSE Return(t, call[t], r)
    BY <1>10 DEF Modify
  <2>2. r \in Int /\ obj' = obj /\ pc[t] = "modify"
    BY <1>10, FileIOAssumption DEF Modify
  <2>3. CASE r = 0
    <3>1. pc'[t] = "whead" /\ call' = call
      BY <2>1, <2>3 DEF Goto, TypeInv, TypeOK
    <3> QED
      BY <1>0, <1>w, <2>2, <3>1 DEF WriteFact, WritePath
  <2>4. CASE r # 0
    BY <1>0, <1>a, <1>b, <2>1, <2>2, <2>4
  <2> QED
    BY <2>3, <2>4
<1>11. CASE ModifyBug(t)
  BY <1>0, <1>11, <1>a, <1>c DEF ModifyBug
<1>12. CASE WriteHead(t)
  <2>1. obj' = obj /\ pc[t] = "whead" /\ call[t].at # 0
    BY <1>12 DEF WriteHead
  <2>2. CASE head[call[t].at].magic
    <3>1. call[t].written = 0 /\ call[t].pos = 0 /\ call[t].n >= 1
      BY <1>w, <2>1 DEF WriteFact, WritePath
    <3> DEFINE room == BlockSize - HeaderSize
    <3>2. /\ pc'[t] = "wblock" /\ call'[t].o = o /\ call'[t].written = call[t].written
          /\ call'[t].at = call[t].at
          /\ call'[t].pos = call[t].pos - Least(call[t].pos, room)
          /\ call'[t].res = IF call[t].pos > room THEN 0 ELSE Least(call[t].n, room - call[t].pos)
      BY <1>12, <2>2, WriteHeadStep
    <3>3. room \in Nat /\ room >= 1
      BY FileIOAssumption
    <3> HIDE DEF room
    <3>4. call'[t].pos = 0 /\ call'[t].res >= 1
      <4>1. Least(0, room) = 0 /\ Least(call[t].n, room - 0) >= 1 /\ ~(0 > room)
        BY <1>0, <3>1, <3>3 DEF Least
      <4> QED
        BY <3>1, <3>2, <4>1
    <3> QED
      BY <1>0, <2>1, <3>1, <3>2, <3>4 DEF WriteFact
  <2>3. CASE ~head[call[t].at].magic
    BY <1>0, <1>12, <1>a, <1>b, <1>d, <2>1, <2>3 DEF WriteHead
  <2> QED
    BY <2>2, <2>3
<1>13. CASE WriteBlock(t)
  <2>1. obj' = obj /\ pc[t] = "wblock"
    BY <1>13 DEF WriteBlock
  <2>2. /\ call[t].written = 0 /\ call[t].pos = 0 /\ call[t].res >= 1 /\ call[t].at # 0
        /\ call[t].pos < BlockSize /\ ~(call[t].pos >= BlockSize)
    BY <1>w, <2>1, FileIOAssumption DEF WriteFact, WritePath
  <2>3. CASE call[t].it \in Sector
    <3>1. /\ pc'[t] = "wblock" /\ call'[t].o = o /\ call'[t].written = call[t].written
          /\ call'[t].at = call[t].at /\ call'[t].pos = 0 /\ call'[t].res = call[t].res
      BY <1>13, <2>2, <2>3, WriteBlockStep
    <3> QED
      BY <1>0, <2>1, <2>2, <3>1 DEF WriteFact
  <2>4. CASE call[t].it \notin Sector
    <3>1. Return(t, call[t], EIO)
      BY <1>13, <2>2, <2>4, Zenon DEF WriteBlock
    <3> QED
      BY <1>0, <1>a, <1>b, <1>d, <2>1, <3>1
  <2> QED
    BY <2>3, <2>4
<1>14. CASE WriteFails(t)
  BY <1>0, <1>14, <1>a, <1>b, <1>d DEF WriteFails
<1>15. CASE WriteEnd(t)
  <2>1. obj' = obj /\ call[t].res # 0
    BY <1>15, <1>w DEF WriteEnd, WriteFact
  <2>2. Return(t, call[t], EIO)
    BY <1>15, <2>1 DEF WriteEnd
  <2> QED
    BY <1>0, <1>a, <1>b, <1>d, <2>1, <2>2
<1>16. CASE WriteDone(t)
  <2>1. call[t].n # 0
    BY <1>0, <1>16, <1>w DEF WriteDone, WriteFact
  <2> QED
    BY <1>0, <1>16, <1>a, <1>c, <2>1 DEF WriteDone
<1> QED
  BY <1>1, <1>2, <1>3, <1>4, <1>5, <1>6, <1>7, <1>8, <1>9, <1>10, <1>11, <1>12, <1>13, <1>14,
     <1>15, <1>16
  DEF Step, Fault, WriteStep

\* The facts about writes hold after every step.
LEMMA NextWriteFacts ==
    ASSUME TypeInv, TypeInv', Lives, Busy, WriteFacts, [Next]_vars
    PROVE  WriteFacts'
<1>1. CASE SystemStep
  <2>1. SystemEffect
    BY <1>1, SystemObjects
  <2>2. ASSUME NEW o \in Objects
        PROVE  obj'[o].size = 0
    <3>1. /\ Constructed.size = 0 /\ obj[o].size = 0
          /\ \A l \in {"rcu", "lost"} : [obj[o] EXCEPT !.life = l].size = 0
      BY DEF Constructed, WriteFacts, TypeInv, TypeOK, ObjectFields
    <3> QED
      BY <2>1, <3>1 DEF SystemEffect
  <2>3. ASSUME NEW t \in Tasks
        PROVE  WriteFact(t)'
    BY <2>1 DEF SystemEffect, WriteFacts, WriteFact, WritePath
  <2> QED
    BY <2>2, <2>3 DEF WriteFacts
<1>2. ASSUME NEW t \in Tasks, Step(t) \/ Fault(t)
      PROVE  WriteFacts'
  <2>1. WriteFact(t)' /\ obj'[call[t].o].size = 0
    BY <1>2, WriterKeepsFacts
  <2>2. TaskEffect(t)
    BY <1>2, TaskEffects
  <2>3. ASSUME NEW u \in Tasks, u # t
        PROVE  WriteFact(u)'
    <3>1. pc'[u] = pc[u] /\ call'[u] = call[u] /\ WriteFact(u)
      BY <2>2, <2>3 DEF TaskEffect, Others, WriteFacts
    <3>2. CASE pc[u] \in Locked
      <4>1. obj'[call[u].o] = obj[call[u].o]
        BY <1>2, <2>3, <3>2, Undisturbed
      <4> QED
        BY <3>1, <4>1 DEF WriteFact
    <3>3. CASE pc[u] \notin Locked
      BY <3>1, <3>3 DEF WriteFact, Locked, WritePath
    <3> QED
      BY <3>2, <3>3
  <2> QED
    BY <2>1, <2>2, <2>3 DEF WriteFacts, TaskEffect
<1>3. ASSUME NEW t \in Tasks, NEW o \in Objects, BeginCall(t, o)
      PROVE  WriteFacts'
  <2>1. /\ Others(t) /\ pc'[t] = "lock" /\ call'[t].written = 0 /\ obj' = obj
        /\ call'[t].kind = "write" => call'[t].n >= 1
    BY <1>3, BeginStep
  <2>2. WriteFact(t)'
    BY <2>1 DEF WriteFact, WritePath
  <2>3. \A u \in Tasks \ {t} : WriteFact(u)'
    BY <2>1 DEF WriteFacts, WriteFact, Others
  <2> QED
    BY <2>1, <2>2, <2>3 DEF WriteFacts
<1>4. CASE UNCHANGED vars
  BY <1>4 DEF vars, module_vars, task_vars, WriteFacts, WriteFact
<1> QED
  BY <1>1, <1>2, <1>3, <1>4, NextSplit

\* Only an error path returns with inode->lock held.
LEMMA NextErrorsKeepLock ==
    ASSUME TypeInv, Lives, Busy, WriteFacts, OnlyErrorsKeepLock, [Next]_vars
    PROVE  OnlyErrorsKeepLock'
<1>1. CASE SystemStep
  <2>1. SystemEffect
    BY <1>1, SystemObjects
  <2> QED
    BY <2>1 DEF SystemEffect, OnlyErrorsKeepLock
<1>2. ASSUME NEW t \in Tasks, Step(t) \/ Fault(t)
      PROVE  OnlyErrorsKeepLock'
  <2>1. TaskEffect(t)
    BY <1>2, TaskEffects
  <2>2. ASSUME pc'[t] = "return", obj'[call'[t].o].lock = t
        PROVE  \/ call'[t].kind = "read" /\ call'[t].ret < 0
               \/ call'[t].kind = "write" /\ call'[t].ret # call'[t].written
    <3>1. t # NoTask /\ call'[t].o = call[t].o /\ call'[t].kind = call[t].kind
      BY <2>1, <2>2, FileIOAssumption DEF TaskEffect
    <3>2. \/ /\ pc[t] = "lock" /\ call[t].kind = "write" /\ call'[t].ret < 0
             /\ call'[t].written = call[t].written
          \/ FailsLocked(t)
          \/ pc[t] = "lock" /\ "return" = AfterLock[call[t].kind]
      BY <2>1, <2>2, <3>1 DEF TaskEffect, Moves, Reading, WritePath
    <3>3. /\ pc[t] \in WritePath \cup {"lock"} => call[t].written = 0
          /\ pc[t] \in Reading => call[t].kind = "read"
          /\ pc[t] \in WritePath => call[t].kind = "write"
          /\ pc[t] = "lock" => call[t].kind \in {"read", "write", "add"}
      BY DEF WriteFacts, WriteFact, Busy, Reading, WritePath
    <3>4. ~(pc[t] = "lock" /\ "return" = AfterLock[call[t].kind])
      BY <3>3 DEF AfterLock
    <3> QED
      BY <3>1, <3>2, <3>3, <3>4 DEF FailsLocked
  <2>3. ASSUME NEW u \in Tasks, u # t, pc'[u] = "return", obj'[call'[u].o].lock = u
        PROVE  \/ call'[u].kind = "read" /\ call'[u].ret < 0
               \/ call'[u].kind = "write" /\ call'[u].ret # call'[u].written
    <3>1. pc'[u] = pc[u] /\ call'[u] = call[u] /\ u # NoTask /\ call[u].o \in Objects
      BY <2>1, <2>3, CallTypes, FileIOAssumption DEF TaskEffect, Others
    <3>2. CASE call[u].o = call[t].o
      <4>1. CASE obj' = [obj EXCEPT ![call[t].o].lock = t]
        BY <2>3, <3>1, <3>2, <4>1 DEF TypeInv, TypeOK, ObjectFields
      <4>2. CASE obj' # [obj EXCEPT ![call[t].o].lock = t]
        <5>1. obj'[call[u].o].lock = obj[call[u].o].lock \/ obj'[call[u].o].lock = NoTask
          BY <2>1, <3>2, <4>2 DEF TaskEffect, Moves, FailsLocked
        <5> QED
          BY <2>3, <3>1, <5>1 DEF OnlyErrorsKeepLock
      <4> QED
        BY <4>1, <4>2
    <3>3. CASE call[u].o # call[t].o
      BY <2>1, <2>3, <3>1, <3>3 DEF TaskEffect, OnlyErrorsKeepLock
    <3> QED
      BY <3>2, <3>3
  <2> QED
    BY <2>2, <2>3 DEF OnlyErrorsKeepLock
<1>3. ASSUME NEW t \in Tasks, NEW o \in Objects, BeginCall(t, o)
      PROVE  OnlyErrorsKeepLock'
  BY <1>3, BeginStep DEF OnlyErrorsKeepLock, Others
<1>4. CASE UNCHANGED vars
  BY <1>4 DEF vars, task_vars, OnlyErrorsKeepLock
<1> QED
  BY <1>1, <1>2, <1>3, <1>4, NextSplit

-----------------------------------------------------------------------------
(* Objects in their first life *)

\* The steps that change an object: the others leave all of them alone.  The
\* end of spfs_write is not among them, because it is never reached.
LEMMA ObjectChanges ==
    ASSUME TypeInv, WriteFacts, NEW t \in Tasks, Step(t) \/ Fault(t)
    PROVE  \/ obj' = obj
           \/ LockInode(t) \/ ReadDone(t) \/ EnsureAlloc(t) \/ AddStep(t)
<1>1. CASE WriteDone(t)
  <2>1. call[t].n # 0
    BY <1>1, CallTypes DEF WriteDone, WriteFacts, WriteFact, Calls
  <2> QED
    BY <1>1, <2>1 DEF WriteDone
<1> QED
  BY <1>1, Zenon
  DEF Step, Fault, ReadStep, WriteStep, Interrupted, Returned, ReadHeader, ReadBlock,
      ReadFails, ReadBlockFails, EnsureNothing, EnsureNoSpace, EnsureNoBuffer, Modify,
      ModifyBug, WriteHead, WriteBlock, WriteFails, WriteEnd

\* ReadDone only unlocks, LockInode only locks.
LEMMA LockChanges ==
    ASSUME TypeInv, NEW t \in Tasks, LockInode(t) \/ ReadDone(t)
    PROVE  LET o == call[t].o
           IN  /\ obj'[o].start = obj[o].start /\ obj'[o].capacity = obj[o].capacity
               /\ LockInode(t) => obj[o].lock = NoTask /\ obj'[o].lock = t /\ pc[t] = "lock"
               /\ ReadDone(t) => obj'[o].lock = NoTask /\ pc[t] \in Reading
BY CallTypes DEF LockInode, ReadDone, Reading, TypeInv, TypeOK, ObjectFields

\* The condition on one object in its first life.
Untouched(o) ==
    obj[o].fresh =>
        /\ obj[o].life = "slab" => obj[o].lock = NoTask /\ obj[o].start = 0 /\ obj[o].capacity = 0
        /\ obj[o].life = "live" /\ ~obj[o].isdir =>
              /\ obj[o].start = 0 <=> obj[o].capacity = 0
              /\ obj[o].lock = NoTask => obj[o].start = 0

\* The invariant about objects in their first life holds after every step, and
\* so do the assertions at the end of spfs_write.
LEMMA NextFirstLife ==
    ASSUME TypeInv, Lives, Busy, WriteFacts, FirstLife, BeforeAlloc, AssertsHoldOnFresh,
           [Next]_vars
    PROVE  FirstLife' /\ BeforeAlloc' /\ AssertsHoldOnFresh'
<1>0. \A o \in Objects : Untouched(o)
  BY DEF FirstLife, Untouched
<1>s. (\A o \in Objects : Untouched(o)') => FirstLife'
  BY DEF FirstLife, Untouched
<1>1. CASE SystemStep
  <2>1. SystemEffect
    BY <1>1, SystemObjects
  <2>2. ASSUME NEW o \in Objects
        PROVE  Untouched(o)'
    <3>1. CASE obj'[o] = obj[o]
      BY <1>0, <3>1 DEF Untouched
    <3>2. CASE obj'[o] = Constructed
      BY <3>2 DEF Untouched, Constructed
    <3>3. CASE /\ obj[o].life = "live"
               /\ \E l \in {"rcu", "lost"} : obj'[o] = [obj[o] EXCEPT !.life = l]
      BY <3>3 DEF Untouched, TypeInv, TypeOK, ObjectFields
    <3>4. CASE obj[o].life = "rcu" /\ ~obj'[o].fresh
      BY <3>4 DEF Untouched
    <3>5. CASE /\ obj[o].life = "slab" /\ obj'[o].life \in {"live", "lost"}
               /\ obj'[o].start = obj[o].start /\ obj'[o].capacity = obj[o].capacity
               /\ obj'[o].fresh = obj[o].fresh
      BY <1>0, <3>5 DEF Untouched
    <3> QED
      BY <2>1, <3>1, <3>2, <3>3, <3>4, <3>5 DEF SystemEffect
  <2>3. BeforeAlloc' /\ AssertsHoldOnFresh'
    BY <2>1 DEF SystemEffect, BeforeAlloc, AssertsHoldOnFresh, Reading
  <2> QED
    BY <1>s, <2>2, <2>3
<1>2. ASSUME NEW t \in Tasks, Step(t) \/ Fault(t)
      PROVE  FirstLife' /\ BeforeAlloc' /\ AssertsHoldOnFresh'
  <2> DEFINE o == call[t].o
  <2>1. TaskEffect(t)
    BY <1>2, TaskEffects
  <2>2. t # NoTask /\ o \in Objects
    BY CallTypes, FileIOAssumption
  <2>3. ASSUME NEW p \in Objects, p = o
        PROVE  Untouched(p)'
    <3>0. obj'[o].life = obj[o].life /\ obj'[o].isdir = obj[o].isdir /\ obj'[o].fresh = obj[o].fresh
      BY <2>1, <2>2 DEF TaskEffect
    <3>1. CASE obj' = obj
      BY <1>0, <2>3, <3>1 DEF Untouched
    <3>2. CASE LockInode(t)
      <4>1. /\ obj'[o].start = obj[o].start /\ obj'[o].capacity = obj[o].capacity
            /\ obj'[o].lock = t /\ pc[t] = "lock"
        BY <3>2, LockChanges
      <4>2. obj[o].life = "live"
        BY <4>1 DEF Busy
      <4> QED
        BY <1>0, <2>2, <2>3, <3>0, <4>1, <4>2 DEF Untouched
    <3>3. CASE ReadDone(t)
      <4>1. /\ obj'[o].start = obj[o].start /\ obj'[o].capacity = obj[o].capacity
            /\ pc[t] \in Reading
        BY <3>3, LockChanges
      <4>2. obj[o].life = "live" /\ (obj[o].fresh => obj[o].start = 0)
        BY <4>1 DEF Busy, BeforeAlloc, Reading
      <4> QED
        BY <1>0, <2>2, <2>3, <3>0, <4>1, <4>2 DEF Untouched
    <3>4. CASE EnsureAlloc(t)
      <4>1. pc[t] = "ensure" /\ Needs(t) \in Nat /\ Needs(t) >= 1 /\ CanAlloc(Needs(t))
        BY <3>4, NeedsType DEF EnsureAlloc
      <4>2. obj[o].life = "live" /\ obj[o].lock = t /\ (obj[o].fresh => obj[o].start = 0)
        BY <4>1 DEF Busy, BeforeAlloc, Locked, WritePath
      <4>3. /\ obj'[o].start = IF obj[o].start = 0 THEN RunOf(Needs(t)) ELSE obj[o].start
            /\ obj'[o].capacity = obj[o].capacity + DataBytes(Needs(t))
            /\ obj'[o].lock = obj[o].lock
        BY <3>4, EnsureAllocStep
      <4>4. RunOf(Needs(t)) # 0 /\ DataBytes(Needs(t)) \in Nat /\ DataBytes(Needs(t)) >= 1
        BY <4>1, RunOfType, DataBytesType
      <4>5. obj[o].capacity \in Nat
        BY CallTypes DEF ObjectFields
      <4>6. obj'[o].capacity # 0
        BY <4>3, <4>4, <4>5
      <4> QED
        BY <2>2, <2>3, <3>0, <4>2, <4>3, <4>4, <4>6 DEF Untouched
    <3>5. CASE AddStep(t)
      <4>1. pc[t] = "add"
        BY <3>5, AddObject
      <4>2. obj[o].life = "live" /\ obj[o].isdir
        BY <4>1 DEF Busy, Locked
      <4> QED
        BY <2>3, <3>0, <4>2 DEF Untouched
    <3> QED
      BY <1>2, <3>1, <3>2, <3>3, <3>4, <3>5, ObjectChanges
  <2>4. \A p \in Objects : Untouched(p)'
    <3>1. ASSUME NEW p \in Objects, p # o
          PROVE  Untouched(p)'
      BY <1>0, <2>1, <3>1 DEF TaskEffect, Untouched
    <3> QED
      BY <2>3, <3>1
  <2>5. ASSUME NEW u \in Tasks, pc'[u] \in Reading \cup {"ensure"}, obj'[call'[u].o].fresh
        PROVE  obj'[call'[u].o].start = 0
    <3>1. CASE u # t
      <4>1. pc'[u] = pc[u] /\ call'[u] = call[u] /\ pc[u] \in Locked
        BY <2>1, <2>5, <3>1 DEF TaskEffect, Others, Locked, Reading, WritePath
      <4>2. obj'[call[u].o] = obj[call[u].o]
        BY <1>2, <3>1, <4>1, Undisturbed
      <4> QED
        BY <2>5, <4>1, <4>2 DEF BeforeAlloc
    <3>2. CASE u = t
      <4>1. call'[t].o = o /\ call'[t].kind = call[t].kind
        BY <2>1, <2>5, <3>2 DEF TaskEffect, Reading
      <4>2. \/ /\ pc[t] = "lock" /\ obj[o].lock = NoTask /\ obj' = [obj EXCEPT ![o].lock = t]
               /\ pc'[t] = AfterLock[call[t].kind]
            \/ pc[t] \in Reading /\ obj' = obj
        BY <2>1, <2>5, <3>2 DEF TaskEffect, Moves, FailsLocked, Reading, WritePath
      <4>3. CASE pc[t] \in Reading /\ obj' = obj
        BY <2>5, <3>2, <4>1, <4>3 DEF BeforeAlloc
      <4>4. CASE /\ pc[t] = "lock" /\ obj[o].lock = NoTask /\ obj' = [obj EXCEPT ![o].lock = t]
                 /\ pc'[t] = AfterLock[call[t].kind]
        <5>1. obj'[o].start = obj[o].start /\ obj'[o].fresh = obj[o].fresh
          BY <2>2, <4>4 DEF TypeInv, TypeOK, ObjectFields
        <5>2. /\ obj[o].life = "live" /\ (obj[o].isdir <=> call[t].kind = "add")
              /\ call[t].kind \in {"read", "write", "add"}
          BY <4>4 DEF Busy
        <5>3. call[t].kind # "add"
          BY <2>5, <3>2, <4>4 DEF AfterLock, Reading
        <5> QED
          BY <1>0, <2>2, <2>5, <3>2, <4>1, <4>4, <5>1, <5>2, <5>3 DEF Untouched
      <4> QED
        BY <4>2, <4>3, <4>4
    <3> QED
      BY <3>1, <3>2
  <2>6. ASSUME NEW u \in Tasks, pc'[u] = "bug"
        PROVE  ~obj'[call'[u].o].fresh
    <3>1. CASE u # t
      BY <2>1, <2>6, <3>1, CallTypes DEF TaskEffect, Others, AssertsHoldOnFresh
    <3>2. CASE u = t
      <4>1. call'[t].o = o /\ obj'[o].fresh = obj[o].fresh
        BY <2>1, <2>2, <2>6, <3>2 DEF TaskEffect
      <4>2. pc[t] = "whead" /\ call[t].at = 0
        <5>1. ~(pc[t] = "lock" /\ "bug" = AfterLock[call[t].kind])
          BY DEF Busy, AfterLock
        <5> QED
          BY <2>1, <2>6, <3>2, <5>1 DEF TaskEffect, Moves, FailsLocked, Reading, WritePath
      <4>3. obj[o].start = 0 /\ obj[o].capacity >= 1
        BY <4>2 DEF WriteFacts, WriteFact
      <4>4. obj[o].life = "live" /\ ~obj[o].isdir /\ obj[o].capacity \in Nat
        BY <4>2, CallTypes DEF Busy, Locked, WritePath, ObjectFields
      <4>5. obj[o].capacity # 0
        BY <4>3, <4>4
      <4> QED
        BY <1>0, <2>2, <3>2, <4>1, <4>3, <4>4, <4>5 DEF Untouched
    <3> QED
      BY <3>1, <3>2
  <2> QED
    BY <1>s, <2>4, <2>5, <2>6 DEF BeforeAlloc, AssertsHoldOnFresh
<1>3. ASSUME NEW t \in Tasks, NEW o \in Objects, BeginCall(t, o)
      PROVE  FirstLife' /\ BeforeAlloc' /\ AssertsHoldOnFresh'
  <2>1. Others(t) /\ pc'[t] = "lock" /\ obj' = obj
    BY <1>3, BeginStep
  <2> QED
    BY <2>1 DEF FirstLife, BeforeAlloc, AssertsHoldOnFresh, Others, Reading
<1>4. CASE UNCHANGED vars
  BY <1>4 DEF vars, task_vars, FirstLife, BeforeAlloc, AssertsHoldOnFresh
<1> QED
  BY <1>1, <1>2, <1>3, <1>4, NextSplit

-----------------------------------------------------------------------------
(* The blocks of the files *)

\* spfs_blocks_for rounds up.
LEMMA BlocksForCovers ==
    ASSUME NEW bytes \in Nat
    PROVE  BlocksFor(bytes) * BlockSize >= bytes
<1>1. ASSUME NEW b \in Nat, b > 0
      PROVE  ((bytes + b - 1) \div b) * b >= bytes
  BY <1>1
<1> QED
  BY <1>1, FileIOAssumption DEF BlocksFor

\* ... and is exact for whole blocks.
LEMMA BlocksForWhole ==
    ASSUME NEW k \in Nat
    PROVE  BlocksFor(k * BlockSize) = k
<1>1. ASSUME NEW b \in Nat, b > 0
      PROVE  (k * b + b - 1) \div b = k
  BY <1>1
<1> QED
  BY <1>1, FileIOAssumption DEF BlocksFor

\* One block less is BlockSize bytes less.
LEMMA OneBlockLess ==
    ASSUME NEW k \in Nat, k >= 1
    PROVE  (k - 1) * BlockSize \in Nat /\ (k - 1) * BlockSize = k * BlockSize - BlockSize
<1>1. ASSUME NEW b \in Nat
      PROVE  (k - 1) * b \in Nat /\ (k - 1) * b = k * b - b
  BY <1>1
<1> QED
  BY <1>1, FileIOAssumption

\* An object has a block at least.
LEMMA BlocksType ==
    ASSUME TypeInv, NEW o \in Objects
    PROVE  /\ Blocks(o) \in Nat /\ Blocks(o) >= 1
           /\ obj[o].start \in Nat /\ obj[o].capacity \in Nat /\ free \in Nat
<1>1. obj[o].start \in Sector /\ obj[o].capacity \in Nat /\ free \in Nat
  BY FileIOAssumption DEF TypeInv, TypeOK, ObjectFields
<1>2. obj[o].start \in Nat
  BY <1>1, FileIOAssumption DEF Sector, LastSector
<1>3. obj[o].capacity + HeaderSize \in Nat /\ obj[o].capacity + HeaderSize > 0
  BY <1>1, FileIOAssumption
<1> QED
  BY <1>1, <1>2, <1>3, BlocksForType DEF Blocks

\* Without a live inode there is nothing to say.
LEMMA NoLiveRegions ==
    ASSUME Busy', \A o \in Objects : obj'[o].life # "live", TypeInv'
    PROVE  Regions' /\ Extents'
<1>1. \A t \in Tasks : call'[t].o \in Objects
  BY DEF TypeInv, TypeOK, Calls
<1>2. \A t \in Tasks : pc'[t] = "idle"
  BY <1>1 DEF Busy
<1> QED
  BY <1>2 DEF Regions, Placed, Extents, ExtentFact

\* Blocks stay apart as long as no object gets new ones.
LEMMA RegionsKept ==
    ASSUME TypeInv, TypeInv', Regions, AllFresh, free' <= free,
           \A s \in pages' : s \in pages \/ s < free + 2,
           \A o \in Objects : Placed(o)' =>
              /\ Placed(o) /\ obj'[o].start = obj[o].start /\ obj'[o].isdir = obj[o].isdir
              /\ ~obj[o].isdir => obj'[o].capacity = obj[o].capacity
    PROVE  Regions'
<1>1. ASSUME NEW o \in Objects, Placed(o)'
      PROVE  /\ Placed(o) /\ obj'[o].start = obj[o].start /\ obj'[o].isdir = obj[o].isdir
             /\ ~obj[o].isdir => obj'[o].capacity = obj[o].capacity
             /\ Blocks(o)' = Blocks(o)
  BY <1>1 DEF Blocks
<1>2. free' \in Nat /\ free \in Nat
  BY FileIOAssumption DEF TypeInv, TypeOK
<1>3. ASSUME NEW o \in Objects, Placed(o)'
      PROVE  Within(o)'
  <2>1. Within(o) /\ obj[o].start \in Nat
    BY <1>1, <1>3, BlocksType DEF Regions
  <2>2. obj'[o].start >= free' + 2
    BY <1>1, <1>2, <1>3, <2>1 DEF Within
  <2> QED
    BY <1>1, <1>3, <2>1, <2>2 DEF Within, LastSector
<1>4. ASSUME NEW o \in Objects, NEW p \in Objects \ {o}, Placed(o)', Placed(p)'
      PROVE  Apart(o, p)'
  BY <1>1, <1>4 DEF Regions, Apart
<1>5. ASSUME NEW o \in Objects, Placed(o)', NEW s \in pages'
      PROVE  s < obj'[o].start \/ s >= obj'[o].start + Blocks(o)'
  <2>1. Within(o) /\ NoPages(o) /\ obj[o].start \in Nat /\ s \in Nat
    BY <1>1, <1>5, BlocksType DEF Regions, TypeInv, TypeOK, Sector
  <2>2. CASE s \in pages
    BY <1>1, <1>5, <2>1, <2>2 DEF NoPages
  <2>3. CASE s < free + 2
    BY <1>1, <1>2, <1>5, <2>1, <2>3 DEF Within
  <2> QED
    BY <1>5, <2>2, <2>3
<1> QED
  BY <1>3, <1>4, <1>5 DEF Regions, NoPages

\* A new run, taken from the end of the free blocks, is apart from all others.
LEMMA RegionsGrow ==
    ASSUME TypeInv, TypeInv', Regions, AllFresh, PagesTaken, pages' = pages,
           NEW o \in Objects, NEW k \in Nat, k >= 1, CanAlloc(k), free' = free - k,
           obj'[o].start = RunOf(k), Blocks(o)' = k,
           ~obj'[o].isdir => obj'[o].capacity + HeaderSize = k * BlockSize,
           \A p \in Objects \ {o} : obj'[p] = obj[p]
    PROVE  Regions'
<1>1. free \in Nat /\ free > k /\ free <= DataBlocks /\ RunOf(k) = 2 + free - k /\ DataBlocks \in Nat
  BY FileIOAssumption DEF TypeInv, TypeOK, CanAlloc, RunOf
<1>2. Within(o)'
  BY <1>1 DEF Within, LastSector
<1>3. ASSUME NEW p \in Objects \ {o}, Placed(p)'
      PROVE  Within(p)' /\ obj'[p].start >= free + 2 /\ obj'[p].start \in Nat
  <2>1. Placed(p) /\ Blocks(p)' = Blocks(p) /\ obj'[p] = obj[p]
    BY <1>3 DEF Placed, Blocks
  <2>2. Within(p) /\ obj[p].start \in Nat
    BY <2>1, BlocksType DEF Regions
  <2>3. obj'[p].start >= free + 2
    BY <2>1, <2>2 DEF Within
  <2>4. obj'[p].start >= free' + 2
    BY <1>1, <2>1, <2>2, <2>3
  <2> QED
    BY <2>1, <2>2, <2>3, <2>4 DEF Within, LastSector
<1>4. ASSUME NEW p \in Objects \ {o}, Placed(p)'
      PROVE  Apart(o, p)' /\ Apart(p, o)'
  <2>1. obj'[o].start + Blocks(o)' <= obj'[p].start
    BY <1>1, <1>3, <1>4
  <2> QED
    BY <2>1 DEF Apart
<1>5. ASSUME NEW p \in Objects \ {o}, NEW q \in Objects \ {o}, p # q, Placed(p)', Placed(q)'
      PROVE  Apart(p, q)'
  <2>1. Placed(p) /\ Placed(q) /\ Apart(p, q)
    BY <1>5 DEF Placed, Regions
  <2> QED
    BY <1>5, <2>1 DEF Apart, Blocks
<1>6. NoPages(o)'
  <2>1. ASSUME NEW s \in pages'
        PROVE  s >= obj'[o].start + Blocks(o)'
    BY <1>1, <2>1 DEF PagesTaken
  <2> QED
    BY <2>1 DEF NoPages
<1>7. ASSUME NEW p \in Objects \ {o}, Placed(p)'
      PROVE  NoPages(p)'
  BY <1>7 DEF Placed, Regions, NoPages, Blocks
<1> QED
  BY <1>2, <1>3, <1>4, <1>5, <1>6, <1>7 DEF Regions

\* A write that is under way has its file's blocks.
LEMMA WriterPlaced ==
    ASSUME TypeInv, Busy, WriteFacts, FirstLife, AllFresh, Extents, NEW t \in Tasks,
           pc[t] \in {"modify", "whead", "wblock"}
    PROVE  Placed(call[t].o)
<1>1. /\ obj[call[t].o].life = "live" /\ ~obj[call[t].o].isdir /\ call[t].o \in Objects
      /\ obj[call[t].o].fresh /\ obj[call[t].o].capacity \in Nat
  BY CallTypes DEF Busy, Locked, WritePath, AllFresh, ObjectFields
<1>2. CASE pc[t] = "wblock"
  BY <1>1, <1>2 DEF Placed, WriteFacts, WriteFact, Extents, ExtentFact
<1>3. CASE pc[t] \in {"modify", "whead"}
  <2>1. obj[call[t].o].capacity # 0
    BY <1>1, <1>3 DEF WriteFacts, WriteFact
  <2> QED
    BY <1>1, <2>1 DEF Placed, FirstLife
<1> QED
  BY <1>2, <1>3

\* The system keeps the blocks apart.
LEMMA SystemRegions ==
    ASSUME TypeInv, TypeInv', Lives, Lives', Busy, Busy', WriteFacts, FirstLife, Regions, Extents,
           SystemStep
    PROVE  Regions' /\ Extents'
<1>1. CASE CreateSlab \/ Register \/ Unregister \/ DestroySlab \/ Umount
  <2>1. ~mounted'
    BY <1>1 DEF CreateSlab, Register, Unregister, DestroySlab, Umount, Lives
  <2> QED
    BY <2>1, NoLiveRegions DEF Lives
<1>2. CASE Mount
  <2>1. PICK o \in Objects : AllocInode(o, TRUE, "live")
    BY <1>2, Zenon DEF Mount
  <2>2. \A t \in Tasks : pc'[t] = "idle"
    <3>1. \A t \in Tasks : call[t].o \in Objects
      BY DEF TypeInv, TypeOK, Calls
    <3> QED
      BY <1>2, <3>1 DEF Mount, Busy, Lives, task_vars
  <2>3. AllFresh' => \A p \in Objects : ~Placed(p)'
    <3>1. ASSUME NEW p \in Objects, p # o PROVE ~Placed(p)'
      <4>1. obj'[p] = obj[p]
        BY <2>1, <3>1, AllocStep
      <4>2. obj[p].life # "live"
        BY <1>2 DEF Mount, Lives
      <4> QED
        BY <4>1, <4>2 DEF Placed
    <3>2. AllFresh' => ~Placed(o)'
      BY <2>1, AllocStep DEF AllFresh, FirstLife, Placed
    <3> QED
      BY <3>1, <3>2
  <2> QED
    BY <2>2, <2>3 DEF Regions, Extents, ExtentFact
<1>3. ASSUME NEW o \in Objects,
             \/ \E d \in BOOLEAN : CreateInode(o, d) \/ CreateFails(o, d)
             \/ VisitChild(o) \/ FreeInode(o) \/ FreeInodeCb(o)
      PROVE  Regions' /\ Extents'
  <2> SUFFICES ASSUME AllFresh'
               PROVE  Regions' /\ Extents'
    BY DEF Regions, Extents
  <2>0. free \in Nat
    BY FileIOAssumption DEF TypeInv, TypeOK
  <2>1. UNCHANGED <<pc, call>> /\ SystemEffect
    BY <1>3, SystemObjects DEF SystemStep, SystemEffect
  <2>2. /\ \A p \in Objects \ {o} : obj'[p] = obj[p]
        /\ \/ obj[o].fresh /\ obj'[o].life # "live"
           \/ obj[o].fresh /\ obj[o].life = "slab" /\ obj'[o].start = obj[o].start
           \/ obj' = obj
    <3>0. obj'[o].fresh
      BY DEF AllFresh
    <3>1. CASE FreeInodeCb(o)
      BY <3>0, <3>1 DEF FreeInodeCb, TypeInv, TypeOK, ObjectFields
    <3>2. CASE FreeInode(o)
      BY <3>0, <3>2 DEF FreeInode, TypeInv, TypeOK, ObjectFields
    <3>3. ASSUME NEW d \in BOOLEAN, CreateInode(o, d) \/ CreateFails(o, d)
          PROVE  /\ \A p \in Objects \ {o} : obj'[p] = obj[p]
                 /\ obj[o].fresh /\ obj[o].life = "slab" /\ obj'[o].start = obj[o].start
      BY <3>0, <3>3, AllocStep DEF CreateInode, CreateFails
    <3>4. CASE VisitChild(o)
      BY <3>4 DEF VisitChild
    <3> QED
      BY <1>3, <3>1, <3>2, <3>3, <3>4
  <2>4. AllFresh
    BY <2>2 DEF AllFresh
  <2>5. \A p \in Objects : Placed(p)' => obj'[p] = obj[p] /\ Placed(p)
    BY <2>2 DEF Placed, FirstLife
  <2>6. /\ free' <= free
        /\ \A s \in pages' : s \in pages \/ s < free + 2
        /\ \A s \in Sector : s >= free + 2 => head'[s] = head[s]
    <3>1. CASE VisitChild(o) \/ FreeInode(o) \/ FreeInodeCb(o)
      BY <2>0, <3>1 DEF VisitChild, FreeInode, FreeInodeCb
    <3>2. ASSUME NEW d \in BOOLEAN, CreateFails(o, d)
          PROVE  free' <= free /\ pages' = pages /\ head' = head
      BY <2>0, <3>2 DEF CreateFails
    <3>3. ASSUME NEW d \in BOOLEAN, CreateInode(o, d)
          PROVE  /\ free' <= free /\ pages' = pages \cup {RunOf(1)} /\ RunOf(1) < free + 2
                 /\ \A s \in Sector : s >= free + 2 => head'[s] = head[s]
      <4>1. RunOf(1) < free + 2
        BY <2>0 DEF RunOf
      <4>2. PICK h : head' = [head EXCEPT ![RunOf(1)] = h]
        BY <3>3, Zenon DEF CreateInode
      <4>3. \A s \in Sector : s >= free + 2 => head'[s] = head[s]
        BY <2>0, <4>1, <4>2 DEF TypeInv, TypeOK, Sector
      <4> QED
        BY <2>0, <3>3, <4>1, <4>3 DEF CreateInode
    <3> QED
      BY <1>3, <3>1, <3>2, <3>3
  <2>7. Regions'
    BY <2>4, <2>5, <2>6, RegionsKept
  <2>8. ASSUME NEW t \in Tasks
        PROVE  ExtentFact(t)'
    <3>1. CASE pc[t] \notin {"modify", "whead", "wblock"}
      BY <2>1, <3>1 DEF ExtentFact
    <3>2. CASE pc[t] \in {"modify", "whead", "wblock"}
      <4>1. obj'[call[t].o] = obj[call[t].o] /\ call'[t] = call[t] /\ pc'[t] = pc[t]
        BY <2>1, <3>2 DEF SystemEffect
      <4>2. Blocks(call[t].o)' = Blocks(call[t].o)
        BY <2>1, <4>1 DEF Blocks
      <4>3. Placed(call[t].o) /\ call[t].o \in Objects
        BY <2>4, <3>2, WriterPlaced, CallTypes
      <4>4. obj[call[t].o].start >= free + 2 /\ obj[call[t].o].start \in Sector
        BY <2>4, <4>3 DEF Regions, Within, TypeInv, TypeOK, ObjectFields
      <4>5. head'[obj[call[t].o].start] = head[obj[call[t].o].start]
        BY <2>6, <4>4
      <4> QED
        BY <2>4, <4>1, <4>2, <4>5 DEF Extents, ExtentFact
    <3> QED
      BY <3>1, <3>2
  <2> QED
    BY <2>7, <2>8 DEF Extents
<1> QED
  BY <1>1, <1>2, <1>3 DEF SystemStep

\* The steps that write a header or take a block.
LEMMA HeadChanges ==
    ASSUME TypeInv, NEW t \in Tasks, Step(t) \/ Fault(t)
    PROVE  \/ head' = head
           \/ WriteBlock(t) \/ WriteEnd(t) \/ EnsureAlloc(t) \/ AddStep(t)
BY Zenon
DEF Step, Fault, ReadStep, WriteStep, LockInode, Interrupted, Returned, ReadHeader, ReadBlock,
    ReadDone, ReadFails, ReadBlockFails, EnsureNothing, EnsureNoSpace, EnsureNoBuffer, Modify,
    ModifyBug, WriteHead, WriteFails, WriteDone

\* No step of another task writes the header that a write is going to read.
LEMMA HeadKept ==
    ASSUME TypeInv, Busy, WriteFacts, FirstLife, Regions, Extents, AllFresh,
           NEW t \in Tasks, Step(t) \/ Fault(t),
           NEW u \in Tasks, u # t, pc[u] \in {"modify", "whead"}
    PROVE  head'[obj[call[u].o].start] = head[obj[call[u].o].start]
<1> DEFINE o == call[t].o
           p == call[u].o
           s == obj[p].start
<1>1. Placed(p) /\ o \in Objects /\ p \in Objects
  BY WriterPlaced, CallTypes
<1>2. /\ Within(p) /\ Blocks(p) \in Nat /\ Blocks(p) >= 1 /\ obj[p].start \in Nat
      /\ free \in Nat
  BY <1>1, BlocksType DEF Regions
<1>3. s \in Sector /\ s >= free + 2
  BY <1>1, <1>2 DEF Within, TypeInv, TypeOK, ObjectFields
<1>4. obj[p].lock = u
  BY DEF Busy, Locked, WritePath
<1>5. ASSUME pc[t] \in Locked
      PROVE  o # p
  BY <1>4, <1>5 DEF Busy, Locked, Reading, WritePath
<1>6. ASSUME Placed(o), pc[t] \in Locked, NEW i \in Nat,
             i >= obj[o].start, i < obj[o].start + Blocks(o)
      PROVE  i # s
  <2>1. Apart(o, p) /\ obj[o].start \in Nat /\ Blocks(o) \in Nat
    BY <1>1, <1>5, <1>6, BlocksType DEF Regions
  <2> QED
    BY <1>2, <1>6, <2>1 DEF Apart
<1>7. CASE head' = head
  BY <1>7
<1>8. CASE WriteBlock(t)
  <2>1. /\ pc[t] = "wblock" /\ InExtent(call[t]) /\ call[t].pos = 0 /\ pc[t] \in Locked
        /\ call[t].pos < BlockSize /\ ~(call[t].pos >= BlockSize)
    BY <1>8, FileIOAssumption DEF WriteBlock, WriteFacts, WriteFact, Locked, WritePath
  <2>2. CASE call[t].it \in Sector
    <3>1. head' = [head EXCEPT ![call[t].it] = IF Least(call[t].n, BlockSize - call[t].pos) > 0
                                               THEN NoHeader ELSE @]
      BY <1>8, <2>1, <2>2, WriteBlockStep
    <3>2. /\ call[t].at = obj[o].start /\ call[t].end = call[t].at + Blocks(o)
          /\ call[t].it \in (call[t].at + 1) .. call[t].end /\ call[t].it < call[t].end
      BY <2>1 DEF Extents, ExtentFact, InExtent
    <3>3. Placed(o) /\ obj[o].start \in Nat /\ Blocks(o) \in Nat
      BY <2>1, WriterPlaced, <1>1, BlocksType
    <3>4. call[t].it # s
      BY <1>6, <2>1, <3>2, <3>3
    <3> QED
      BY <1>3, <3>1, <3>4 DEF TypeInv, TypeOK
  <2>3. CASE call[t].it \notin Sector
    BY <1>8, <2>1, <2>3, Zenon DEF WriteBlock
  <2> QED
    BY <2>2, <2>3
<1>9. CASE WriteEnd(t)
  <2>1. pc[t] = "wblock" /\ pc[t] \in Locked
    BY <1>9 DEF WriteEnd, Locked, WritePath
  <2>2. call[t].at = obj[o].start
    BY <2>1 DEF Extents, ExtentFact
  <2>3. /\ Placed(o) /\ obj[o].start \in Nat /\ Blocks(o) \in Nat /\ Blocks(o) >= 1
    BY <2>1, WriterPlaced, <1>1, BlocksType
  <2>4. call[t].at # s
    BY <1>6, <2>1, <2>2, <2>3
  <2> QED
    BY <1>3, <1>9, <2>4 DEF WriteEnd, TypeInv, TypeOK
<1>10. CASE EnsureAlloc(t)
  <2>1. Needs(t) \in Nat /\ Needs(t) >= 1
    BY <1>10, NeedsType DEF EnsureAlloc
  <2>2. RunOf(Needs(t)) # s
    BY <1>2, <1>3, <2>1 DEF RunOf
  <2> QED
    BY <1>3, <1>10, <2>2 DEF EnsureAlloc, TypeInv, TypeOK
<1>11. CASE AddStep(t)
  <2>1. pc[t] \in Locked
    BY <1>11, AddObject DEF Locked
  <2>2. CASE AddFirst(t)
    <3>1. RunOf(1) # s
      BY <1>2, <1>3 DEF RunOf
    <3> QED
      BY <1>3, <2>2, <3>1 DEF AddFirst, TypeInv, TypeOK
  <2>3. CASE AddMore(t)
    <3>1. Placed(o)
      BY <2>1, <2>3 DEF AddMore, Placed, Busy, Locked
    <3>2. obj[o].start # s
      BY <1>1, <1>6, <2>1, <3>1, BlocksType
    <3> QED
      BY <1>3, <2>3, <3>2 DEF AddMore, TypeInv, TypeOK
  <2>4. CASE AddBug(t) \/ AddFails(t)
    BY <2>4 DEF AddBug, AddFails
  <2> QED
    BY <1>11, <2>2, <2>3, <2>4 DEF AddStep
<1> QED
  BY <1>7, <1>8, <1>9, <1>10, <1>11, HeadChanges

\* The first extent of a file has as many blocks as were asked for, and room for
\* all bytes that are to be written.
LEMMA FirstExtent ==
    ASSUME TypeInv, TypeInv', Busy, WriteFacts, FirstLife, BeforeAlloc, AllFresh,
           NEW t \in Tasks, EnsureAlloc(t), NEW o \in Objects, o = call[t].o
    PROVE  LET k == Needs(t)
           IN  /\ k \in Nat /\ k >= 1 /\ CanAlloc(k) /\ free' = free - k
               /\ obj'[o].start = RunOf(k) /\ Blocks(o)' = k /\ ~obj'[o].isdir
               /\ obj'[o].capacity + HeaderSize = k * BlockSize
               /\ head' = [head EXCEPT ![RunOf(k)] = Header(0, k, 0)]
               /\ call[t].n <= obj'[o].capacity
<1> DEFINE k == Needs(t)
<1>1. k \in Nat /\ k >= 1 /\ CanAlloc(k) /\ pc[t] = "ensure" /\ free' = free - k
      /\ head' = [head EXCEPT ![RunOf(k)] = Header(0, k, 0)]
  BY NeedsType DEF EnsureAlloc
<1>2. /\ obj[o].life = "live" /\ ~obj[o].isdir /\ obj[o].fresh /\ obj[o].start = 0
      /\ obj[o].capacity = 0
  BY <1>1 DEF Busy, Locked, WritePath, BeforeAlloc, FirstLife, AllFresh
<1>3. /\ obj'[o].start = RunOf(k) /\ obj'[o].capacity = 0 + DataBytes(k)
      /\ ~obj'[o].isdir
  BY <1>2, EnsureAllocStep
<1>4. call[t].pos = 0 /\ call[t].n >= 1 /\ call[t].n \in Nat
  BY <1>1, CallTypes DEF WriteFacts, WriteFact, Calls
<1>5. HeaderSize \in Nat /\ BlockSize \in Nat /\ k * BlockSize \in Nat
  <2>1. ASSUME NEW b \in Nat PROVE k * b \in Nat
    BY <1>1
  <2> QED
    BY <2>1, FileIOAssumption
<1>6. obj'[o].capacity + HeaderSize = k * BlockSize
  BY <1>3, <1>5 DEF DataBytes
<1>7. Blocks(o)' = k
  BY <1>1, <1>3, <1>6, BlocksForWhole DEF Blocks, BlocksFor
<1>8. k = BlocksFor(call[t].n + HeaderSize)
  <2>1. ~(0 + call[t].n <= 0) /\ 0 + call[t].n - 0 + HeaderSize = call[t].n + HeaderSize
    BY <1>4, <1>5
  <2>2. k = IF 0 + call[t].n <= 0 THEN 0 ELSE BlocksFor(0 + call[t].n - 0 + HeaderSize)
    BY <1>2, <1>4 DEF Needs, ExtraBlocks
  <2> HIDE DEF k
  <2> QED
    BY <2>1, <2>2
<1>9. k * BlockSize >= call[t].n + HeaderSize
  <2>1. call[t].n + HeaderSize \in Nat
    BY <1>4, <1>5
  <2> QED
    BY <1>8, <2>1, BlocksForCovers
<1>10. call[t].n <= obj'[o].capacity
  <2>1. obj'[o].capacity \in Nat
    BY DEF TypeInv, TypeOK, ObjectFields
  <2> HIDE DEF k
  <2> QED
    BY <1>4, <1>5, <1>6, <1>9, <2>1
<1> QED
  BY <1>1, <1>3, <1>6, <1>7, <1>10

\* A call takes blocks and gives none back, and makes no inode block.
LEMMA FreeFalls ==
    ASSUME TypeInv, NEW t \in Tasks, Step(t) \/ Fault(t)
    PROVE  free' <= free /\ pages' = pages
<1>0. free \in Nat
  BY FileIOAssumption DEF TypeInv, TypeOK
<1>1. CASE EnsureAlloc(t) \/ EnsureNoBuffer(t)
  BY <1>0, <1>1, NeedsType DEF EnsureAlloc, EnsureNoBuffer
<1>2. CASE AddStep(t)
  <2>1. CASE AddFirst(t)
    BY <1>0, <2>1 DEF AddFirst
  <2>2. CASE AddMore(t) \/ AddBug(t) \/ AddFails(t)
    <3>1. (free' = free \/ free' = free - 1) /\ pages' = pages
      BY <2>2, Zenon DEF AddMore, AddBug, AddFails
    <3> QED
      BY <1>0, <3>1
  <2> QED
    BY <1>2, <2>1, <2>2 DEF AddStep
<1>3. CASE ~(EnsureAlloc(t) \/ EnsureNoBuffer(t) \/ AddStep(t))
  <2>1. free' = free /\ pages' = pages
    BY <1>3, Zenon
    DEF Step, Fault, ReadStep, WriteStep, LockInode, Interrupted, Returned, ReadHeader,
        ReadBlock, ReadDone, ReadFails, ReadBlockFails, EnsureNothing, EnsureNoSpace,
        Modify, ModifyBug, WriteHead, WriteBlock, WriteFails, WriteEnd, WriteDone
  <2> QED
    BY <1>0, <2>1
<1> QED
  BY <1>1, <1>2, <1>3

\* The tasks keep the blocks apart.
LEMMA TaskRegions ==
    ASSUME TypeInv, TypeInv', Lives, Busy, WriteFacts, FirstLife, BeforeAlloc, Regions, PagesTaken,
           AllFresh, NEW t \in Tasks, Step(t) \/ Fault(t)
    PROVE  Regions'
<1>0. TaskEffect(t) /\ call[t].o \in Objects /\ free \in Nat
  BY TaskEffects, CallTypes, FileIOAssumption DEF TypeInv, TypeOK
<1> DEFINE o == call[t].o
<1>b. free' <= free /\ pages' = pages
  BY FreeFalls
<1>a. ASSUME \A p \in Objects : p = o => obj'[p].start = obj[p].start
                                       /\ (~obj[p].isdir => obj'[p].capacity = obj[p].capacity)
      PROVE  Regions'
  <2>1. ASSUME NEW p \in Objects, Placed(p)'
        PROVE  /\ Placed(p) /\ obj'[p].start = obj[p].start /\ obj'[p].isdir = obj[p].isdir
               /\ ~obj[p].isdir => obj'[p].capacity = obj[p].capacity
    <3>1. obj'[p].start = obj[p].start /\ (~obj[p].isdir => obj'[p].capacity = obj[p].capacity)
      BY <1>0, <1>a DEF TaskEffect
    <3>2. obj'[p].isdir = obj[p].isdir /\ obj'[p].life = obj[p].life
      BY <1>0 DEF TaskEffect
    <3> QED
      BY <2>1, <3>1, <3>2 DEF Placed
  <2> QED
    BY <1>b, <2>1, RegionsKept
<1>1. CASE obj' = obj
  BY <1>1, <1>a
<1>2. CASE LockInode(t) \/ ReadDone(t)
  BY <1>2, <1>a, LockChanges
<1>3. CASE EnsureAlloc(t)
  <2>1. PICK p \in Objects : p = o
    BY <1>0
  <2>2. \A q \in Objects \ {p} : obj'[q] = obj[q]
    BY <1>0, <2>1 DEF TaskEffect
  <2> QED
    BY <1>3, <1>b, <2>1, <2>2, FirstExtent, RegionsGrow
<1>4. CASE AddStep(t)
  <2>1. obj[o].isdir
    BY <1>4, AddObject DEF Busy, Locked
  <2>2. CASE AddFirst(t)
    <3>1. PICK p \in Objects : p = o
      BY <1>0
    <3>2. CanAlloc(1) /\ free' = free - 1 /\ obj'[p].start = RunOf(1)
      BY <1>0, <2>2, <3>1 DEF AddFirst, TypeInv, TypeOK, ObjectFields
    <3>3. obj'[p].isdir /\ \A q \in Objects \ {p} : obj'[q] = obj[q]
      BY <1>0, <2>1, <3>1 DEF TaskEffect
    <3>4. Blocks(p)' = 1
      BY <3>3 DEF Blocks
    <3> QED
      BY <1>b, <3>2, <3>3, <3>4, RegionsGrow
  <2>3. CASE AddMore(t) \/ AddBug(t) \/ AddFails(t)
    <3>1. obj'[o].start = obj[o].start
      BY <1>0, <2>3 DEF AddMore, AddBug, AddFails, TypeInv, TypeOK, ObjectFields
    <3> QED
      BY <1>a, <2>1, <3>1
  <2> QED
    BY <1>4, <2>2, <2>3 DEF AddStep
<1> QED
  BY <1>1, <1>2, <1>3, <1>4, ObjectChanges

\* The steps after which a write is still on its way.
LEMMA StaysInWrite ==
    ASSUME TypeInv, Busy, WriteFacts, NEW t \in Tasks, Step(t) \/ Fault(t),
           pc'[t] \in {"modify", "whead", "wblock"}
    PROVE  EnsureNothing(t) \/ EnsureAlloc(t) \/ Modify(t) \/ WriteHead(t) \/ WriteBlock(t)
<1>1. TaskEffect(t)
  BY TaskEffects
<1>2. pc[t] \in WritePath
  <2>1. pc[t] = "lock" => call[t].kind \in {"read", "write", "add"}
    BY DEF Busy
  <2>2. pc[t] = "lock" => AfterLock[call[t].kind] \in {"extent", "ensure", "add"}
    BY <2>1 DEF AfterLock
  <2> QED
    BY <1>1, <2>2 DEF TaskEffect, Moves, FailsLocked, Reading
<1>3. ASSUME NEW l, pc' = [pc EXCEPT ![t] = l]
      PROVE  pc'[t] = l
  BY <1>3 DEF TypeInv, TypeOK
<1>4. ~(EnsureNoSpace(t) \/ WriteFails(t))
  BY <1>3 DEF EnsureNoSpace, WriteFails, Return, Goto
<1>5. ~(EnsureNoBuffer(t) \/ ModifyBug(t))
  BY <1>3 DEF EnsureNoBuffer, ModifyBug, Dies, Goto
<1>6. ~WriteDone(t)
  BY <1>3 DEF WriteDone, Return, Dies, Goto
<1>7. ~WriteEnd(t)
  <2>1. pc[t] = "wblock" => call[t].res # 0
    BY CallTypes DEF WriteFacts, WriteFact, Calls
  <2> QED
    BY <1>3, <2>1 DEF WriteEnd, Return, Goto
<1>8. ~(LockInode(t) \/ Interrupted(t) \/ Returned(t) \/ ReadStep(t) \/ ReadFails(t)
        \/ ReadBlockFails(t) \/ AddStep(t))
  BY <1>2 DEF LockInode, Interrupted, Returned, ReadStep, ReadHeader, ReadBlock, ReadDone,
     ReadFails, ReadBlockFails, AddStep, AddFirst, AddMore, AddBug, AddFails, WritePath
<1> QED
  BY <1>4, <1>5, <1>6, <1>7, <1>8, Zenon DEF Step, Fault, WriteStep

\* What is left to write still fits after a step of the writer.
LEMMA WriterExtent ==
    ASSUME TypeInv, TypeInv', Busy, WriteFacts, FirstLife, BeforeAlloc, Regions, Extents, AllFresh,
           NEW t \in Tasks, Step(t) \/ Fault(t)
    PROVE  ExtentFact(t)'
<1> SUFFICES ASSUME pc'[t] \in {"modify", "whead", "wblock"}
             PROVE  ExtentFact(t)'
  BY DEF ExtentFact
<1>0. PICK o \in Objects : o = call[t].o
  BY CallTypes
<1>1. /\ call[t].n \in Nat /\ call[t].at \in Nat /\ call[t].it \in Nat /\ call[t].end \in Nat
      /\ BlockSize \in Nat /\ HeaderSize \in Nat /\ HeaderSize < BlockSize
  BY CallTypes, FileIOAssumption DEF Calls
<1>2. TaskEffect(t) /\ call'[t].o = o
  BY <1>0, TaskEffects DEF TaskEffect
<1>f. ExtentFact(t) /\ WriteFact(t)
  BY DEF Extents, WriteFacts
<1>b. obj'[o] = obj[o] => Blocks(o)' = Blocks(o)
  BY DEF Blocks
<1>3. CASE EnsureNothing(t)
  <2>1. pc[t] = "ensure" /\ call[t].pos + call[t].n <= obj[o].capacity
    BY <1>0, <1>3, NeedsNothing DEF EnsureNothing
  <2>2. obj[o].start = 0 /\ obj[o].life = "live" /\ ~obj[o].isdir /\ obj[o].fresh
    BY <1>0, <2>1 DEF BeforeAlloc, AllFresh, Busy, Locked, WritePath
  <2>3. obj[o].capacity = 0
    BY <2>2 DEF FirstLife
  <2>4. call[t].pos = 0 /\ call[t].n >= 1
    BY <1>f, <2>1 DEF WriteFact
  <2> QED
    BY <1>1, <2>1, <2>3, <2>4
<1>4. CASE EnsureAlloc(t)
  <2> DEFINE k == Needs(t)
             r == RunOf(k)
  <2>1. /\ obj'[o].start = r /\ Blocks(o)' = k
        /\ head' = [head EXCEPT ![r] = Header(0, k, 0)]
        /\ call[t].n <= obj'[o].capacity
    BY <1>0, <1>4, FirstExtent
  <2>2. call'[t].n = call[t].n /\ pc'[t] = "modify"
    BY <1>4, EnsureAllocStep
  <2>3. r \in Sector
    BY <2>1 DEF TypeInv, TypeOK, ObjectFields
  <2>4. head'[r] = Header(0, k, 0)
    BY <2>1, <2>3 DEF TypeInv, TypeOK
  <2>5. head'[r].magic /\ head'[r].capacity = k
    BY <2>4 DEF Header
  <2>6. Blocks(call[t].o)' = Blocks(o)'
    BY <1>2 DEF Blocks
  <2> HIDE DEF k, r
  <2> QED
    BY <1>2, <2>1, <2>2, <2>5, <2>6 DEF ExtentFact
<1>5. CASE Modify(t)
  <2>1. pc[t] = "modify" /\ pc'[t] = "whead" /\ call' = call /\ obj' = obj /\ head' = head
    BY <1>5 DEF Modify, Return, Goto, TypeInv, TypeOK
  <2> QED
    BY <1>f, <2>1 DEF ExtentFact, Blocks
<1>6. CASE WriteHead(t)
  <2> DEFINE room == BlockSize - HeaderSize
  <2>1. /\ pc[t] = "whead" /\ obj' = obj /\ call[t].at = obj[o].start /\ call[t].pos = 0
        /\ head[call[t].at].magic /\ head[call[t].at].capacity = Blocks(o)
        /\ call[t].n <= obj[o].capacity
    BY <1>0, <1>6, <1>f DEF WriteHead, ExtentFact, WriteFact
  <2>2. Placed(o) /\ ~obj[o].isdir
    BY <1>0, <2>1, WriterPlaced DEF Busy, Locked, WritePath
  <2>3. /\ Blocks(o) \in Nat /\ Blocks(o) >= 1 /\ obj[o].capacity \in Nat
        /\ Blocks(o) * BlockSize = obj[o].capacity + HeaderSize
    BY <2>2, BlocksType DEF Regions, Within
  <2>4. (Blocks(o) - 1) * BlockSize = obj[o].capacity - room
    BY <1>1, <2>3, OneBlockLess
  <2>5. /\ call'[t].at = call[t].at /\ call'[t].it = call[t].at + 1
        /\ call'[t].end = call[t].at + Blocks(o)
        /\ call'[t].n = call[t].n - IF 0 > room THEN 0 ELSE Least(call[t].n, room - 0)
        /\ pc'[t] = "wblock"
    BY <1>6, <2>1, WriteHeadStep
  <2>6. call'[t].n <= obj[o].capacity - room
    BY <1>1, <2>1, <2>3, <2>5 DEF Least
  <2>7. call'[t].end - call'[t].it = Blocks(o) - 1
    BY <1>1, <2>3, <2>5
  <2>8. call'[t].it \in (call'[t].at + 1) .. call'[t].end
    BY <1>1, <2>3, <2>5
  <2>9. Blocks(call[t].o)' = Blocks(o)
    BY <1>2, <2>1 DEF Blocks
  <2> HIDE DEF room
  <2> QED
    BY <1>2, <2>1, <2>4, <2>5, <2>6, <2>7, <2>8, <2>9 DEF ExtentFact
<1>7. CASE WriteBlock(t)
  <2>1. /\ pc[t] = "wblock" /\ obj' = obj /\ call[t].pos = 0 /\ call[t].it < call[t].end
        /\ call[t].pos < BlockSize /\ ~(call[t].pos >= BlockSize)
        /\ call[t].at = obj[o].start /\ call[t].end = call[t].at + Blocks(o)
        /\ call[t].it \in (call[t].at + 1) .. call[t].end
        /\ call[t].n <= (call[t].end - call[t].it) * BlockSize
    BY <1>0, <1>1, <1>7, <1>f DEF WriteBlock, InExtent, ExtentFact, WriteFact
  <2>2. call[t].it \in Sector
    <3>1. CASE call[t].it \notin Sector
      <4>1. pc' = [pc EXCEPT ![t] = "return"]
        BY <1>7, <2>1, <3>1, Zenon DEF WriteBlock, Return, Goto
      <4> QED
        BY <4>1 DEF TypeInv, TypeOK
    <3> QED
      BY <3>1
  <2>3. /\ call'[t].at = call[t].at /\ call'[t].it = call[t].it + 1
        /\ call'[t].end = call[t].end /\ pc'[t] = "wblock"
        /\ call'[t].n = call[t].n - Least(call[t].n, BlockSize - 0)
    BY <1>7, <2>1, <2>2, WriteBlockStep
  <2> DEFINE k == call[t].end - call[t].it
  <2>4. k \in Nat /\ k >= 1 /\ call'[t].end - call'[t].it = k - 1
    BY <1>1, <2>1, <2>3
  <2>5. call'[t].n <= (k - 1) * BlockSize
    <3>1. (k - 1) * BlockSize \in Nat /\ (k - 1) * BlockSize = k * BlockSize - BlockSize
      BY <2>4, OneBlockLess
    <3>2. ASSUME NEW x \in Nat, NEW y \in Int, x = y - BlockSize, call[t].n <= y
          PROVE  call[t].n - Least(call[t].n, BlockSize - 0) <= x
      BY <1>1, <3>2 DEF Least
    <3>3. k * BlockSize \in Int
      <4>1. ASSUME NEW b \in Nat PROVE k * b \in Int
        BY <2>4
      <4> QED
        BY <1>1, <4>1
    <3> QED
      BY <2>1, <2>3, <3>1, <3>2, <3>3
  <2>6. call'[t].it \in (call'[t].at + 1) .. call'[t].end
    BY <1>1, <2>1, <2>3
  <2>7. Blocks(call[t].o)' = Blocks(o)
    BY <1>2, <2>1 DEF Blocks
  <2> HIDE DEF k
  <2> QED
    BY <1>2, <2>1, <2>3, <2>4, <2>5, <2>6, <2>7 DEF ExtentFact
<1> QED
  BY <1>3, <1>4, <1>5, <1>6, <1>7, StaysInWrite

\* The tasks keep what they know of their extents.
LEMMA TaskExtents ==
    ASSUME TypeInv, TypeInv', Busy, WriteFacts, FirstLife, BeforeAlloc, Regions, Extents, AllFresh,
           NEW t \in Tasks, Step(t) \/ Fault(t)
    PROVE  Extents'
<1>1. ASSUME NEW u \in Tasks, u # t
      PROVE  ExtentFact(u)'
  <2>1. pc'[u] = pc[u]
    BY <1>1, TaskEffects DEF TaskEffect, Others
  <2>2. CASE pc[u] \in {"modify", "whead", "wblock"}
    <3>1. call'[u] = call[u] /\ obj'[call[u].o] = obj[call[u].o]
      BY <1>1, <2>2, Undisturbed DEF Locked, WritePath
    <3>2. Blocks(call[u].o)' = Blocks(call[u].o)
      BY <3>1 DEF Blocks
    <3>3. pc[u] \in {"modify", "whead"} =>
             head'[obj[call[u].o].start] = head[obj[call[u].o].start]
      BY <1>1, HeadKept
    <3> QED
      BY <2>1, <3>1, <3>2, <3>3 DEF Extents, ExtentFact
  <2>3. CASE pc[u] \notin {"modify", "whead", "wblock"}
    BY <2>1, <2>3 DEF ExtentFact
  <2> QED
    BY <2>2, <2>3
<1> QED
  BY <1>1, WriterExtent DEF Extents

\* Every step keeps the blocks apart and the extents large enough.
LEMMA NextRegions ==
    ASSUME TypeInv, TypeInv', Lives, Lives', Busy, Busy', WriteFacts, FirstLife, BeforeAlloc,
           Regions, PagesTaken, Extents, [Next]_vars
    PROVE  Regions' /\ Extents'
<1>1. CASE SystemStep
  BY <1>1, SystemRegions
<1>2. ASSUME NEW t \in Tasks, Step(t) \/ Fault(t)
      PROVE  Regions' /\ Extents'
  <2>1. AllFresh' => AllFresh
    BY <1>2, TaskEffects DEF TaskEffect, AllFresh
  <2>2. CASE AllFresh
    BY <1>2, <2>2, TaskRegions, TaskExtents
  <2>3. CASE ~AllFresh
    BY <2>1, <2>3 DEF Regions, Extents
  <2> QED
    BY <2>2, <2>3
<1>3. ASSUME NEW t \in Tasks, NEW o \in Objects, BeginCall(t, o)
      PROVE  Regions' /\ Extents'
  <2>1. /\ Others(t) /\ pc'[t] = "lock" /\ obj' = obj /\ head' = head /\ free' = free
        /\ pages' = pages
    BY <1>3, BeginStep
  <2>2. Regions'
    BY <2>1 DEF Regions, AllFresh, Placed, Within, NoPages, Apart, Blocks
  <2>3. ASSUME AllFresh', NEW u \in Tasks
        PROVE  ExtentFact(u)'
    <3>1. CASE u = t
      BY <2>1, <3>1 DEF ExtentFact
    <3>2. CASE u # t
      <4>1. pc'[u] = pc[u] /\ call'[u] = call[u] /\ ExtentFact(u)
        BY <2>1, <2>3, <3>2 DEF Others, Extents, AllFresh
      <4> QED
        BY <2>1, <4>1 DEF ExtentFact, Blocks
    <3> QED
      BY <3>1, <3>2
  <2> QED
    BY <2>2, <2>3 DEF Extents
<1>4. CASE UNCHANGED vars
  BY <1>4 DEF vars, module_vars, task_vars, Regions, Extents, ExtentFact, AllFresh, Placed,
     Within, NoPages, Apart, Blocks
<1> QED
  BY <1>1, <1>2, <1>3, <1>4, NextSplit

\* The inode blocks of a mount stay taken: the free blocks are those below.
LEMMA NextPages ==
    ASSUME TypeInv, PagesTaken, [Next]_vars
    PROVE  PagesTaken'
<1>0. /\ free \in Nat /\ pages \subseteq Nat /\ TypeInv'
      /\ free' \in Nat /\ pages' \subseteq Nat
  BY NextType, FileIOAssumption DEF TypeInv, TypeOK, Sector
<1>a. ASSUME NEW s \in Nat, NEW f \in Nat, NEW g \in Nat, g <= f, s >= f + 2
      PROVE  s >= g + 2
  BY <1>a
<1>1. (free' <= free /\ pages' = pages) => PagesTaken'
  <2> SUFFICES ASSUME free' <= free, pages' = pages, NEW s \in pages
               PROVE  s >= free' + 2
    BY DEF PagesTaken
  <2>1. s \in Nat /\ s >= free + 2
    BY <1>0 DEF PagesTaken
  <2> QED
    BY <1>0, <1>a, <2>1
<1>2. CASE CreateSlab \/ Register \/ Unregister \/ DestroySlab
           \/ \E o \in Objects : VisitChild(o) \/ FreeInode(o) \/ FreeInodeCb(o)
  <2>1. free' = free /\ pages' = pages
    BY <1>2, Zenon DEF CreateSlab, Register, Unregister, DestroySlab, VisitChild, FreeInode, FreeInodeCb
  <2> QED
    BY <1>0, <1>1, <2>1
<1>3. CASE Umount
  BY <1>0, <1>1, <1>3 DEF Umount
<1>4. CASE Mount
  BY <1>4 DEF Mount, PagesTaken
<1>5. ASSUME NEW o \in Objects, NEW d \in BOOLEAN, CreateFails(o, d)
      PROVE  PagesTaken'
  BY <1>0, <1>1, <1>5 DEF CreateFails
<1>6. ASSUME NEW o \in Objects, NEW d \in BOOLEAN, CreateInode(o, d)
      PROVE  PagesTaken'
  <2>1. free' = free - 2 /\ pages' = pages \cup {RunOf(1)} /\ RunOf(1) = 2 + free - 1
    BY <1>6 DEF CreateInode, RunOf
  <2>2. RunOf(1) >= free' + 2 /\ \A s \in pages : s >= free' + 2
    BY <1>0, <2>1 DEF PagesTaken
  <2> QED
    BY <2>1, <2>2 DEF PagesTaken
<1>7. ASSUME NEW t \in Tasks, Step(t) \/ Fault(t)
      PROVE  PagesTaken'
  BY <1>1, <1>7, FreeFalls
<1>8. ASSUME NEW t \in Tasks, NEW o \in Objects, BeginCall(t, o)
      PROVE  PagesTaken'
  BY <1>0, <1>1, <1>8, BeginStep
<1>9. CASE UNCHANGED vars
  BY <1>0, <1>1, <1>9 DEF vars
<1> QED
  BY <1>2, <1>3, <1>4, <1>5, <1>6, <1>7, <1>8, <1>9, NextSplit DEF SystemStep

-----------------------------------------------------------------------------
(* The theorems *)

\* The invariant holds before the module is loaded.
LEMMA InitIInv == Init => IInv
<1> SUFFICES ASSUME Init PROVE IInv
  OBVIOUS
<1>1. TypeInv
  BY InitType
<1>2. /\ \A o \in Objects : obj[o] = Constructed
      /\ \A t \in Tasks : pc[t] = "idle"
      /\ ~mounted
  BY DEF Init
<1>3. /\ Constructed.life = "slab" /\ Constructed.start = 0 /\ Constructed.capacity = 0
      /\ Constructed.size = 0 /\ Constructed.lock = NoTask
  BY DEF Constructed
<1>4. Lives /\ Busy /\ FirstLife
  BY <1>2, <1>3 DEF Lives, SlabOutlivesCallbacks, Busy, FirstLife
<1>5. WriteFacts /\ BeforeAlloc
  BY <1>2, <1>3 DEF WriteFacts, WriteFact, WritePath, BeforeAlloc, Reading
<1>6. Regions /\ PagesTaken /\ Extents
  BY <1>2, <1>3 DEF Init, Regions, PagesTaken, Placed, Extents, ExtentFact
<1>7. OnlyErrorsKeepLock /\ AssertsHoldOnFresh
  BY <1>2 DEF OnlyErrorsKeepLock, AssertsHoldOnFresh
<1> QED
  BY <1>1, <1>4, <1>5, <1>6, <1>7 DEF IInv

\* The invariant is inductive.
LEMMA NextIInv == IInv /\ [Next]_vars => IInv'
<1> SUFFICES ASSUME IInv, [Next]_vars PROVE IInv'
  OBVIOUS
<1> USE DEF IInv
<1>1. TypeInv'
  BY NextType
<1>2. Lives' /\ Busy'
  BY NextBusy
<1>3. WriteFacts'
  BY <1>1, NextWriteFacts
<1>4. OnlyErrorsKeepLock'
  BY NextErrorsKeepLock
<1>5. FirstLife' /\ BeforeAlloc' /\ AssertsHoldOnFresh'
  BY NextFirstLife
<1>6. Regions' /\ Extents'
  BY <1>1, <1>2, NextRegions
<1>7. PagesTaken'
  BY NextPages
<1> QED
  BY <1>1, <1>2, <1>3, <1>4, <1>5, <1>6, <1>7

\* The inductive invariant holds in every reachable state.
THEOREM Invariant == Spec => []IInv
BY InitIInv, NextIInv, PTL DEF Spec

\* rcu_barrier in spfs_destroy_inode_SLAB is enough: no callback of
\* spfs_free_inode ever runs after the slab is gone, with any number of inodes
\* freed by an unmount or by the VFS.
THEOREM SlabOutlives == Spec => []SlabOutlivesCallbacks
<1>1. IInv => SlabOutlivesCallbacks
  BY DEF IInv, Lives
<1> QED
  BY Invariant, <1>1, PTL

\* inode->lock is left behind only by a read that fails and by a write whose
\* result is not what it has added to the size: spfs_add_child, with all its
\* error paths, never leaves it.
THEOREM ErrorsKeepLock == Spec => []OnlyErrorsKeepLock
<1>1. IInv => OnlyErrorsKeepLock
  BY DEF IInv
<1> QED
  BY Invariant, <1>1, PTL

\* The BUG_ONs at the end of spfs_write are not reached for a file whose object
\* has not been in use before, whatever other tasks do.
THEOREM AssertsHold == Spec => []AssertsHoldOnFresh
<1>1. IInv => AssertsHoldOnFresh
  BY DEF IInv
<1> QED
  BY Invariant, <1>1, PTL

\* spfs_calc_extra_blocks asks for enough blocks for every length of a write and
\* every block size: as long as no object is in its second life, a write that
\* comes to the end of its extent has nothing left to write.
THEOREM EnoughRoom == Spec => []RoomForAll
<1>1. ASSUME IInv PROVE RoomForAll
  <2> SUFFICES ASSUME AllFresh, NEW t \in Tasks, pc[t] = "wblock", ~InExtent(call[t])
               PROVE  call[t].n = 0
    BY DEF RoomForAll
  <2>1. /\ call[t].n \in Nat /\ call[t].at \in Nat /\ call[t].it \in Nat /\ call[t].end \in Nat
    BY <1>1, CallTypes DEF IInv, Calls
  <2>2. /\ call[t].it \in (call[t].at + 1) .. call[t].end
        /\ call[t].n <= (call[t].end - call[t].it) * BlockSize
    BY <1>1 DEF IInv, Extents, ExtentFact
  <2>3. call[t].end - call[t].it = 0
    BY <2>1, <2>2 DEF InExtent
  <2>4. 0 * BlockSize = 0
    BY FileIOAssumption
  <2> QED
    BY <2>1, <2>2, <2>3, <2>4
<1> QED
  BY Invariant, <1>1, PTL

\* spfs_write never writes to a block of another file or directory, nor to a free
\* one, as long as no object is in its second life: any number of concurrent
\* writes, blocks of any size, files of any length.
THEOREM OwnSectors == Spec => []WritesOwnSectors
<1>1. ASSUME IInv PROVE WritesOwnSectors
  <2> SUFFICES ASSUME AllFresh, NEW t \in Tasks, NEW s \in Writing(t)
               PROVE  /\ s \in (free + 2) .. LastSector /\ s \notin pages
                      /\ \A o \in Objects \ {call[t].o} : obj[o].life = "live" => s \notin Sectors(o)
    BY DEF WritesOwnSectors
  <2> USE <1>1 DEF IInv
  <2>1. PICK o \in Objects : o = call[t].o
    BY CallTypes
  <2>2. /\ pc[t] = "wblock"
        /\ s = call[t].at \/ (s = call[t].it /\ call[t].it < call[t].end)
    BY DEF Writing, InExtent
  <2>3. /\ call[t].at = obj[o].start /\ call[t].end = call[t].at + Blocks(o)
        /\ call[t].it \in (call[t].at + 1) .. call[t].end
    BY <2>1, <2>2 DEF Extents, ExtentFact
  <2>4. Placed(o) /\ Within(o) /\ NoPages(o)
    BY <2>1, <2>2, WriterPlaced DEF Regions
  <2>5. /\ Blocks(o) \in Nat /\ Blocks(o) >= 1 /\ obj[o].start \in Nat /\ free \in Nat
        /\ LastSector \in Nat
    BY BlocksType, FileIOAssumption DEF LastSector
  <2>6. s \in Nat /\ s >= obj[o].start /\ s < obj[o].start + Blocks(o)
    BY <2>2, <2>3, <2>5
  <2>7. s \in (free + 2) .. LastSector
    BY <2>4, <2>5, <2>6 DEF Within
  <2>9. s \notin pages
    BY <2>4, <2>5, <2>6 DEF NoPages
  <2>8. ASSUME NEW p \in Objects \ {o}, obj[p].life = "live", s \in Sectors(p)
        PROVE  FALSE
    <3>1. obj[p].start # 0 /\ s \in obj[p].start .. (obj[p].start + Blocks(p) - 1)
      BY <2>8 DEF Sectors, Blocks
    <3>2. Apart(o, p)
      BY <2>4, <2>8, <3>1 DEF Regions, Placed
    <3>3. Blocks(p) \in Nat /\ obj[p].start \in Nat
      BY BlocksType
    <3> QED
      BY <2>5, <2>6, <3>1, <3>2, <3>3 DEF Apart
  <2> QED
    BY <2>1, <2>7, <2>8, <2>9
<1> QED
  BY Invariant, <1>1, PTL

=============================================================================
