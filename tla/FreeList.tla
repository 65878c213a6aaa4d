------------------------------ MODULE FreeList -------------------------------
(***************************************************************************)
(* The block allocator (free_list.c): spfs_free_init loads the chain of    *)
(* free-list blocks into a linked list of nodes while the volume is being  *)
(* mounted, and spfs_free_alloc hands out runs of sectors to concurrent    *)
(* callers under free_list->lock.                                          *)
(*                                                                         *)
(* A node is identified by the place on disk it was read from: <<b, e>> is *)
(* entry e of the b-th block of the chain.  spfs_free_dealloc is an empty  *)
(* function in the code, so no action returns a run to the list.           *)
(***************************************************************************)
EXTENDS Naturals, Sequences, FiniteSetsExt

CONSTANTS
    Threads,      \* kernel tasks that call spfs_free_alloc
    DeviceBlocks, \* the number of sectors of the device
    Image,        \* the chain on disk: a sequence of blocks, each a sequence
                  \* of entries [start, blocks]
    MaxRequest,   \* bound: the largest number of blocks a caller asks for
    NoThread,     \* the value of the lock when nobody holds it
    NIL           \* the null pointer

\* The nodes spfs_free_init can build, and the entry each is read from.
Node == UNION {{b} \X (1 .. Len(Image[b])) : b \in 1 .. Len(Image)}
Entry(p) == Image[p[1]][p[2]]

\* Two runs of sectors do not share a sector.
Apart(r, s) ==
    \/ r.blocks = 0 \/ s.blocks = 0
    \/ r.start + r.blocks <= s.start \/ s.start + s.blocks <= r.start

\* The runs of the image do not overlap, all lie on the device, and sectors 0
\* (super block) and 1 (free list) belong to no run: what mkfs.spfs writes.  Where
\* it was interrupted, there may be entries without blocks, at any start, blocks
\* without entries, or no entry at all.
ASSUME ImageAssumption ==
    /\ Image \in Seq(Seq([start : Nat, blocks : Nat]))
    /\ \A p \in Node : Entry(p).blocks >= 1 =>
          Entry(p).start >= 2 /\ Entry(p).start + Entry(p).blocks <= DeviceBlocks
    /\ \A p, q \in Node : p # q => Apart(Entry(p), Entry(q))

ASSUME ConstantsAssumption ==
    /\ DeviceBlocks \in Nat
    /\ MaxRequest \in Nat \ {0}
    /\ NoThread \notin Threads
    /\ NIL \notin Node

VARIABLES
    phase,         \* "loading": in spfs_free_init, then "mounted" or "failed"
    blk,           \* spfs_free_init: the block of the chain head points to
    ent,           \* ... the next entry of that block, 0 before its header
    root,          \* list->root
    next,          \* node->next of every node
    node_blocks,   \* node->blocks
    list_blocks,   \* list->blocks
    lock,          \* free_list->lock: the holder
    pc,            \* where each caller is in spfs_free_alloc
    req,           \* its argument blocks
    it,            \* its local variable list
    result,        \* its local variable result
    grants         \* history: every run handed out, in order

load_vars == <<phase, blk, ent>>
list_vars == <<root, next, node_blocks, list_blocks>>
call_vars == <<lock, pc, req, it, result, grants>>
vars == <<load_vars, list_vars, call_vars>>

Init ==
    /\ phase = "loading" /\ blk = 1 /\ ent = 0
    /\ root = NIL
    /\ next = [p \in Node |-> NIL]
    /\ node_blocks = [p \in Node |-> 0]
    /\ list_blocks = 0
    /\ lock = NoThread
    /\ pc = [t \in Threads |-> "idle"]
    /\ req = [t \in Threads |-> 1]
    /\ it = [t \in Threads |-> NIL]
    /\ result = [t \in Threads |-> 0]
    /\ grants = <<>>

-----------------------------------------------------------------------------
(* spfs_free_init *)

\* sb_bread and spfs_read_header of the block head points to.
ReadHeader ==
    /\ phase = "loading" /\ blk <= Len(Image) /\ ent = 0
    /\ ent' = 1
    /\ UNCHANGED <<phase, blk, list_vars, call_vars>>

\* Mutant of ReadEntry: the new node is not linked to the nodes before it.
ReadEntryUnlinked ==
    /\ phase = "loading" /\ blk <= Len(Image) /\ ent \in 1 .. Len(Image[blk])
    /\ LET p == <<blk, ent>>
       IN  /\ node_blocks' = [node_blocks EXCEPT ![p] = Entry(p).blocks]
           /\ root' = p
           /\ list_blocks' = list_blocks + Entry(p).blocks
    /\ ent' = ent + 1
    /\ UNCHANGED <<phase, blk, next, call_vars>>

\* spfs_init_free_list_entry, and the node becomes the head of the list.
ReadEntry ==
    /\ phase = "loading" /\ blk <= Len(Image) /\ ent \in 1 .. Len(Image[blk])
    /\ LET p == <<blk, ent>>
       IN  /\ node_blocks' = [node_blocks EXCEPT ![p] = Entry(p).blocks]
           /\ next' = [next EXCEPT ![p] = root]
           /\ root' = p
           /\ list_blocks' = list_blocks + Entry(p).blocks
    /\ ent' = ent + 1
    /\ UNCHANGED <<phase, blk, call_vars>>

\* brelse, head = free_next, goto Lit.
NextBlock ==
    /\ phase = "loading" /\ blk <= Len(Image) /\ ent = Len(Image[blk]) + 1
    /\ blk' = blk + 1
    /\ ent' = 0
    /\ UNCHANGED <<phase, list_vars, call_vars>>

\* head is 0: return 0.
InitDone ==
    /\ phase = "loading" /\ blk > Len(Image)
    /\ phase' = "mounted"
    /\ UNCHANGED <<blk, ent, list_vars, call_vars>>

\* sb_bread, the header or the allocation of a node fails: the nodes read so
\* far stay linked and the mount is given up.
InitFails ==
    /\ phase = "loading" /\ blk <= Len(Image) /\ ent <= Len(Image[blk])
    /\ phase' = "failed"
    /\ UNCHANGED <<blk, ent, list_vars, call_vars>>

-----------------------------------------------------------------------------
(* spfs_free_alloc *)

Goto(t, label) == pc' = [pc EXCEPT ![t] = label]

Call(t, n) ==
    /\ phase = "mounted" /\ pc[t] = "idle"
    /\ req' = [req EXCEPT ![t] = n]
    /\ result' = [result EXCEPT ![t] = 0]
    /\ Goto(t, "lock")
    /\ UNCHANGED <<load_vars, list_vars, lock, it, grants>>

\* Mutant of Lock: the lock is taken without looking at it.
LockAlways(t) ==
    /\ pc[t] = "lock"
    /\ lock' = t
    /\ Goto(t, "check")
    /\ UNCHANGED <<load_vars, list_vars, req, it, result, grants>>

\* mutex_lock(&free_list->lock)
Lock(t) ==
    /\ pc[t] = "lock"
    /\ lock = NoThread
    /\ lock' = t
    /\ Goto(t, "check")
    /\ UNCHANGED <<load_vars, list_vars, req, it, result, grants>>

\* Mutant of Enough: the last block may be given away.
EnoughOrEqual(n) == list_blocks >= n

\* free_list->blocks > blocks
Enough(n) == list_blocks > n

CheckTotal(t) ==
    /\ pc[t] = "check"
    /\ IF Enough(req[t])
       THEN it' = [it EXCEPT ![t] = root] /\ Goto(t, "scan")
       ELSE Goto(t, "unlock") /\ UNCHANGED it
    /\ UNCHANGED <<load_vars, list_vars, lock, req, result, grants>>

\* Mutant of Fits: the comparison is off by one.
FitsOneShort(p, n) == node_blocks[p] + 1 >= n

\* list->blocks >= blocks
Fits(p, n) == node_blocks[p] >= n

\* The node is too small: list = list->next.
SkipNode(t) ==
    /\ pc[t] = "scan" /\ it[t] # NIL
    /\ ~Fits(it[t], req[t])
    /\ it' = [it EXCEPT ![t] = next[it[t]]]
    /\ UNCHANGED <<load_vars, list_vars, lock, pc, req, result, grants>>

\* Mutant of RunOf: the run is taken from the front of the node although the
\* node keeps its start.
RunAtFront(p, n) == [start |-> Entry(p).start, blocks |-> n]

\* The run cut off the end of the node: list->start + (list->blocks - blocks).
RunOf(p, n) == [start |-> Entry(p).start + (node_blocks[p] - n), blocks |-> n]

\* Mutant of TakeRun: the total is not reduced.
TakeRunUncounted(t) ==
    /\ pc[t] = "scan" /\ it[t] # NIL
    /\ Fits(it[t], req[t])
    /\ node_blocks' = [node_blocks EXCEPT ![it[t]] = @ - req[t]]
    /\ result' = [result EXCEPT ![t] = RunOf(it[t], req[t]).start]
    /\ grants' = Append(grants, RunOf(it[t], req[t]))
    /\ Goto(t, "unlock")
    /\ UNCHANGED <<load_vars, root, next, list_blocks, lock, req, it>>

\* The node is large enough: shrink it and return its last sectors.
TakeRun(t) ==
    /\ pc[t] = "scan" /\ it[t] # NIL
    /\ Fits(it[t], req[t])
    /\ node_blocks' = [node_blocks EXCEPT ![it[t]] = @ - req[t]]
    /\ list_blocks' = list_blocks - req[t]
    /\ result' = [result EXCEPT ![t] = RunOf(it[t], req[t]).start]
    /\ grants' = Append(grants, RunOf(it[t], req[t]))
    /\ Goto(t, "unlock")
    /\ UNCHANGED <<load_vars, root, next, lock, req, it>>

\* Mutant of NoNode: the search returns without unlocking.
NoNodeKeepsLock(t) ==
    /\ pc[t] = "scan" /\ it[t] = NIL
    /\ Goto(t, "idle")
    /\ UNCHANGED <<load_vars, list_vars, lock, req, it, result, grants>>

\* The end of the list: no node is large enough.
NoNode(t) ==
    /\ pc[t] = "scan" /\ it[t] = NIL
    /\ Goto(t, "unlock")
    /\ UNCHANGED <<load_vars, list_vars, lock, req, it, result, grants>>

\* mutex_unlock and return result
Unlock(t) ==
    /\ pc[t] = "unlock"
    /\ lock' = NoThread
    /\ Goto(t, "idle")
    /\ UNCHANGED <<load_vars, list_vars, req, it, result, grants>>

Step(t) ==
    \/ Lock(t)
    \/ CheckTotal(t)
    \/ SkipNode(t)
    \/ TakeRun(t)
    \/ NoNode(t)
    \/ Unlock(t)

Next ==
    \/ ReadHeader \/ ReadEntry \/ NextBlock \/ InitDone \/ InitFails
    \/ \E t \in Threads : Step(t) \/ \E n \in 1 .. MaxRequest : Call(t, n)

Spec == Init /\ [][Next]_vars

\* A task inside spfs_free_alloc keeps running, and the kernel's mutex hands
\* the lock to a waiter in the end; nobody has to call spfs_free_alloc.
Fairness == \A t \in Threads : WF_vars(Step(t)) /\ SF_vars(Lock(t))

FairSpec == Spec /\ Fairness

-----------------------------------------------------------------------------
(* Properties *)

Labels == {"idle", "lock", "check", "scan", "unlock"}

\* Every variable has its type; in particular no node ever holds a negative
\* number of blocks (free_list.c:133-135 subtract from unsigned counters).
TypeOK ==
    /\ phase \in {"loading", "mounted", "failed"}
    /\ blk \in 1 .. (Len(Image) + 1)
    /\ ent \in Nat
    /\ root \in Node \cup {NIL}
    /\ next \in [Node -> Node \cup {NIL}]
    /\ node_blocks \in [Node -> Nat]
    /\ list_blocks \in Nat
    /\ lock \in Threads \cup {NoThread}
    /\ pc \in [Threads -> Labels]
    /\ req \in [Threads -> 1 .. MaxRequest]
    /\ it \in [Threads -> Node \cup {NIL}]
    /\ result \in [Threads -> Nat]
    /\ grants \in Seq([start : Nat, blocks : Nat])

\* The sectors a node still offers.
FreeRun(p) == [start |-> Entry(p).start, blocks |-> node_blocks[p]]

\* No sector is handed out twice by spfs_free_alloc, none that was handed out
\* is still offered by a node, and what is handed out lies on the device,
\* behind the super block and the free list (sectors 0 and 1).
NoOverlap ==
    /\ \A i, j \in 1 .. Len(grants) : i # j => Apart(grants[i], grants[j])
    /\ \A i \in 1 .. Len(grants), p \in Node : Apart(grants[i], FreeRun(p))
    /\ \A p, q \in Node : p # q => Apart(FreeRun(p), FreeRun(q))
    /\ \A i \in 1 .. Len(grants) :
          grants[i].start >= 2
              /\ grants[i].start + grants[i].blocks <= DeviceBlocks

\* free_list->blocks, which spfs_free_alloc compares with a request, is the
\* number of blocks that the nodes still offer, while the image is read and
\* after every allocation, granted or refused.
TotalMatchesNodes ==
    list_blocks = MapThenSumSet(LAMBDA p : node_blocks[p], Node)

\* The strict comparison of free_list.c:127 keeps at least one block back: a
\* mounted volume whose image has a free block never reports a total of 0 blocks,
\* whatever the callers ask for.
ReserveKept ==
    phase = "mounted" /\ (\E p \in Node : Entry(p).blocks >= 1) => list_blocks >= 1

\* spfs_free_alloc gives up (returns 0) only when the total is not larger than
\* the request or no node of the image is large enough: every node that was
\* read is reached by the search.
RefusedOnlyWhenFull ==
    \A t \in Threads : pc[t] = "unlock" /\ result[t] = 0 =>
        ~Enough(req[t]) \/ \A p \in Node : ~Fits(p, req[t])

\* The lock of free_list.c:126 admits one caller at a time to the list.
OneCallerInside ==
    \A t, u \in Threads :
        pc[t] \in {"check", "scan", "unlock"}
            /\ pc[u] \in {"check", "scan", "unlock"} => t = u

\* Every call of spfs_free_alloc returns.
CallReturns == \A t \in Threads : pc[t] = "lock" ~> pc[t] = "idle"

-----------------------------------------------------------------------------
(* The allocator implements the pool of BlockPool.tla: the pool holds what   *)
(* the nodes offer, and what was granted has been taken.                     *)

Sectors(r) == r.start .. (r.start + r.blocks - 1)

FreeSectors == UNION {Sectors(FreeRun(p)) : p \in Node}
TakenSectors == UNION {Sectors(grants[i]) : i \in 1 .. Len(grants)}

Pool == INSTANCE BlockPool WITH free <- FreeSectors, taken <- TakenSectors

\* spfs_free_init only ever adds sectors the pool has never held, and
\* spfs_free_alloc only takes runs that are in the pool and never puts one
\* back, whatever the interleaving of its callers.
ImplementsPool == Pool!PoolSpec
=============================================================================
