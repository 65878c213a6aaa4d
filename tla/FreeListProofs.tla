--------------------------- MODULE FreeListProofs ----------------------------
(***************************************************************************)
(* Proofs about FreeList.tla, for every set of callers, every image that   *)
(* satisfies ImageAssumption and every bound on the requests.              *)
(***************************************************************************)
EXTENDS FreeList, Induction, TLAPS

-----------------------------------------------------------------------------
(* The inductive invariant *)

Inside == {"check", "scan", "unlock"}

\* spfs_free_init has read the entry of node p.
Loaded(p) == p[1] < blk \/ (p[1] = blk /\ p[2] < ent)

\* Where spfs_free_init is in the chain.
LoadPlace ==
    phase = "loading" /\ blk <= Len(Image) => ent <= Len(Image[blk]) + 1

\* Nobody calls spfs_free_alloc, and nothing is handed out, before the mount
\* is complete.
MountedFirst ==
    /\ \A t \in Threads : pc[t] # "idle" => phase = "mounted"
    /\ phase # "mounted" => grants = <<>>

\* A caller between mutex_lock and mutex_unlock holds the lock, and the test
\* of free_list.c:127 is still true when it searches the list.
LockHeld ==
    \A t \in Threads :
        /\ pc[t] \in Inside => lock = t
        /\ pc[t] = "scan" => list_blocks > req[t]

\* A node offers nothing before it is read and never more than its entry.
NodeBound ==
    \A p \in Node :
        /\ node_blocks[p] <= Entry(p).blocks
        /\ phase = "loading" /\ ~Loaded(p) => node_blocks[p] = 0
        /\ phase = "loading" /\ Loaded(p) /\ Entry(p).blocks >= 1 => list_blocks >= 1

IInv ==
    /\ TypeOK
    /\ LoadPlace
    /\ MountedFirst
    /\ LockHeld
    /\ NodeBound
    /\ NoOverlap
    /\ ReserveKept

-----------------------------------------------------------------------------
(* Facts about the image *)

\* An element of a sequence over S is in S.
LEMMA ElementInSet ==
    ASSUME NEW S, NEW s \in Seq(S), NEW i \in 1 .. Len(s)
    PROVE  s[i] \in S
  OBVIOUS

\* The entry of a node is a run of sectors of the device behind the first two,
\* unless it is empty.
LEMMA EntryFacts ==
    ASSUME NEW p \in Node
    PROVE  /\ Entry(p) \in [start : Nat, blocks : Nat]
           /\ Entry(p).start \in Nat /\ Entry(p).blocks \in Nat
           /\ Entry(p).blocks >= 1 =>
                 Entry(p).start >= 2 /\ Entry(p).start + Entry(p).blocks <= DeviceBlocks
<1>1. PICK b \in 1 .. Len(Image) : p \in {b} \X (1 .. Len(Image[b]))
  BY DEF Node
<1>2. Image[b] \in Seq([start : Nat, blocks : Nat])
  BY ImageAssumption
<1>3. p[1] = b /\ p[2] \in 1 .. Len(Image[b])
  BY <1>1
<1>4. Image[b][p[2]] \in [start : Nat, blocks : Nat]
  BY <1>2, <1>3, ElementInSet
<1>5. Entry(p) \in [start : Nat, blocks : Nat]
  BY <1>3, <1>4 DEF Entry
<1> QED
  BY <1>5, ImageAssumption

\* The place spfs_free_init reads from is a node, and it is p only for p's own
\* block and entry.
LEMMA PlaceFacts ==
    ASSUME NEW b \in 1 .. Len(Image), NEW e \in 1 .. Len(Image[b])
    PROVE  /\ <<b, e>> \in Node
           /\ \A p \in Node : p[1] = b /\ p[2] = e => p = <<b, e>>
<1>1. <<b, e>> \in Node
  BY DEF Node
<1>2. ASSUME NEW p \in Node, p[1] = b, p[2] = e
      PROVE  p = <<b, e>>
  BY <1>2 DEF Node
<1> QED
  BY <1>1, <1>2

\* A node is a pair of numbers that name a block of the chain and one of its
\* entries.
LEMMA NodeShape ==
    ASSUME NEW p \in Node
    PROVE  p[1] \in 1 .. Len(Image) /\ p[2] \in 1 .. Len(Image[p[1]])
<1>1. PICK b \in 1 .. Len(Image) : p \in {b} \X (1 .. Len(Image[b]))
  BY DEF Node
<1> QED
  BY <1>1

\* The length of the chain and of each of its blocks are numbers.
LEMMA LengthFacts ==
    /\ Len(Image) \in Nat
    /\ \A b \in 1 .. Len(Image) : Len(Image[b]) \in Nat
<1>1. Len(Image) \in Nat
  BY ImageAssumption
<1>2. ASSUME NEW b \in 1 .. Len(Image)
      PROVE  Len(Image[b]) \in Nat
  <2>1. Image[b] \in Seq([start : Nat, blocks : Nat])
    BY ImageAssumption
  <2> QED
    BY <2>1
<1> QED
  BY <1>1, <1>2

-----------------------------------------------------------------------------
(* The initial state and the steps of spfs_free_init *)

\* The empty list spfs_fill_super_block starts with satisfies the invariant.
LEMMA InitIInv == Init => IInv
<1> SUFFICES ASSUME Init PROVE IInv
  OBVIOUS
<1>1. TypeOK
  BY LengthFacts, ConstantsAssumption DEF Init, TypeOK, Labels
<1>2. LoadPlace
  BY LengthFacts DEF Init, LoadPlace
<1>3. MountedFirst /\ LockHeld /\ ReserveKept
  BY DEF Init, MountedFirst, LockHeld, ReserveKept, Inside
<1>4. NodeBound
  <2> SUFFICES ASSUME NEW p \in Node
               PROVE  node_blocks[p] = 0 /\ Entry(p).blocks \in Nat /\ ~Loaded(p)
    BY DEF NodeBound
  <2> QED
    BY EntryFacts, NodeShape, LengthFacts DEF Init, Loaded
<1>5. NoOverlap
  <2>1. Len(grants) = 0
    BY DEF Init
  <2>2. \A p, q \in Node : p # q => Apart(FreeRun(p), FreeRun(q))
    BY EntryFacts, ImageAssumption DEF Init, Apart, FreeRun
  <2> QED
    BY <2>1, <2>2 DEF NoOverlap
<1> QED
  BY <1>1, <1>2, <1>3, <1>4, <1>5 DEF IInv

\* A step that leaves the nodes and the history alone keeps NoOverlap.
LEMMA NoOverlapUnchanged ==
    ASSUME NoOverlap, UNCHANGED <<node_blocks, grants>>
    PROVE  NoOverlap'
  BY DEF NoOverlap, FreeRun

\* Reading the header of a block of the chain keeps the invariant.
LEMMA ReadHeaderIInv == IInv /\ ReadHeader => IInv'
<1> SUFFICES ASSUME IInv, ReadHeader PROVE IInv'
  OBVIOUS
<1> USE DEF IInv, ReadHeader, list_vars, call_vars
<1>1. TypeOK' /\ LoadPlace'
  BY LengthFacts DEF TypeOK, LoadPlace
<1>2. MountedFirst' /\ LockHeld' /\ ReserveKept'
  BY DEF MountedFirst, LockHeld, ReserveKept
<1>3. NodeBound'
  BY NodeShape, LengthFacts DEF NodeBound, Loaded, TypeOK
<1> QED
  BY <1>1, <1>2, <1>3, NoOverlapUnchanged

\* Going on to the next block of the chain keeps it.
LEMMA NextBlockIInv == IInv /\ NextBlock => IInv'
<1> SUFFICES ASSUME IInv, NextBlock PROVE IInv'
  OBVIOUS
<1>0. ASSUME NEW p \in Node
      PROVE  p[1] \in Nat /\ p[2] \in Nat /\ (p[1] = blk => p[2] < ent)
  <2>1. p[1] \in 1 .. Len(Image) /\ p[2] \in 1 .. Len(Image[p[1]])
    BY NodeShape
  <2>2. Len(Image[p[1]]) \in Nat /\ Len(Image) \in Nat
    BY <2>1, LengthFacts
  <2>3. ent = Len(Image[blk]) + 1
    BY DEF NextBlock
  <2> QED
    BY <2>1, <2>2, <2>3
<1> USE DEF IInv, NextBlock, list_vars, call_vars
<1>1. TypeOK' /\ LoadPlace'
  BY LengthFacts DEF TypeOK, LoadPlace
<1>2. MountedFirst' /\ LockHeld' /\ ReserveKept'
  BY DEF MountedFirst, LockHeld, ReserveKept
<1>3. NodeBound'
  <2> SUFFICES ASSUME NEW p \in Node
               PROVE  Loaded(p)' <=> Loaded(p)
    BY DEF NodeBound
  <2>1. p[1] \in Nat /\ p[2] \in Nat /\ (p[1] = blk => p[2] < ent)
    BY <1>0
  <2>2. blk \in Nat /\ blk' = blk + 1 /\ ent' = 0
    BY LengthFacts DEF TypeOK
  <2> QED
    BY <2>1, <2>2 DEF Loaded
<1> QED
  BY <1>1, <1>2, <1>3, NoOverlapUnchanged

\* Linking a node keeps it: the new run lies apart from all the others.
LEMMA ReadEntryIInv == IInv /\ ReadEntry => IInv'
<1> SUFFICES ASSUME IInv, ReadEntry PROVE IInv'
  OBVIOUS
<1> DEFINE n == <<blk, ent>>
<1>0. blk \in 1 .. Len(Image) /\ ent \in 1 .. Len(Image[blk]) /\ n \in Node
  BY PlaceFacts DEF ReadEntry, IInv, TypeOK
<1>1. /\ phase = "loading" /\ phase' = phase /\ blk' = blk /\ ent' = ent + 1
      /\ node_blocks' = [node_blocks EXCEPT ![n] = Entry(n).blocks]
      /\ next' = [next EXCEPT ![n] = root]
      /\ root' = n
      /\ list_blocks' = list_blocks + Entry(n).blocks
      /\ UNCHANGED call_vars
  BY DEF ReadEntry
<1>2. Entry(n).blocks \in Nat
  BY <1>0, EntryFacts
<1>3. TypeOK'
  <2>1. node_blocks' \in [Node -> Nat] /\ next' \in [Node -> Node \cup {NIL}]
    BY <1>0, <1>1, <1>2 DEF IInv, TypeOK
  <2>2. root' \in Node \cup {NIL} /\ list_blocks' \in Nat /\ ent' \in Nat
    BY <1>0, <1>1, <1>2, LengthFacts DEF IInv, TypeOK
  <2> QED
    BY <1>1, <2>1, <2>2 DEF IInv, TypeOK, call_vars
<1>4. LoadPlace'
  BY <1>0, <1>1, LengthFacts DEF LoadPlace
<1>5. MountedFirst' /\ LockHeld' /\ ReserveKept'
  BY <1>1 DEF IInv, MountedFirst, LockHeld, ReserveKept, Inside, call_vars
<1>6. NodeBound'
  <2> SUFFICES ASSUME NEW p \in Node
               PROVE  /\ node_blocks'[p] <= Entry(p).blocks
                      /\ ~Loaded(p)' => node_blocks'[p] = 0
                      /\ Loaded(p)' /\ Entry(p).blocks >= 1 => list_blocks' >= 1
    BY <1>1 DEF NodeBound
  <2>2. CASE p = n
    <3>1. node_blocks'[p] = Entry(p).blocks
      BY <1>0, <1>1, <2>2 DEF IInv, TypeOK
    <3>2. Loaded(p)'
      BY <1>0, <1>1, <2>2, LengthFacts DEF Loaded
    <3> QED
      BY <1>1, <1>2, <2>2, <3>1, <3>2 DEF IInv, TypeOK
  <2>3. CASE p # n
    <3>1. node_blocks'[p] = node_blocks[p]
      BY <1>1, <2>3 DEF IInv, TypeOK
    <3>2. Loaded(p)' <=> Loaded(p)
      <4>1. p[1] \in Nat /\ p[2] \in Nat /\ ~(p[1] = blk /\ p[2] = ent)
        BY <1>0, <2>3, LengthFacts, NodeShape, PlaceFacts
      <4> QED
        BY <1>0, <1>1, <4>1, LengthFacts DEF Loaded
    <3>3. list_blocks \in Nat /\ list_blocks' >= list_blocks
      BY <1>1, <1>2 DEF IInv, TypeOK
    <3> QED
      BY <1>1, <1>2, <3>1, <3>2, <3>3 DEF IInv, NodeBound
  <2> QED
    BY <2>2, <2>3
<1>7. NoOverlap'
  <2>1. Len(grants') = 0
    BY <1>1 DEF IInv, MountedFirst, call_vars
  <2>2. \A p \in Node : node_blocks'[p] \in Nat /\ node_blocks'[p] <= Entry(p).blocks
    BY <1>3, <1>6 DEF TypeOK, NodeBound
  <2>3. ASSUME NEW p \in Node, NEW q \in Node, p # q
        PROVE  Apart(FreeRun(p), FreeRun(q))'
    <3>1. Apart(Entry(p), Entry(q))
      BY <2>3, ImageAssumption
    <3>2. /\ Entry(p).start \in Nat /\ Entry(p).blocks \in Nat
          /\ Entry(q).start \in Nat /\ Entry(q).blocks \in Nat
      BY EntryFacts
    <3>3. /\ FreeRun(p)'.start = Entry(p).start /\ FreeRun(p)'.blocks = node_blocks'[p]
          /\ FreeRun(q)'.start = Entry(q).start /\ FreeRun(q)'.blocks = node_blocks'[q]
      BY DEF FreeRun
    <3> QED
      BY <2>2, <3>1, <3>2, <3>3 DEF Apart
  <2> QED
    BY <2>1, <2>3 DEF NoOverlap
<1> QED
  BY <1>3, <1>4, <1>5, <1>6, <1>7 DEF IInv

\* The end of spfs_free_init keeps it; on success a node was read.
LEMMA InitEndIInv == IInv /\ (InitDone \/ InitFails) => IInv'
<1> SUFFICES ASSUME IInv, InitDone \/ InitFails PROVE IInv'
  OBVIOUS
<1>1. /\ phase = "loading" /\ phase' \in {"mounted", "failed"}
      /\ UNCHANGED <<blk, ent, list_vars, call_vars>>
  BY DEF InitDone, InitFails
<1> USE <1>1 DEF IInv, list_vars, call_vars
<1>2. TypeOK' /\ LoadPlace' /\ LockHeld' /\ NodeBound'
  BY DEF TypeOK, LoadPlace, LockHeld, NodeBound, Inside
<1>3. MountedFirst'
  BY DEF MountedFirst
<1>4. ReserveKept'
  <2>1. CASE InitFails
    BY <2>1 DEF InitFails, ReserveKept
  <2>2. CASE InitDone
    <3>1. \A p \in Node : Loaded(p)
      BY <2>2, NodeShape, LengthFacts DEF InitDone, Loaded, TypeOK
    <3> QED
      BY <3>1 DEF NodeBound, ReserveKept
  <2> QED
    BY <2>1, <2>2
<1> QED
  BY <1>2, <1>3, <1>4, NoOverlapUnchanged

-----------------------------------------------------------------------------
(* The steps of spfs_free_alloc *)

\* A step of one caller that touches neither the loading nor the list nor the
\* history, moves the caller to a label and keeps the lock and the invariant
\* about it, keeps the whole invariant.
LEMMA QuietStepIInv ==
    ASSUME IInv, UNCHANGED <<load_vars, list_vars, grants>>,
           lock' \in Threads \cup {NoThread}, pc' \in [Threads -> Labels],
           req' \in [Threads -> 1 .. MaxRequest],
           it' \in [Threads -> Node \cup {NIL}],
           result' \in [Threads -> Nat],
           \A t \in Threads : pc'[t] # "idle" => phase = "mounted",
           LockHeld'
    PROVE  IInv'
<1> USE DEF IInv, load_vars, list_vars
<1>1. TypeOK' /\ LoadPlace' /\ NodeBound' /\ ReserveKept'
  BY DEF TypeOK, LoadPlace, NodeBound, ReserveKept, Loaded
<1>2. MountedFirst'
  BY DEF MountedFirst
<1> QED
  BY <1>1, <1>2, NoOverlapUnchanged

\* A call of spfs_free_alloc keeps it.
LEMMA CallIInv ==
    ASSUME IInv, NEW t \in Threads, NEW n \in 1 .. MaxRequest, Call(t, n)
    PROVE  IInv'
<1>1. pc' \in [Threads -> Labels] /\ req' \in [Threads -> 1 .. MaxRequest]
      /\ result' \in [Threads -> Nat]
  BY DEF Call, Goto, IInv, TypeOK, Labels
<1>2. \A u \in Threads : pc'[u] # "idle" => phase = "mounted"
  BY DEF Call, Goto, IInv, TypeOK, MountedFirst
<1>3. LockHeld'
  BY DEF Call, Goto, IInv, TypeOK, LockHeld, Inside, list_vars
<1> QED
  BY <1>1, <1>2, <1>3, QuietStepIInv DEF Call, IInv, TypeOK

\* mutex_lock keeps it.
LEMMA LockIInv == ASSUME IInv, NEW t \in Threads, Lock(t) PROVE IInv'
<1>1. pc' \in [Threads -> Labels] /\ lock' \in Threads
  BY DEF Lock, Goto, IInv, TypeOK, Labels
<1>2. \A u \in Threads : pc'[u] # "idle" => phase = "mounted"
  BY DEF Lock, Goto, IInv, TypeOK, MountedFirst
<1>3. \A u \in Threads : pc[u] \notin Inside
  BY ConstantsAssumption DEF Lock, IInv, LockHeld
<1>4. LockHeld'
  BY <1>3 DEF Lock, Goto, IInv, TypeOK, LockHeld, Inside
<1> QED
  BY <1>1, <1>2, <1>4, QuietStepIInv DEF Lock, IInv, TypeOK

\* The comparison with the total keeps it.
LEMMA CheckTotalIInv == ASSUME IInv, NEW t \in Threads, CheckTotal(t) PROVE IInv'
<1>1. pc' \in [Threads -> Labels] /\ it' \in [Threads -> Node \cup {NIL}]
  BY DEF CheckTotal, Goto, IInv, TypeOK, Labels
<1>2. \A u \in Threads : pc'[u] # "idle" => phase = "mounted"
  BY DEF CheckTotal, Goto, IInv, TypeOK, MountedFirst
<1>3. LockHeld'
  BY DEF CheckTotal, Goto, IInv, TypeOK, LockHeld, Inside, Enough, list_vars
<1> QED
  BY <1>1, <1>2, <1>3, QuietStepIInv DEF CheckTotal, IInv, TypeOK

\* Passing over a node that is too small keeps it.
LEMMA SkipNodeIInv == ASSUME IInv, NEW t \in Threads, SkipNode(t) PROVE IInv'
<1>1. it' \in [Threads -> Node \cup {NIL}]
  BY DEF SkipNode, IInv, TypeOK
<1>2. \A u \in Threads : pc'[u] # "idle" => phase = "mounted"
  BY DEF SkipNode, IInv, TypeOK, MountedFirst
<1>3. LockHeld'
  BY DEF SkipNode, IInv, LockHeld, list_vars
<1> QED
  BY <1>1, <1>2, <1>3, QuietStepIInv DEF SkipNode, IInv, TypeOK

\* Reaching the end of the list keeps it.
LEMMA NoNodeIInv == ASSUME IInv, NEW t \in Threads, NoNode(t) PROVE IInv'
<1>1. pc' \in [Threads -> Labels]
  BY DEF NoNode, Goto, IInv, TypeOK, Labels
<1>2. \A u \in Threads : pc'[u] # "idle" => phase = "mounted"
  BY DEF NoNode, Goto, IInv, TypeOK, MountedFirst
<1>3. LockHeld'
  BY DEF NoNode, Goto, IInv, TypeOK, LockHeld, Inside, list_vars
<1> QED
  BY <1>1, <1>2, <1>3, QuietStepIInv DEF NoNode, IInv, TypeOK

\* mutex_unlock keeps it.
LEMMA UnlockIInv == ASSUME IInv, NEW t \in Threads, Unlock(t) PROVE IInv'
<1>1. pc' \in [Threads -> Labels] /\ lock' = NoThread
  BY DEF Unlock, Goto, IInv, TypeOK, Labels
<1>2. \A u \in Threads : pc'[u] # "idle" => phase = "mounted"
  BY DEF Unlock, Goto, IInv, TypeOK, MountedFirst
<1>3. \A u \in Threads : pc[u] \in Inside => u = t
  BY DEF Unlock, IInv, LockHeld, Inside
<1>4. LockHeld'
  BY <1>3 DEF Unlock, Goto, IInv, TypeOK, LockHeld, Inside
<1> QED
  BY <1>1, <1>2, <1>4, QuietStepIInv DEF Unlock, IInv, TypeOK

\* What TakeRun knows about the node it takes from.
LEMMA TakeRunFacts ==
    ASSUME IInv, NEW t \in Threads, TakeRun(t)
    PROVE  /\ it[t] \in Node
           /\ req[t] \in Nat /\ req[t] >= 1
           /\ node_blocks[it[t]] \in Nat /\ req[t] <= node_blocks[it[t]]
           /\ Entry(it[t]).start \in Nat
           /\ RunOf(it[t], req[t]).start \in Nat
           /\ RunOf(it[t], req[t]).start
                = Entry(it[t]).start + (node_blocks[it[t]] - req[t])
           /\ RunOf(it[t], req[t]).blocks = req[t]
           /\ node_blocks' = [node_blocks EXCEPT ![it[t]] = @ - req[t]]
           /\ grants' = Append(grants, RunOf(it[t], req[t]))
           /\ phase = "mounted" /\ phase' = phase
<1>1. it[t] \in Node
  BY DEF TakeRun, IInv, TypeOK
<1>2. req[t] \in Nat /\ req[t] >= 1
  BY ConstantsAssumption DEF IInv, TypeOK
<1>3. node_blocks[it[t]] \in Nat /\ req[t] <= node_blocks[it[t]]
  BY <1>1, <1>2 DEF TakeRun, Fits, IInv, TypeOK
<1>4. Entry(it[t]).start \in Nat
  BY <1>1, EntryFacts
<1>5. phase = "mounted" /\ phase' = phase
  BY DEF TakeRun, IInv, MountedFirst, load_vars
<1> QED
  BY <1>1, <1>2, <1>3, <1>4, <1>5 DEF TakeRun, RunOf

\* Cutting a run off the end of a node keeps it.
LEMMA TakeRunIInv == ASSUME IInv, NEW t \in Threads, TakeRun(t) PROVE IInv'
<1> DEFINE n == it[t]
           r == req[t]
           g == RunOf(n, r)
           a == Entry(n).start
           k == node_blocks[n]
<1>0. /\ n \in Node /\ r \in Nat /\ r >= 1 /\ k \in Nat /\ r <= k /\ a \in Nat
      /\ g.start \in Nat /\ g.start = a + (k - r) /\ g.blocks = r
      /\ node_blocks' = [node_blocks EXCEPT ![n] = @ - r]
      /\ grants' = Append(grants, g)
      /\ phase = "mounted" /\ phase' = phase
  BY TakeRunFacts
<1>1. g \in [start : Nat, blocks : Nat]
  BY <1>0 DEF RunOf
<1>2. pc[t] = "scan" /\ list_blocks > r /\ list_blocks' = list_blocks - r
  BY DEF TakeRun, IInv, LockHeld
<1>3. TypeOK'
  <2>1. list_blocks' \in Nat
    BY <1>0, <1>2 DEF IInv, TypeOK
  <2>2. node_blocks' \in [Node -> Nat]
    BY <1>0 DEF IInv, TypeOK
  <2>3. pc' \in [Threads -> Labels] /\ result' \in [Threads -> Nat]
    BY <1>0 DEF TakeRun, Goto, IInv, TypeOK, Labels
  <2>4. grants' \in Seq([start : Nat, blocks : Nat])
    BY <1>0, <1>1 DEF IInv, TypeOK
  <2> QED
    BY <2>1, <2>2, <2>3, <2>4 DEF TakeRun, IInv, TypeOK, load_vars
<1>4. LoadPlace' /\ MountedFirst' /\ ReserveKept'
  BY <1>0, <1>2, <1>3 DEF IInv, TypeOK, LoadPlace, MountedFirst, ReserveKept
<1>5. LockHeld'
  <2>1. \A u \in Threads : pc[u] \in Inside => u = t
    BY <1>2 DEF IInv, LockHeld, Inside
  <2> QED
    BY <2>1 DEF TakeRun, Goto, IInv, TypeOK, LockHeld, Inside
<1>6. NodeBound'
  <2> SUFFICES ASSUME NEW p \in Node PROVE node_blocks'[p] <= Entry(p).blocks
    BY <1>0 DEF NodeBound
  <2>1. node_blocks[p] \in Nat /\ Entry(p).blocks \in Nat
        /\ node_blocks[p] <= Entry(p).blocks
    BY EntryFacts DEF IInv, TypeOK, NodeBound
  <2>2. node_blocks'[p] = IF p = n THEN k - r ELSE node_blocks[p]
    BY <1>0 DEF IInv, TypeOK
  <2> QED
    BY <1>0, <2>1, <2>2
<1>7. NoOverlap'
  <2>0. Len(grants) \in Nat /\ Len(grants') = Len(grants) + 1
        /\ grants'[Len(grants) + 1] = g
        /\ \A i \in 1 .. Len(grants) : grants'[i] = grants[i]
    BY <1>0, <1>1 DEF IInv, TypeOK
  <2>1. \A i \in 1 .. Len(grants) :
           grants[i].start \in Nat /\ grants[i].blocks \in Nat
    <3>1. grants \in Seq([start : Nat, blocks : Nat])
      BY DEF IInv, TypeOK
    <3>2. \A i \in 1 .. Len(grants) : grants[i] \in [start : Nat, blocks : Nat]
      BY <3>1, ElementInSet
    <3> QED
      BY <3>2
  <2>2. \A p \in Node : /\ FreeRun(p).start = Entry(p).start
                        /\ FreeRun(p).blocks = node_blocks[p]
                        /\ FreeRun(p)'.start = Entry(p).start
                        /\ FreeRun(p)'.blocks = node_blocks'[p]
    BY DEF FreeRun
  <2>3. \A p \in Node : /\ Entry(p).start \in Nat
                        /\ node_blocks[p] \in Nat /\ node_blocks'[p] \in Nat
                        /\ node_blocks'[p] <= node_blocks[p]
    <3> SUFFICES ASSUME NEW p \in Node
                 PROVE  /\ Entry(p).start \in Nat
                        /\ node_blocks[p] \in Nat /\ node_blocks'[p] \in Nat
                        /\ node_blocks'[p] <= node_blocks[p]
      OBVIOUS
    <3>1. Entry(p).start \in Nat /\ node_blocks[p] \in Nat
      BY EntryFacts DEF IInv, TypeOK
    <3>2. node_blocks'[p] = IF p = n THEN k - r ELSE node_blocks[p]
      BY <1>0 DEF IInv, TypeOK
    <3> QED
      BY <1>0, <3>1, <3>2
  <2>4. \A i \in 1 .. Len(grants) : Apart(grants[i], g) /\ Apart(g, grants[i])
    <3> SUFFICES ASSUME NEW i \in 1 .. Len(grants)
                 PROVE  Apart(grants[i], g) /\ Apart(g, grants[i])
      OBVIOUS
    <3>1. Apart(grants[i], FreeRun(n))
      BY <1>0 DEF IInv, NoOverlap
    <3>2. FreeRun(n).start = a /\ FreeRun(n).blocks = k
      BY <1>0, <2>2
    <3>3. \/ grants[i].blocks = 0
          \/ grants[i].start + grants[i].blocks <= a \/ a + k <= grants[i].start
      BY <1>0, <3>1, <3>2 DEF Apart
    <3> HIDE DEF g, a, k, r
    <3> QED
      BY <3>3, <1>0, <2>1 DEF Apart
  <2>5. ASSUME NEW i \in 1 .. Len(grants'), NEW j \in 1 .. Len(grants'), i # j
        PROVE  Apart(grants'[i], grants'[j])
    <3>1. CASE i \in 1 .. Len(grants) /\ j \in 1 .. Len(grants)
      BY <2>5, <3>1, <2>0 DEF IInv, NoOverlap
    <3>2. CASE i = Len(grants) + 1
      BY <2>5, <3>2, <2>0, <2>4
    <3>3. CASE j = Len(grants) + 1
      BY <2>5, <3>3, <2>0, <2>4
    <3> QED
      BY <2>0, <3>1, <3>2, <3>3
  <2>6. ASSUME NEW i \in 1 .. Len(grants'), NEW p \in Node
        PROVE  Apart(grants'[i], FreeRun(p)')
    <3>1. CASE i \in 1 .. Len(grants)
      <4>1. Apart(grants[i], FreeRun(p))
        BY <3>1 DEF IInv, NoOverlap
      <4> QED
        BY <4>1, <3>1, <2>0, <2>1, <2>2, <2>3 DEF Apart
    <3>2. CASE i = Len(grants) + 1 /\ p = n
      <4>1. node_blocks'[n] = k - r
        BY <1>0 DEF IInv, TypeOK
      <4>2. FreeRun(p)'.start = a /\ FreeRun(p)'.blocks = k - r
        BY <4>1, <3>2, <1>0, <2>2
      <4>3. grants'[i] = g
        BY <3>2, <2>0
      <4> HIDE DEF g, a, k, r
      <4> QED
        BY <4>2, <4>3, <1>0 DEF Apart
    <3>3. CASE i = Len(grants) + 1 /\ p # n
      <4>1. Apart(FreeRun(n), FreeRun(p))
        BY <3>3, <1>0 DEF IInv, NoOverlap
      <4> DEFINE b == Entry(p).start
                 m == node_blocks[p]
                 l == node_blocks'[p]
      <4>2. /\ FreeRun(n).start = a /\ FreeRun(n).blocks = k
            /\ FreeRun(p).start = b /\ FreeRun(p).blocks = m
            /\ FreeRun(p)'.start = b /\ FreeRun(p)'.blocks = l
        BY <1>0, <2>2
      <4>3. b \in Nat /\ m \in Nat /\ l \in Nat /\ l <= m
        BY <2>3
      <4>4. grants'[i] = g
        BY <3>3, <2>0
      <4>5. m = 0 \/ a + k <= b \/ b + m <= a
        BY <1>0, <4>1, <4>2 DEF Apart
      <4> HIDE DEF g, a, k, r, b, m, l
      <4> QED
        BY <4>2, <4>3, <4>4, <4>5, <1>0 DEF Apart
    <3> QED
      BY <2>0, <3>1, <3>2, <3>3
  <2>7. ASSUME NEW p \in Node, NEW q \in Node, p # q
        PROVE  Apart(FreeRun(p)', FreeRun(q)')
    <3>1. Apart(FreeRun(p), FreeRun(q))
      BY <2>7 DEF IInv, NoOverlap
    <3> QED
      BY <3>1, <2>2, <2>3 DEF Apart
  <2>8. ASSUME NEW i \in 1 .. Len(grants')
        PROVE  /\ grants'[i].start >= 2
               /\ grants'[i].start + grants'[i].blocks <= DeviceBlocks
    <3>1. CASE i \in 1 .. Len(grants)
      BY <3>1, <2>0 DEF IInv, NoOverlap
    <3>2. CASE i = Len(grants) + 1
      <4>1. /\ a >= 2 /\ Entry(n).blocks \in Nat /\ k <= Entry(n).blocks
            /\ a + Entry(n).blocks <= DeviceBlocks
        BY <1>0, EntryFacts DEF IInv, NodeBound
      <4> QED
        BY <3>2, <4>1, <1>0, <2>0, ConstantsAssumption
    <3> QED
      BY <2>0, <3>1, <3>2
  <2> QED
    BY <2>5, <2>6, <2>7, <2>8 DEF NoOverlap, Apart
<1> QED
  BY <1>3, <1>4, <1>5, <1>6, <1>7 DEF IInv

-----------------------------------------------------------------------------
(* The theorems *)

\* Every step of the allocator keeps the invariant.
LEMMA NextIInv == IInv /\ [Next]_vars => IInv'
<1> SUFFICES ASSUME IInv, [Next]_vars PROVE IInv'
  OBVIOUS
<1>1. CASE ReadHeader
  BY <1>1, ReadHeaderIInv
<1>2. CASE ReadEntry
  BY <1>2, ReadEntryIInv
<1>3. CASE NextBlock
  BY <1>3, NextBlockIInv
<1>4. CASE InitDone \/ InitFails
  BY <1>4, InitEndIInv
<1>5. ASSUME NEW t \in Threads, Step(t) PROVE IInv'
  BY <1>5, LockIInv, CheckTotalIInv, SkipNodeIInv, TakeRunIInv, NoNodeIInv,
     UnlockIInv DEF Step
<1>6. ASSUME NEW t \in Threads, NEW n \in 1 .. MaxRequest, Call(t, n) PROVE IInv'
  BY <1>6, CallIInv
<1>7. CASE UNCHANGED vars
  BY <1>7, QuietStepIInv
     DEF vars, load_vars, list_vars, call_vars, IInv, TypeOK, MountedFirst, LockHeld
<1> QED
  BY <1>1, <1>2, <1>3, <1>4, <1>5, <1>6, <1>7 DEF Next

\* IInv is an inductive invariant of the allocator.
THEOREM Invariant == Spec => []IInv
<1> QED
  BY InitIInv, NextIInv, PTL DEF Spec

\* No counter of the allocator underflows and no pointer leaves the list.
THEOREM TypeCorrect == Spec => []TypeOK
<1>1. IInv => TypeOK
  BY DEF IInv
<1> QED
  BY <1>1, Invariant, PTL

\* No sector is handed out twice, for any number of concurrent callers.
THEOREM NoDoubleAllocation == Spec => []NoOverlap
<1>1. IInv => NoOverlap
  BY DEF IInv
<1> QED
  BY <1>1, Invariant, PTL

\* A mounted volume always keeps a block in reserve.
THEOREM ReserveIsKept == Spec => []ReserveKept
<1>1. IInv => ReserveKept
  BY DEF IInv
<1> QED
  BY <1>1, Invariant, PTL

\* free_list->lock gives mutual exclusion.
THEOREM MutualExclusion == Spec => []OneCallerInside
<1>1. IInv => OneCallerInside
  BY DEF IInv, LockHeld, Inside, OneCallerInside
<1> QED
  BY <1>1, Invariant, PTL

-----------------------------------------------------------------------------
(* The list: its order, what a search has passed, and its total *)

\* The entry of p is read before that of q.
Before(p, q) == p[1] < q[1] \/ (p[1] = q[1] /\ p[2] < q[2])

\* The list from x on contains q.
Reaches(x, q) == x # NIL /\ (q = x \/ Before(q, x))

\* The list has the nodes that were read, the last one first.
Linked ==
    /\ phase = "mounted" => blk > Len(Image)
    /\ \A q \in Node : Loaded(q) <=> Reaches(root, q)
    /\ \A p, q \in Node : Loaded(p) => (Before(q, p) <=> Reaches(next[p], q))

\* The nodes a caller has passed are too small for it.
Searched ==
    \A t \in Threads : pc[t] = "scan" =>
        \A q \in Node : Reaches(it[t], q) \/ ~Fits(q, req[t])

\* f[p] is the number of blocks that the list has from p on, summed up along
\* next, and the list's total is f[root].
IsSum(f) ==
    /\ f \in [Node \cup {NIL} -> Nat] /\ f[NIL] = 0
    /\ \A p \in Node : Loaded(p) => f[p] = node_blocks[p] + f[next[p]]
    /\ \A p, q \in Node : Loaded(p) /\ Before(q, p) => f[p] >= node_blocks[p] + f[q]
    /\ list_blocks = f[root]

\* free_list->blocks is the sum of node->blocks over the list.
TotalIsSum == \E f \in [Node \cup {NIL} -> Nat] : IsSum(f)

ListInv == Linked /\ Searched /\ RefusedOnlyWhenFull /\ TotalIsSum

\* Reading order is transitive and nobody comes before himself.
LEMMA OrderFacts ==
    /\ \A p \in Node : ~Before(p, p)
    /\ \A p, q, r \in Node : Before(p, q) /\ Before(q, r) => Before(p, r)
    /\ \A p, q \in Node : Before(p, q) => ~Before(q, p)
<1>1. \A p \in Node : p[1] \in Nat /\ p[2] \in Nat
  BY NodeShape, LengthFacts
<1> QED
  BY <1>1 DEF Before

\* A node that was read stays read, and its predecessors were read too.
LEMMA LoadedBefore ==
    ASSUME TypeOK, NEW p \in Node, NEW q \in Node, Loaded(p), Before(q, p)
    PROVE  Loaded(q)
<1>1. /\ p[1] \in Nat /\ p[2] \in Nat /\ q[1] \in Nat /\ q[2] \in Nat
      /\ blk \in Nat /\ ent \in Nat
  BY NodeShape, LengthFacts DEF TypeOK
<1> QED
  BY <1>1 DEF Loaded, Before

\* The list before the first node is read.
LEMMA InitListInv == Init => ListInv
<1> SUFFICES ASSUME Init PROVE ListInv
  OBVIOUS
<1>1. \A q \in Node : ~Loaded(q)
  BY NodeShape, LengthFacts DEF Init, Loaded
<1>2. Linked
  BY <1>1 DEF Init, Linked, Reaches
<1>3. Searched /\ RefusedOnlyWhenFull
  BY DEF Init, Searched, RefusedOnlyWhenFull
<1>4. TotalIsSum
  <2> DEFINE f == [x \in Node \cup {NIL} |-> 0]
  <2>1. IsSum(f)
    BY <1>1 DEF Init, IsSum
  <2> QED
    BY <2>1 DEF TotalIsSum, IsSum
<1> QED
  BY <1>2, <1>3, <1>4 DEF ListInv

\* A step that leaves the nodes and their order alone.
LEMMA SameListInv ==
    ASSUME ListInv, UNCHANGED list_vars, \A q \in Node : Loaded(q)' <=> Loaded(q),
           phase' = "mounted" => blk' > Len(Image),
           Searched', RefusedOnlyWhenFull'
    PROVE  ListInv'
<1> USE DEF list_vars
<1>1. Linked'
  BY DEF ListInv, Linked, Reaches
<1>2. TotalIsSum'
  <2>1. PICK f \in [Node \cup {NIL} -> Nat] : IsSum(f)
    BY DEF ListInv, TotalIsSum
  <2>2. IsSum(f)'
    BY <2>1 DEF IsSum
  <2> QED
    BY <2>2 DEF TotalIsSum
<1> QED
  BY <1>1, <1>2 DEF ListInv

\* Loading goes on, ends or fails.
LEMMA LoadListInv ==
    ASSUME IInv, ListInv, ReadHeader \/ NextBlock \/ InitDone \/ InitFails
    PROVE  ListInv'
<1>1. \A q \in Node : Loaded(q)' <=> Loaded(q)
  <2> SUFFICES ASSUME NEW q \in Node
               PROVE  Loaded(q)' <=> Loaded(q)
    OBVIOUS
  <2>1. /\ q[1] \in Nat /\ q[2] \in Nat /\ q[2] >= 1 /\ blk \in Nat /\ ent \in Nat
        /\ q[1] = blk => q[2] <= Len(Image[blk])
    BY NodeShape, LengthFacts DEF IInv, TypeOK
  <2>2. CASE ReadHeader
    BY <2>1, <2>2 DEF ReadHeader, Loaded
  <2>3. CASE NextBlock
    <3>1. blk' = blk + 1 /\ ent' = 0 /\ ent = Len(Image[blk]) + 1
      BY <2>3 DEF NextBlock
    <3> QED
      BY <2>1, <3>1 DEF Loaded
  <2>4. CASE InitDone \/ InitFails
    BY <2>4 DEF InitDone, InitFails, Loaded
  <2> QED
    BY <2>2, <2>3, <2>4
<1>2. /\ UNCHANGED list_vars /\ UNCHANGED call_vars
      /\ phase' = "mounted" => blk' > Len(Image)
  BY DEF ReadHeader, NextBlock, InitDone, InitFails
<1>3. Searched' /\ RefusedOnlyWhenFull'
  BY <1>2
  DEF ListInv, Searched, Reaches, RefusedOnlyWhenFull, Fits, Enough, list_vars, call_vars
<1> QED
  BY <1>1, <1>2, <1>3, SameListInv

\* A node that is read becomes the head of the list and is added to the total.
LEMMA ReadEntryListInv ==
    ASSUME IInv, ListInv, ReadEntry
    PROVE  ListInv'
<1> DEFINE p == <<blk, ent>>
<1>1. /\ p \in Node /\ \A q \in Node : q[1] = blk /\ q[2] = ent => q = p
      /\ p[1] = blk /\ p[2] = ent /\ blk \in Nat /\ ent \in Nat
  BY PlaceFacts, LengthFacts DEF ReadEntry, IInv, TypeOK
<1>2. \A q \in Node : Before(q, p) <=> Loaded(q)
  BY DEF Before, Loaded
<1>3. /\ node_blocks' = [node_blocks EXCEPT ![p] = Entry(p).blocks]
      /\ next' = [next EXCEPT ![p] = root]
      /\ root' = p
      /\ list_blocks' = list_blocks + Entry(p).blocks
      /\ blk' = blk /\ ent' = ent + 1 /\ phase' = phase /\ phase = "loading"
      /\ UNCHANGED call_vars
  BY DEF ReadEntry
<1>4. Entry(p).blocks \in Nat /\ p # NIL
  BY <1>1, EntryFacts, ConstantsAssumption
<1> HIDE DEF p
<1>5. \A q \in Node : Loaded(q)' <=> Loaded(q) \/ q = p
  <2> SUFFICES ASSUME NEW q \in Node
               PROVE  Loaded(q)' <=> Loaded(q) \/ q = p
    OBVIOUS
  <2>1. q[1] \in Nat /\ q[2] \in Nat
    BY NodeShape, LengthFacts
  <2> QED
    BY <1>1, <1>3, <2>1 DEF Loaded
<1>6. ~Loaded(p)
  BY <1>1, <1>2, OrderFacts
<1>7. \A r, q \in Node : Loaded(r) /\ Before(q, r) => Loaded(q)
  BY LoadedBefore DEF IInv
<1>8. root \in Node \cup {NIL} /\ \A r \in Node : next[r] \in Node \cup {NIL}
  BY DEF IInv, TypeOK
<1>9. \A r \in Node : Loaded(r) => next'[r] = next[r] /\ node_blocks'[r] = node_blocks[r] /\ r # p
  BY <1>3, <1>6 DEF IInv, TypeOK
<1>10. next'[p] = root /\ node_blocks'[p] = Entry(p).blocks
  BY <1>1, <1>3 DEF IInv, TypeOK
<1>11. Linked'
  <2>1. \A q \in Node : Loaded(q)' <=> Reaches(root, q)'
    BY <1>2, <1>3, <1>4, <1>5 DEF Reaches
  <2>2. ASSUME NEW r \in Node, NEW q \in Node, Loaded(r)'
        PROVE  Before(q, r) <=> Reaches(next[r], q)'
    <3>1. CASE r = p
      BY <1>2, <1>10, <3>1 DEF Reaches, ListInv, Linked
    <3>2. CASE Loaded(r)
      BY <1>9, <3>2 DEF Reaches, ListInv, Linked
    <3> QED
      BY <1>5, <2>2, <3>1, <3>2
  <2> QED
    BY <1>3, <2>1, <2>2 DEF Linked, Before
<1>12. Searched' /\ RefusedOnlyWhenFull'
  <2>1. \A t \in Threads : pc'[t] = "idle"
    BY <1>3 DEF call_vars, IInv, MountedFirst
  <2> QED
    BY <2>1 DEF Searched, RefusedOnlyWhenFull
<1>13. TotalIsSum'
  <2>1. PICK f \in [Node \cup {NIL} -> Nat] : IsSum(f)
    BY DEF ListInv, TotalIsSum
  <2> DEFINE k == Entry(p).blocks + f[root]
             g == [f EXCEPT ![p] = k]
  <2>2. k \in Nat /\ f[root] \in Nat /\ list_blocks = f[root]
    BY <1>4, <1>8, <2>1 DEF IsSum
  <2>3. g \in [Node \cup {NIL} -> Nat] /\ g[p] = k /\ \A x \in Node \cup {NIL} : x # p => g[x] = f[x]
    BY <1>1, <2>1, <2>2
  <2>k. k = Entry(p).blocks + f[root]
    OBVIOUS
  <2> HIDE DEF g, k
  <2>4. ASSUME NEW r \in Node, Loaded(r)
        PROVE  /\ g[r] = f[r] /\ next[r] # p /\ g[next[r]] = f[next[r]]
               /\ node_blocks[r] \in Nat
    <3>1. next[r] # p
      <4>1. next[r] \in Node => Loaded(next[r])
        BY <1>7, <1>8, <2>4, ConstantsAssumption DEF ListInv, Linked, Reaches
      <4> QED
        BY <1>1, <1>6, <4>1
    <3> QED
      BY <1>8, <1>9, <2>3, <2>4, <3>1 DEF IInv, TypeOK
  <2>5. root # p
    BY <1>1, <1>4, <1>6 DEF ListInv, Linked, Reaches
  <2>6. \A r \in Node : Loaded(r)' => g[r] = node_blocks'[r] + g[next'[r]]
    <3>1. g[p] = node_blocks'[p] + g[next'[p]]
      BY <1>8, <1>10, <2>2, <2>3, <2>5, <2>k
    <3>2. ASSUME NEW r \in Node, Loaded(r)
          PROVE  g[r] = node_blocks'[r] + g[next'[r]]
      BY <1>9, <2>1, <2>4, <3>2 DEF IsSum
    <3> QED
      BY <1>5, <3>1, <3>2
  <2>7. \A r, q \in Node : Loaded(r)' /\ Before(q, r) => g[r] >= node_blocks'[r] + g[q]
    <3>1. ASSUME NEW q \in Node, Before(q, p)
          PROVE  g[p] >= node_blocks'[p] + g[q]
      <4>1. Loaded(q) /\ g[q] = f[q] /\ Reaches(root, q)
        BY <1>2, <2>4, <3>1 DEF ListInv, Linked
      <4>2. CASE q = root
        BY <1>4, <1>10, <2>2, <2>3, <2>k, <4>1, <4>2
      <4>3. CASE q # root
        <5>1. root \in Node /\ Loaded(root) /\ Before(q, root)
          BY <1>8, <4>1, <4>3, ConstantsAssumption DEF Reaches, ListInv, Linked
        <5>2. f[root] >= node_blocks[root] + f[q] /\ node_blocks[root] \in Nat /\ f[q] \in Nat
          BY <2>1, <2>4, <5>1 DEF IsSum
        <5> QED
          BY <1>4, <1>10, <2>2, <2>3, <2>k, <4>1, <5>2
      <4> QED
        BY <4>2, <4>3
    <3>2. ASSUME NEW r \in Node, NEW q \in Node, Loaded(r), Before(q, r)
          PROVE  g[r] >= node_blocks'[r] + g[q]
      <4>1. Loaded(q) /\ f[r] >= node_blocks[r] + f[q]
        BY <1>7, <2>1, <3>2 DEF IsSum
      <4> QED
        BY <1>9, <2>4, <3>2, <4>1
    <3> QED
      BY <1>5, <3>1, <3>2
  <2>8. list_blocks' = g[root']
    BY <1>3, <1>4, <2>2, <2>3, <2>k
  <2>9. g[NIL] = 0
    BY <1>4, <2>1, <2>3 DEF IsSum
  <2>10. PICK h \in [Node \cup {NIL} -> Nat] : h = g
    BY <2>3
  <2>11. IsSum(h)'
    BY <2>6, <2>7, <2>8, <2>9, <2>10 DEF IsSum, Before
  <2> QED
    BY <2>11 DEF TotalIsSum
<1> QED
  BY <1>11, <1>12, <1>13 DEF ListInv

\* A step of a caller that leaves the list alone.
LEMMA QuietListInv ==
    ASSUME ListInv, UNCHANGED <<load_vars, list_vars>>, Searched', RefusedOnlyWhenFull'
    PROVE  ListInv'
<1>1. \A q \in Node : Loaded(q)' <=> Loaded(q)
  BY DEF load_vars, Loaded
<1>2. phase' = "mounted" => blk' > Len(Image)
  BY DEF load_vars, ListInv, Linked
<1> QED
  BY <1>1, <1>2, SameListInv

\* On a mounted volume every node is in the list.
LEMMA AllListed ==
    ASSUME IInv, ListInv, phase = "mounted"
    PROVE  /\ \A q \in Node : Loaded(q) /\ Reaches(root, q)
           /\ \A p, q \in Node : Before(q, p) <=> Reaches(next[p], q)
<1>1. blk > Len(Image) /\ blk \in Nat
  BY LengthFacts DEF ListInv, Linked, IInv, TypeOK
<1>2. \A q \in Node : Loaded(q)
  BY <1>1, NodeShape, LengthFacts DEF Loaded
<1> QED
  BY <1>2 DEF ListInv, Linked

\* The callers: what one has passed stays too small, since nobody else changes
\* the list meanwhile, and the next node is the next one that was read.
LEMMA CallerListInv ==
    ASSUME IInv, ListInv, NEW t \in Threads,
           \/ \E n \in 1 .. MaxRequest : Call(t, n)
           \/ Lock(t) \/ CheckTotal(t) \/ SkipNode(t) \/ NoNode(t) \/ Unlock(t)
    PROVE  ListInv'
<1> USE DEF IInv, TypeOK, Goto
<1>1. UNCHANGED <<load_vars, list_vars>>
  BY DEF Call, Lock, CheckTotal, SkipNode, NoNode, Unlock
<1>2. \A u \in Threads \ {t} : /\ pc'[u] = pc[u] /\ req'[u] = req[u]
                               /\ it'[u] = it[u] /\ result'[u] = result[u]
  BY DEF Call, Lock, CheckTotal, SkipNode, NoNode, Unlock
<1>3. pc'[t] \in {"scan", "unlock"} => phase = "mounted"
  BY DEF MountedFirst, Call, Lock, CheckTotal, SkipNode, NoNode, Unlock
<1>4. pc'[t] = "scan" => \A q \in Node : Reaches(it'[t], q) \/ ~Fits(q, req'[t])
  <2>1. CASE CheckTotal(t) /\ pc'[t] = "scan"
    <3>1. it'[t] = root
      BY <2>1 DEF CheckTotal
    <3> QED
      BY <1>3, <2>1, <3>1, AllListed
  <2>2. CASE SkipNode(t)
    <3>1. /\ it[t] \in Node /\ it'[t] = next[it[t]] /\ ~Fits(it[t], req[t])
          /\ req'[t] = req[t] /\ pc[t] = "scan" /\ pc' = pc
      BY <2>2 DEF SkipNode
    <3>2. \A q \in Node : Before(q, it[t]) <=> Reaches(next[it[t]], q)
      BY <1>3, <3>1, AllListed
    <3>3. \A q \in Node : Reaches(it[t], q) \/ ~Fits(q, req[t])
      BY <3>1 DEF ListInv, Searched
    <3> QED
      BY <3>1, <3>2, <3>3 DEF Reaches
  <2>3. ~SkipNode(t) /\ ~CheckTotal(t) => pc'[t] # "scan"
    BY DEF Call, Lock, NoNode, Unlock
  <2> QED
    BY <2>1, <2>2, <2>3
<1>5. pc'[t] = "unlock" /\ result'[t] = 0 =>
          ~Enough(req'[t]) \/ \A q \in Node : ~Fits(q, req'[t])
  <2>1. CASE CheckTotal(t)
    BY <2>1 DEF CheckTotal
  <2>2. CASE NoNode(t)
    BY <2>2 DEF NoNode, ListInv, Searched, Reaches
  <2>3. ~CheckTotal(t) /\ ~NoNode(t) => pc'[t] # "unlock"
    BY DEF Call, Lock, SkipNode, Unlock
  <2> QED
    BY <2>1, <2>2, <2>3
<1>6. Searched'
  <2> SUFFICES ASSUME NEW u \in Threads, pc'[u] = "scan", NEW q \in Node
               PROVE  Reaches(it'[u], q) \/ ~Fits(q, req[u])'
    BY DEF Searched, Reaches, Before
  <2>1. Reaches(it'[u], q) \/ ~Fits(q, req'[u])
    BY <1>2, <1>4 DEF ListInv, Searched
  <2> QED
    BY <1>1, <2>1 DEF Fits, list_vars
<1>7. RefusedOnlyWhenFull'
  <2> SUFFICES ASSUME NEW u \in Threads, pc'[u] = "unlock", result'[u] = 0
               PROVE  ~Enough(req[u])' \/ \A q \in Node : ~Fits(q, req[u])'
    BY DEF RefusedOnlyWhenFull
  <2>1. ~Enough(req'[u]) \/ \A q \in Node : ~Fits(q, req'[u])
    BY <1>2, <1>5 DEF ListInv, RefusedOnlyWhenFull
  <2> QED
    BY <1>1, <2>1 DEF Fits, Enough, list_vars
<1> QED
  BY <1>1, <1>6, <1>7, QuietListInv

\* A run that is cut off is subtracted from its node and from the total; the
\* caller has a result.
LEMMA TakeRunListInv ==
    ASSUME IInv, ListInv, NEW t \in Threads, TakeRun(t)
    PROVE  ListInv'
<1> DEFINE m == it[t]
           n == req[t]
<1>1. /\ m \in Node /\ n \in Nat /\ n >= 1 /\ node_blocks[m] \in Nat /\ n <= node_blocks[m]
      /\ node_blocks' = [node_blocks EXCEPT ![m] = @ - n] /\ phase = "mounted"
  BY TakeRunFacts
<1>2. /\ UNCHANGED <<load_vars, root, next, req, it>> /\ pc[t] = "scan"
      /\ list_blocks' = list_blocks - n /\ pc' = [pc EXCEPT ![t] = "unlock"]
      /\ result' = [result EXCEPT ![t] = RunOf(m, n).start]
  BY DEF TakeRun, Goto
<1>3. /\ \A p \in Node : node_blocks[p] \in Nat
      /\ node_blocks'[m] = node_blocks[m] - n
      /\ \A p \in Node : p # m => node_blocks'[p] = node_blocks[p]
  BY <1>1 DEF IInv, TypeOK
<1>4. m # NIL /\ \A p \in Node : p # NIL
  BY <1>1, ConstantsAssumption
<1>5. /\ \A q \in Node : Loaded(q) /\ Reaches(root, q)
      /\ \A p, q \in Node : Before(q, p) <=> Reaches(next[p], q)
  BY <1>1, AllListed
<1>6. /\ root \in Node \cup {NIL} /\ \A p \in Node : next[p] \in Node \cup {NIL}
  BY DEF IInv, TypeOK
<1>7. \A u \in Threads : pc[u] \in Inside => u = t
  BY <1>2 DEF IInv, LockHeld, Inside
<1>8. RunOf(m, n).start # 0
  <2>0. /\ Entry(m).blocks \in Nat /\ node_blocks[m] \in Nat /\ n \in Nat /\ n >= 1
        /\ n <= node_blocks[m] /\ node_blocks[m] <= Entry(m).blocks
    BY <1>1, EntryFacts, TakeRunFacts DEF IInv, NodeBound
  <2>1. /\ Entry(m).start \in Nat /\ Entry(m).start >= 2
        /\ RunOf(m, n).start = Entry(m).start + (node_blocks[m] - n)
    BY <1>1, <2>0, EntryFacts, TakeRunFacts
  <2> QED
    BY <1>1, <2>1
<1>9. \A u \in Threads : pc'[u] # "scan" /\ (pc'[u] = "unlock" => result'[u] # 0)
  BY <1>2, <1>7, <1>8 DEF Inside, IInv, TypeOK
<1>10. Searched' /\ RefusedOnlyWhenFull'
  BY <1>9 DEF Searched, RefusedOnlyWhenFull
<1>11. \A q \in Node : Loaded(q)' <=> Loaded(q)
  BY <1>2 DEF load_vars, Loaded
<1>12. Linked'
  BY <1>2, <1>11 DEF ListInv, Linked, Reaches, load_vars
<1> HIDE DEF m, n
<1>13. TotalIsSum'
  <2>1. PICK f \in [Node \cup {NIL} -> Nat] : IsSum(f)
    BY DEF ListInv, TotalIsSum
  <2>2. /\ \A p \in Node : f[p] = node_blocks[p] + f[next[p]]
        /\ \A p, q \in Node : Before(q, p) => f[p] >= node_blocks[p] + f[q]
        /\ list_blocks = f[root] /\ f[NIL] = 0
    BY <1>5, <2>1 DEF IsSum
  <2>3. \A x \in Node \cup {NIL} : f[x] \in Nat
    BY <2>1
  <2>4. f[m] >= node_blocks[m] /\ \A x \in Node \cup {NIL} : Reaches(x, m) => f[x] >= n
    <3>1. f[m] >= node_blocks[m]
      BY <1>1, <1>6, <2>2, <2>3
    <3>2. ASSUME NEW x \in Node, Before(m, x)
          PROVE  f[x] >= f[m]
      BY <1>1, <1>3, <2>2, <2>3, <3>2
    <3>3. ASSUME NEW x \in Node \cup {NIL}, Reaches(x, m)
          PROVE  f[x] >= n
      <4>1. x \in Node /\ (x = m \/ Before(m, x))
        BY <3>3 DEF Reaches
      <4> QED
        BY <1>1, <2>3, <3>1, <3>2, <4>1
    <3> QED
      BY <3>1, <3>3
  <2> DEFINE g == [x \in Node \cup {NIL} |-> IF Reaches(x, m) THEN f[x] - n ELSE f[x]]
  <2>5. g \in [Node \cup {NIL} -> Nat]
    BY <1>1, <2>3, <2>4
  <2>6. \A x \in Node \cup {NIL} : /\ Reaches(x, m) => g[x] = f[x] - n
                                   /\ ~Reaches(x, m) => g[x] = f[x]
    OBVIOUS
  <2> HIDE DEF g
  <2>7. /\ Reaches(m, m) /\ ~Reaches(NIL, m)
        /\ \A p \in Node : p # m => (Reaches(p, m) <=> Before(m, p))
        /\ \A p \in Node : Before(m, p) <=> Reaches(next[p], m)
        /\ ~Before(m, m) /\ ~Reaches(next[m], m) /\ Reaches(root, m)
    BY <1>1, <1>4, <1>5, OrderFacts DEF Reaches
  <2>8. ASSUME NEW p \in Node
        PROVE  g[p] = node_blocks'[p] + g[next[p]]
    <3>1. f[p] = node_blocks[p] + f[next[p]] /\ f[p] \in Nat /\ f[next[p]] \in Nat
      BY <1>6, <2>2, <2>3
    <3>2. CASE p = m
      BY <1>1, <1>3, <1>6, <2>6, <2>7, <3>1, <3>2
    <3>3. CASE p # m
      BY <1>1, <1>3, <1>6, <2>6, <2>7, <3>1, <3>3
    <3> QED
      BY <3>2, <3>3
  <2>9. ASSUME NEW p \in Node, NEW q \in Node, Before(q, p)
        PROVE  g[p] >= node_blocks'[p] + g[q]
    <3>0. /\ f[p] >= node_blocks[p] + f[q] /\ f[p] \in Nat /\ f[q] \in Nat
          /\ node_blocks[p] \in Nat
      BY <1>3, <2>2, <2>3, <2>9
    <3>1. CASE Reaches(q, m)
      <4>1. p # m /\ Reaches(p, m)
        BY <1>1, <1>4, <2>7, <2>9, <3>1, OrderFacts DEF Reaches
      <4> QED
        BY <1>1, <1>3, <2>6, <3>0, <3>1, <4>1
    <3>2. CASE ~Reaches(q, m) /\ p = m
      BY <1>1, <1>3, <2>6, <2>7, <3>0, <3>2
    <3>3. CASE ~Reaches(q, m) /\ p # m /\ ~Reaches(p, m)
      BY <1>3, <2>6, <3>0, <3>3
    <3>4. CASE ~Reaches(q, m) /\ p # m /\ Reaches(p, m)
      <4>1. Before(m, p)
        BY <2>7, <3>4
      <4>2. Before(q, m)
        <5>1. /\ q[1] \in Nat /\ q[2] \in Nat /\ m[1] \in Nat /\ m[2] \in Nat
          BY <1>1, NodeShape, LengthFacts
        <5>2. q # m /\ ~Before(m, q)
          BY <1>4, <3>4 DEF Reaches
        <5>3. q[1] = m[1] /\ q[2] = m[2] => q = m
          BY <1>1, NodeShape, PlaceFacts
        <5> QED
          BY <5>1, <5>2, <5>3 DEF Before
      <4>3. f[p] >= node_blocks[p] + f[m] /\ f[m] >= node_blocks[m] + f[q] /\ f[m] \in Nat
        BY <1>1, <2>2, <2>3, <4>1, <4>2
      <4> QED
        BY <1>1, <1>3, <2>6, <3>0, <3>4, <4>3
    <3> QED
      BY <3>1, <3>2, <3>3, <3>4
  <2>10. list_blocks' = g[root] /\ g[NIL] = 0
    BY <1>2, <1>6, <2>2, <2>6, <2>7 DEF n
  <2>11. PICK h \in [Node \cup {NIL} -> Nat] : h = g
    BY <2>5
  <2>12. IsSum(h)'
    <3>1. root' = root /\ next' = next
      BY <1>2
    <3> QED
      BY <2>8, <2>9, <2>10, <2>11, <3>1 DEF IsSum, Before
  <2> QED
    BY <2>12 DEF TotalIsSum
<1> QED
  BY <1>10, <1>12, <1>13 DEF ListInv

\* Every step keeps the list in order.
LEMMA NextListInv == IInv /\ ListInv /\ [Next]_vars => ListInv'
<1> SUFFICES ASSUME IInv, ListInv, [Next]_vars PROVE ListInv'
  OBVIOUS
<1>1. CASE ReadHeader \/ NextBlock \/ InitDone \/ InitFails
  BY <1>1, LoadListInv
<1>2. CASE ReadEntry
  BY <1>2, ReadEntryListInv
<1>3. ASSUME NEW t \in Threads, Step(t) \/ \E n \in 1 .. MaxRequest : Call(t, n)
      PROVE  ListInv'
  BY <1>3, CallerListInv, TakeRunListInv DEF Step
<1>4. CASE UNCHANGED vars
  <2>1. Searched' /\ RefusedOnlyWhenFull'
    BY <1>4
    DEF vars, list_vars, call_vars, ListInv, Searched, Reaches, RefusedOnlyWhenFull, Fits, Enough
  <2> QED
    BY <1>4, <2>1, QuietListInv DEF vars
<1> QED
  BY <1>1, <1>2, <1>3, <1>4 DEF Next

\* The order of the list holds in every reachable state.
THEOREM ListInvariant == Spec => []ListInv
<1> QED
  BY Invariant, InitListInv, NextListInv, PTL DEF Spec

\* spfs_free_alloc refuses only when the total is not larger than the request or
\* no run of the image has that many blocks left: the search sees every node,
\* and none of them changes behind its back.
THEOREM JustifiedRefusal == Spec => []RefusedOnlyWhenFull
<1>1. ListInv => RefusedOnlyWhenFull
  BY DEF ListInv
<1> QED
  BY <1>1, ListInvariant, PTL

\* free_list->blocks is the sum of node->blocks along the list, whatever is read
\* and whatever is taken; on a mounted volume it is no less than any two nodes
\* have together.
THEOREM TotalIsExact ==
    Spec => [](/\ TotalIsSum
               /\ phase = "mounted" => \A p, q \in Node :
                     p # q => list_blocks >= node_blocks[p] + node_blocks[q])
<1> DEFINE Pairs == phase = "mounted" => \A p, q \in Node :
                       p # q => list_blocks >= node_blocks[p] + node_blocks[q]
<1>1. ASSUME IInv, ListInv, phase = "mounted", NEW p \in Node, NEW q \in Node, Before(q, p)
      PROVE  list_blocks >= node_blocks[p] + node_blocks[q]
  <2>1. PICK f \in [Node \cup {NIL} -> Nat] : IsSum(f)
    BY <1>1 DEF ListInv, TotalIsSum
  <2>2. /\ \A r \in Node : Loaded(r) /\ Reaches(root, r)
        /\ root \in Node \cup {NIL} /\ \A r \in Node : next[r] \in Node \cup {NIL}
        /\ \A r \in Node : node_blocks[r] \in Nat
    BY <1>1, AllListed DEF IInv, TypeOK
  <2>3. f[p] >= node_blocks[p] + f[q] /\ f[q] = node_blocks[q] + f[next[q]]
    BY <1>1, <2>1, <2>2 DEF IsSum
  <2>4. f[root] >= f[p]
    <3>1. CASE root = p
      BY <2>1, <3>1
    <3>2. CASE root # p
      <4>1. root \in Node /\ Before(p, root)
        BY <2>2, <3>2 DEF Reaches
      <4>2. f[root] >= node_blocks[root] + f[p]
        BY <2>1, <2>2, <4>1 DEF IsSum
      <4> QED
        BY <2>1, <2>2, <4>1, <4>2
    <3> QED
      BY <3>1, <3>2
  <2>5. list_blocks = f[root] /\ f[root] \in Nat /\ f[p] \in Nat /\ f[q] \in Nat /\ f[next[q]] \in Nat
    BY <2>1, <2>2 DEF IsSum
  <2> QED
    BY <2>2, <2>3, <2>4, <2>5
<1>2. IInv /\ ListInv => TotalIsSum /\ Pairs
  <2> SUFFICES ASSUME IInv, ListInv PROVE TotalIsSum /\ Pairs
    OBVIOUS
  <2>1. \A p, q \in Node : p # q => Before(p, q) \/ Before(q, p)
    <3> SUFFICES ASSUME NEW p \in Node, NEW q \in Node, p # q
                 PROVE  Before(p, q) \/ Before(q, p)
      OBVIOUS
    <3>1. p[1] \in Nat /\ p[2] \in Nat /\ q[1] \in Nat /\ q[2] \in Nat
      BY NodeShape, LengthFacts
    <3>2. p[1] = q[1] /\ p[2] = q[2] => p = q
      BY NodeShape, PlaceFacts
    <3> QED
      BY <3>1, <3>2 DEF Before
  <2>2. \A p \in Node : node_blocks[p] \in Nat
    BY DEF IInv, TypeOK
  <2> QED
    BY <1>1, <2>1, <2>2 DEF ListInv
<1> QED
  BY <1>2, Invariant, ListInvariant, PTL

-----------------------------------------------------------------------------
(* The total, as a sum over the set of nodes: by induction over its subsets *)

\* The image is finite, and so is the number of nodes.
LEMMA NodeFinite == IsFiniteSet(Node)
<1> DEFINE B == 1 .. Len(Image)
           row == [b \in B |-> {b} \X (1 .. Len(Image[b]))]
           rows == {row[b] : b \in B}
<1>1. IsFiniteSet(B)
  BY LengthFacts, FS_Interval
<1>2. row \in Surjection(B, rows)
  BY Zenon DEF Surjection
<1>3. IsFiniteSet(rows)
  <2> HIDE DEF row, rows, B
  <2> QED
    BY <1>1, <1>2, FS_Surjection
<1>4. ASSUME NEW r \in rows
      PROVE  IsFiniteSet(r)
  <2>1. PICK b \in B : r = {b} \X (1 .. Len(Image[b]))
    BY <1>4
  <2> DEFINE E == 1 .. Len(Image[b])
  <2>2. IsFiniteSet({b}) /\ IsFiniteSet(E)
    <3>1. Len(Image[b]) \in Int
      BY LengthFacts
    <3>2. IsFiniteSet(E)
      BY <3>1, FS_Interval
    <3> QED
      BY <3>2, FS_Singleton, Zenon
  <2> HIDE DEF E
  <2>3. IsFiniteSet({b} \X E)
    BY <2>2, FS_Product
  <2> QED
    BY <2>1, <2>3 DEF E
<1>5. UNION rows = Node
  BY DEF Node
<1> HIDE DEF rows
<1>6. IsFiniteSet(UNION rows)
  BY <1>3, <1>4, FS_UNION
<1> QED
  BY <1>5, <1>6

\* g[S] is the sum of f over S, for every set S of nodes, taking out one node
\* after the other.
IsSums(g, f) ==
    g = [s \in SUBSET Node |->
            IF s = {} THEN 0
            ELSE LET x == CHOOSE x \in s : TRUE IN f[x] + g[s \ {x}]]

\* There is only one such g.
LEMMA SumsUnique ==
    ASSUME NEW f, NEW g, NEW h, IsSums(g, f), IsSums(h, f)
    PROVE  g = h
<1> DEFINE F == {s \in SUBSET Node : g[s] # h[s]}
<1>1. SUFFICES ASSUME F # {} PROVE FALSE
  <2>1. DOMAIN g = SUBSET Node /\ DOMAIN h = SUBSET Node
    BY DEF IsSums
  <2>2. \A s \in SUBSET Node : g[s] = h[s]
    BY <1>1, Zenon
  <2>3. g = [s \in SUBSET Node |-> g[s]] /\ h = [s \in SUBSET Node |-> h[s]]
    BY Zenon DEF IsSums
  <2> QED
    BY <2>2, <2>3
<1>2. PICK s \in F : \A y \in F : y \subseteq s => y = s
  <2> F \subseteq SUBSET Node
    OBVIOUS
  <2> HIDE DEF F
  <2> QED
    BY <1>1, NodeFinite, MinimalSubset
<1>3. CASE s = {}
  BY <1>3 DEF IsSums
<1>4. CASE s # {}
  <2> DEFINE x == CHOOSE x \in s : TRUE
  <2>1. x \in s
    BY <1>4
  <2>2. g[s] = f[x] + g[s \ {x}] /\ h[s] = f[x] + h[s \ {x}]
    BY <1>4, Zenon DEF IsSums
  <2> HIDE DEF x
  <2>3. s \ {x} \notin F
    BY <1>2, <2>1
  <2> QED
    BY <2>2, <2>3
<1> QED
  BY <1>3, <1>4

\* It is what MapThenSumSet computes.
LEMMA SumsCompute ==
    ASSUME NEW f, NEW g, IsSums(g, f)
    PROVE  MapThenSumSet(LAMBDA p : f[p], Node) = g[Node]
<1> DEFINE c == CHOOSE h : IsSums(h, f)
<1>1. IsSums(c, f)
  BY Zenon
<1>2. MapThenSumSet(LAMBDA p : f[p], Node) = c[Node]
  BY DEF MapThenSumSet, MapThenFoldSet, IsSums
<1> HIDE DEF c
<1> QED
  BY <1>1, <1>2, SumsUnique

\* The values of f have a sum, and it is n.
HasSum(f, n) == \E g \in [SUBSET Node -> Int] : IsSums(g, f) /\ n = g[Node]

\* One value changes: the sums with it change by as much.
LEMMA SumsChange ==
    ASSUME NEW f \in [Node -> Int], NEW n, HasSum(f, n),
           NEW p \in Node, NEW v \in Int, NEW e, e = [f EXCEPT ![p] = v]
    PROVE  HasSum(e, n - f[p] + v)
<1>g. PICK g \in [SUBSET Node -> Int] : IsSums(g, f) /\ n = g[Node]
  BY DEF HasSum
<1> DEFINE h == [s \in SUBSET Node |-> IF p \in s THEN g[s] - f[p] + v ELSE g[s]]
<1>1. h \in [SUBSET Node -> Int] /\ h[Node] = n - f[p] + v
  <2>1. h \in [SUBSET Node -> Int]
    <3>1. f[p] \in Int
      OBVIOUS
    <3>2. \A s \in SUBSET Node : g[s] \in Int
      OBVIOUS
    <3>3. \A s \in SUBSET Node : (IF p \in s THEN g[s] - f[p] + v ELSE g[s]) \in Int
      BY <3>1, <3>2
    <3> QED
      BY <3>3, Zenon
  <2>2. h[Node] = g[Node] - f[p] + v
    OBVIOUS
  <2> QED
    BY <1>g, <2>1, <2>2, Zenon
<1>2. ASSUME NEW s \in SUBSET Node
      PROVE  h[s] = IF s = {} THEN 0
                    ELSE LET x == CHOOSE x \in s : TRUE IN e[x] + h[s \ {x}]
  <2>1. CASE s = {}
    BY <1>g, <2>1 DEF IsSums
  <2>2. CASE s # {}
    <3> DEFINE x == CHOOSE x \in s : TRUE
    <3>1. x \in s
      BY <2>2
    <3>2. g[s] = f[x] + g[s \ {x}]
      BY <1>g, <2>2, Zenon DEF IsSums
    <3>q. SUFFICES h[s] = e[x] + h[s \ {x}]
      BY <2>2
    <3> HIDE DEF x
    <3>3. s \ {x} \in SUBSET Node /\ x \in Node /\ f[x] \in Int /\ f[p] \in Int
          /\ g[s] \in Int /\ g[s \ {x}] \in Int
      BY <3>1
    <3>4. CASE x = p
      BY <3>1, <3>2, <3>3, <3>4
    <3>5. CASE x # p /\ p \in s
      BY <3>1, <3>2, <3>3, <3>5
    <3>6. CASE x # p /\ p \notin s
      BY <3>1, <3>2, <3>3, <3>6
    <3> QED
      BY <3>4, <3>5, <3>6
  <2> QED
    BY <2>1, <2>2
<1>3. IsSums(h, e)
  <2>1. h = [s \in SUBSET Node |-> h[s]]
    BY Zenon
  <2> HIDE DEF h
  <2> QED
    BY <1>2, <2>1 DEF IsSums
<1> HIDE DEF h
<1> QED
  BY <1>1, <1>3, Zenon DEF HasSum

\* free_list->blocks is the sum of node->blocks over all nodes.
SumInv == HasSum(node_blocks, list_blocks)

LEMMA InitSum == Init => SumInv
<1> SUFFICES ASSUME Init PROVE SumInv
  OBVIOUS
<1> DEFINE g == [s \in SUBSET Node |-> 0]
<1>1. ASSUME NEW s \in SUBSET Node
      PROVE  0 = IF s = {} THEN 0
                 ELSE LET x == CHOOSE x \in s : TRUE IN node_blocks[x] + g[s \ {x}]
  <2>1. CASE s = {}
    BY <2>1
  <2>2. CASE s # {}
    <3> DEFINE x == CHOOSE x \in s : TRUE
    <3>1. x \in s
      BY <2>2
    <3>q. SUFFICES 0 = node_blocks[x] + g[s \ {x}]
      BY <2>2
    <3> HIDE DEF x
    <3> QED
      BY <3>1 DEF Init
  <2> QED
    BY <2>1, <2>2
<1>2. IsSums(g, node_blocks)
  BY <1>1 DEF IsSums
<1>3. g \in [SUBSET Node -> Int] /\ list_blocks = g[Node]
  BY DEF Init
<1> HIDE DEF g
<1> QED
  BY <1>2, <1>3, Zenon DEF SumInv, HasSum

\* A node that is read or taken from, and the total with it.
LEMMA ChangeSum ==
    ASSUME TypeOK, SumInv, NEW p \in Node, NEW v \in Int,
           node_blocks' = [node_blocks EXCEPT ![p] = v],
           list_blocks' = list_blocks - node_blocks[p] + v
    PROVE  SumInv'
<1>1. node_blocks \in [Node -> Int]
  BY DEF TypeOK
<1> QED
  BY <1>1, SumsChange DEF SumInv

LEMMA NextSum == IInv /\ SumInv /\ [Next]_vars => SumInv'
<1> SUFFICES ASSUME IInv, SumInv, [Next]_vars PROVE SumInv'
  OBVIOUS
<1>1. TypeOK
  BY DEF IInv
<1>2. CASE ReadEntry
  <2> DEFINE p == <<blk, ent>>
  <2>1. p \in Node /\ p[1] = blk /\ p[2] = ent
    BY <1>1, <1>2, PlaceFacts DEF ReadEntry, TypeOK
  <2>2. node_blocks[p] = 0
    <3>1. ~Loaded(p) /\ phase = "loading"
      BY <1>1, <1>2, <2>1 DEF Loaded, ReadEntry, TypeOK
    <3> QED
      BY <2>1, <3>1, Zenon DEF IInv, NodeBound
  <2>3. /\ node_blocks' = [node_blocks EXCEPT ![p] = Entry(p).blocks]
        /\ list_blocks' = list_blocks + Entry(p).blocks
    BY <1>2 DEF ReadEntry
  <2> HIDE DEF p
  <2>4. Entry(p).blocks \in Int
    BY <2>1, EntryFacts
  <2>5. list_blocks' = list_blocks - node_blocks[p] + Entry(p).blocks
    BY <1>1, <2>2, <2>3, <2>4 DEF TypeOK
  <2> QED
    BY <1>1, <2>1, <2>3, <2>4, <2>5, ChangeSum
<1>3. ASSUME NEW t \in Threads, TakeRun(t)
      PROVE  SumInv'
  <2> DEFINE p == it[t]
             v == node_blocks[p] - req[t]
  <2>1. p \in Node /\ node_blocks[p] \in Int /\ req[t] \in Int /\ list_blocks \in Int
    BY <1>1, <1>3 DEF TakeRun, TypeOK
  <2>2. /\ node_blocks' = [node_blocks EXCEPT ![p] = v]
        /\ list_blocks' = list_blocks - req[t]
    BY <1>3 DEF TakeRun
  <2>3. v \in Int /\ list_blocks' = list_blocks - node_blocks[p] + v
    BY <2>1, <2>2
  <2> HIDE DEF p, v
  <2> QED
    BY <1>1, <2>1, <2>2, <2>3, ChangeSum
<1>4. CASE UNCHANGED <<node_blocks, list_blocks>>
  BY <1>4 DEF SumInv
<1>5. ASSUME Next, ~ReadEntry, \A t \in Threads : ~TakeRun(t)
      PROVE  UNCHANGED <<node_blocks, list_blocks>>
  BY <1>5, Zenon
  DEF Next, ReadHeader, NextBlock, InitDone, InitFails, Call, Step, Lock, CheckTotal, SkipNode,
      NoNode, Unlock, list_vars
<1> QED
  BY <1>2, <1>3, <1>4, <1>5 DEF vars, list_vars

\* free_list->blocks is the number of blocks all nodes still offer.
THEOREM TotalIsSumOfNodes == Spec => []TotalMatchesNodes
<1>1. SumInv => TotalMatchesNodes
  BY SumsCompute DEF SumInv, HasSum, TotalMatchesNodes
<1> QED
  BY <1>1, Invariant, InitSum, NextSum, PTL DEF Spec

-----------------------------------------------------------------------------
(* The allocator implements BlockPool *)

\* The sectors of a run are the numbers between its bounds.
LEMMA SectorsOf ==
    ASSUME NEW r \in [start : Nat, blocks : Nat], NEW x
    PROVE  x \in Sectors(r)
             <=> x \in Nat /\ r.start <= x /\ x < r.start + r.blocks
  BY DEF Sectors

\* Reading an entry puts its run, which the pool never held, into the pool; the
\* entry may be empty.
LEMMA ReadEntryFills ==
    ASSUME IInv, ReadEntry
    PROVE  Pool!PoolNext \/ UNCHANGED Pool!pool_vars
<1>1. PICK n \in Node : n = <<blk, ent>>
  BY PlaceFacts DEF ReadEntry, IInv, TypeOK
<1>2. /\ node_blocks' = [node_blocks EXCEPT ![n] = Entry(n).blocks]
      /\ grants' = grants /\ grants = <<>>
      /\ phase = "loading"
  BY <1>1 DEF ReadEntry, IInv, MountedFirst, call_vars
<1>3. node_blocks[n] = 0
  <2>1. ~Loaded(n)
    BY <1>1, LengthFacts DEF ReadEntry, IInv, TypeOK, Loaded
  <2> QED
    BY <1>1, <1>2, <2>1 DEF IInv, NodeBound
<1>4. TakenSectors = {} /\ TakenSectors' = {}
  BY <1>2 DEF TakenSectors
<1>5. \A p \in Node : /\ Entry(p).start \in Nat /\ Entry(p).blocks \in Nat
                      /\ node_blocks[p] \in Nat
                      /\ node_blocks[p] <= Entry(p).blocks
  BY EntryFacts DEF IInv, TypeOK, NodeBound
<1> DEFINE R == Pool!Run(Entry(n).start, Entry(n).blocks)
<1>6. R \cap FreeSectors = {}
  <2> SUFFICES ASSUME NEW x \in R, NEW p \in Node, x \in Sectors(FreeRun(p))
               PROVE  FALSE
    BY DEF FreeSectors
  <2>1. x \in Nat /\ Entry(n).start <= x /\ x < Entry(n).start + Entry(n).blocks
    BY <1>1, <1>5 DEF Pool!Run
  <2>2. Entry(p).start <= x /\ x < Entry(p).start + node_blocks[p]
    BY <1>5 DEF Sectors, FreeRun
  <2>3. p # n
    BY <1>1, <1>3, <1>5, <2>1, <2>2
  <2>4. Entry(n).blocks >= 1 /\ Entry(p).blocks >= 1
    BY <1>1, <1>5, <2>1, <2>2
  <2>5. \/ Entry(p).start + Entry(p).blocks <= Entry(n).start
        \/ Entry(n).start + Entry(n).blocks <= Entry(p).start
    <3>1. Apart(Entry(p), Entry(n))
      BY <1>1, <2>3, ImageAssumption
    <3> QED
      BY <1>1, <1>5, <2>4, <3>1 DEF Apart
  <2> QED
    BY <1>1, <1>5, <2>1, <2>2, <2>5
<1>7. FreeSectors' = FreeSectors \cup R
  <2>1. Sectors(FreeRun(n)') = R
    <3>1. node_blocks'[n] = Entry(n).blocks
      BY <1>1, <1>2 DEF IInv, TypeOK
    <3>2. FreeRun(n)' = [start |-> Entry(n).start, blocks |-> node_blocks'[n]]
      BY DEF FreeRun
    <3>3. FreeRun(n)'.start = Entry(n).start /\ FreeRun(n)'.blocks = Entry(n).blocks
      BY <3>1, <3>2
    <3> QED
      BY <3>3 DEF Sectors, Pool!Run
  <2>2. Sectors(FreeRun(n)) = {}
    BY <1>1, <1>3, <1>5 DEF Sectors, FreeRun
  <2>3. \A p \in Node : p # n => FreeRun(p)' = FreeRun(p)
    BY <1>2 DEF FreeRun, IInv, TypeOK
  <2>4. FreeSectors' = UNION {Sectors(FreeRun(p)') : p \in Node}
    BY DEF FreeSectors, Sectors
  <2>5. ASSUME NEW x \in FreeSectors' PROVE x \in FreeSectors \cup R
    <3>1. PICK p \in Node : x \in Sectors(FreeRun(p)')
      BY <2>4, <2>5
    <3> QED
      BY <3>1, <2>1, <2>3 DEF FreeSectors
  <2>6. ASSUME NEW x \in FreeSectors PROVE x \in FreeSectors'
    <3>1. PICK p \in Node : x \in Sectors(FreeRun(p))
      BY <2>6 DEF FreeSectors
    <3>2. p # n
      BY <3>1, <2>2
    <3> QED
      BY <3>1, <3>2, <2>3, <2>4
  <2>7. R \subseteq FreeSectors'
    BY <1>1, <2>1, <2>4
  <2> QED
    BY <2>5, <2>6, <2>7
<1>8. Pool!PoolFill(Entry(n).start, Entry(n).blocks)
  BY <1>4, <1>6, <1>7 DEF Pool!PoolFill
<1>9. CASE Entry(n).blocks >= 1
  <2>1. /\ Entry(n).start \in 2 .. DeviceBlocks
        /\ Entry(n).blocks \in 1 .. DeviceBlocks
        /\ Entry(n).start + Entry(n).blocks <= DeviceBlocks
    BY <1>1, <1>9, EntryFacts, ConstantsAssumption
  <2> QED
    BY <1>8, <2>1 DEF Pool!PoolNext
<1>10. CASE Entry(n).blocks = 0
  <2>1. R = {}
    BY <1>1, <1>5, <1>10 DEF Pool!Run
  <2> QED
    BY <1>4, <1>7, <2>1 DEF Pool!pool_vars
<1> QED
  BY <1>1, <1>5, <1>9, <1>10

\* spfs_free_alloc takes a run that is in the pool out of it.
LEMMA TakeRunTakes ==
    ASSUME IInv, NEW t \in Threads, TakeRun(t)
    PROVE  Pool!PoolNext
<1>a. PICK n \in Node : n = it[t]
  BY TakeRunFacts
<1> DEFINE r == req[t]
           g == RunOf(n, r)
           a == Entry(n).start
           k == node_blocks[n]
           R == Pool!Run(g.start, r)
<1>0. /\ n \in Node /\ r \in Nat /\ r >= 1 /\ k \in Nat /\ r <= k /\ a \in Nat
      /\ g.start \in Nat /\ g.start = a + (k - r) /\ g.blocks = r
      /\ node_blocks' = [node_blocks EXCEPT ![n] = @ - r]
      /\ grants' = Append(grants, g)
  BY <1>a, TakeRunFacts
<1>1. g \in [start : Nat, blocks : Nat]
  BY <1>0 DEF RunOf
<1>2. /\ node_blocks'[n] = k - r
      /\ \A p \in Node : p # n => node_blocks'[p] = node_blocks[p]
  BY <1>0 DEF IInv, TypeOK
<1>3. \A x : x \in R <=> x \in Nat /\ a + (k - r) <= x /\ x < a + k
  <2>1. \A x : x \in R <=> x \in (g.start) .. (g.start + r - 1)
    BY DEF Pool!Run
  <2> HIDE DEF R, g, a, k, r
  <2> QED
    BY <1>0, <2>1
<1>4. /\ \A x : x \in Sectors(FreeRun(n)) <=> x \in Nat /\ a <= x /\ x < a + k
      /\ \A x : x \in Sectors(FreeRun(n)')
                   <=> x \in Nat /\ a <= x /\ x < a + (k - r)
  <2>1. /\ FreeRun(n) \in [start : Nat, blocks : Nat]
        /\ FreeRun(n).start = a /\ FreeRun(n).blocks = k
    BY <1>0 DEF FreeRun
  <2>2. /\ FreeRun(n)' = [start |-> a, blocks |-> node_blocks'[n]]
    BY DEF FreeRun
  <2>3. /\ FreeRun(n)' \in [start : Nat, blocks : Nat]
        /\ FreeRun(n)'.start = a /\ FreeRun(n)'.blocks = k - r
    BY <2>2, <1>0, <1>2
  <2> QED
    BY <2>1, <2>3, SectorsOf
<1>5. \A p \in Node : p # n => FreeRun(p)' = FreeRun(p)
  BY <1>2 DEF FreeRun
<1>6. FreeSectors' = UNION {Sectors(FreeRun(p)') : p \in Node}
  BY DEF FreeSectors, Sectors
<1>7. ASSUME NEW p \in Node, p # n PROVE R \cap Sectors(FreeRun(p)) = {}
  <2> DEFINE b == Entry(p).start
             m == node_blocks[p]
  <2>1. b \in Nat /\ m \in Nat
    BY EntryFacts DEF IInv, TypeOK
  <2>2. /\ FreeRun(p) \in [start : Nat, blocks : Nat]
        /\ FreeRun(p).start = b /\ FreeRun(p).blocks = m
        /\ FreeRun(n).start = a /\ FreeRun(n).blocks = k
    BY <2>1 DEF FreeRun
  <2>3. m = 0 \/ a + k <= b \/ b + m <= a
    BY <1>0, <1>7, <2>2 DEF IInv, NoOverlap, Apart
  <2>4. \A x \in Sectors(FreeRun(p)) : x \in Nat /\ b <= x /\ x < b + m
    BY <2>2, SectorsOf
  <2> HIDE DEF R, a, k, r, b, m
  <2> QED
    BY <1>0, <1>3, <2>1, <2>3, <2>4
<1>8. R \subseteq FreeSectors
  <2>1. R \subseteq Sectors(FreeRun(n))
    <3> HIDE DEF R, a, k, r
    <3> QED
      BY <1>0, <1>3, <1>4
  <2> QED
    BY <1>0, <2>1 DEF FreeSectors
<1>9. FreeSectors' = FreeSectors \ R
  <2>1. Sectors(FreeRun(n)') = Sectors(FreeRun(n)) \ R
    <3> HIDE DEF R, a, k, r
    <3> QED
      BY <1>0, <1>3, <1>4
  <2>2. ASSUME NEW x \in FreeSectors' PROVE x \in FreeSectors \ R
    <3>1. PICK p \in Node : x \in Sectors(FreeRun(p)')
      BY <1>6, <2>2
    <3> QED
      BY <3>1, <2>1, <1>5, <1>7 DEF FreeSectors
  <2>3. ASSUME NEW x \in FreeSectors \ R PROVE x \in FreeSectors'
    <3>1. PICK p \in Node : x \in Sectors(FreeRun(p))
      BY <2>3 DEF FreeSectors
    <3> QED
      BY <3>1, <2>1, <2>3, <1>5, <1>6
  <2> QED
    BY <2>2, <2>3
<1>10. TakenSectors' = TakenSectors \cup R
  <2>1. Len(grants) \in Nat /\ Len(grants') = Len(grants) + 1
        /\ grants'[Len(grants) + 1] = g
        /\ \A i \in 1 .. Len(grants) : grants'[i] = grants[i]
    <3> HIDE DEF g
    <3> QED
      BY <1>0, <1>1 DEF IInv, TypeOK
  <2>2. Sectors(g) = R
    BY <1>0 DEF Sectors, Pool!Run
  <2>3. TakenSectors' = UNION {Sectors(grants'[i]) : i \in 1 .. Len(grants')}
    BY DEF TakenSectors, Sectors
  <2> HIDE DEF g, R
  <2>4. ASSUME NEW x \in TakenSectors' PROVE x \in TakenSectors \cup R
    <3>1. PICK i \in 1 .. Len(grants') : x \in Sectors(grants'[i])
      BY <2>3, <2>4
    <3>2. i \in 1 .. Len(grants) \/ i = Len(grants) + 1
      BY <2>1
    <3> QED
      BY <3>1, <3>2, <2>1, <2>2 DEF TakenSectors
  <2>5. ASSUME NEW x \in TakenSectors PROVE x \in TakenSectors'
    <3>1. PICK i \in 1 .. Len(grants) : x \in Sectors(grants[i])
      BY <2>5 DEF TakenSectors
    <3>2. i \in 1 .. Len(grants')
      BY <2>1
    <3> QED
      BY <3>1, <3>2, <2>1, <2>3
  <2>6. R \subseteq TakenSectors'
    <3>1. Len(grants) + 1 \in 1 .. Len(grants')
      BY <2>1
    <3> QED
      BY <3>1, <2>1, <2>2, <2>3
  <2> QED
    BY <2>4, <2>5, <2>6
<1>11. Pool!PoolTake(g.start, r)
  BY <1>8, <1>9, <1>10 DEF Pool!PoolTake
<1>12. /\ g.start \in 2 .. DeviceBlocks /\ r \in 1 .. DeviceBlocks
       /\ g.start + r <= DeviceBlocks
  <2>1. /\ a >= 2 /\ Entry(n).blocks \in Nat /\ k <= Entry(n).blocks
        /\ a + Entry(n).blocks <= DeviceBlocks
    BY <1>0, EntryFacts DEF IInv, NodeBound
  <2> DEFINE eb == Entry(n).blocks
             gs == g.start
  <2> HIDE DEF g, a, k, r, eb, gs
  <2>2. gs \in 2 .. DeviceBlocks /\ r \in 1 .. DeviceBlocks /\ gs + r <= DeviceBlocks
    BY <1>0, <2>1, ConstantsAssumption DEF eb, gs
  <2> QED
    BY <2>2 DEF gs
<1> QED
  BY <1>11, <1>12 DEF Pool!PoolNext

\* A step that leaves the nodes and the history alone leaves the pool alone.
LEMMA PoolUnchanged ==
    ASSUME UNCHANGED <<node_blocks, grants>>
    PROVE  UNCHANGED Pool!pool_vars
  BY DEF Pool!pool_vars, FreeSectors, TakenSectors, FreeRun, Sectors

\* spfs_free_init and spfs_free_alloc implement the pool of BlockPool.tla.
THEOREM Refinement == Spec => ImplementsPool
<1>1. Init => Pool!PoolInit
  <2> SUFFICES ASSUME Init PROVE FreeSectors = {} /\ TakenSectors = {}
    BY DEF Pool!PoolInit
  <2>1. TakenSectors = {}
    BY DEF Init, TakenSectors
  <2>2. ASSUME NEW p \in Node PROVE Sectors(FreeRun(p)) = {}
    BY EntryFacts DEF Init, FreeRun, Sectors
  <2> QED
    BY <2>1, <2>2 DEF FreeSectors
<1>2. IInv /\ [Next]_vars => [Pool!PoolNext]_(Pool!pool_vars)
  <2> SUFFICES ASSUME IInv, [Next]_vars
               PROVE  Pool!PoolNext \/ UNCHANGED Pool!pool_vars
    OBVIOUS
  <2>1. CASE ReadEntry
    BY <2>1, ReadEntryFills
  <2>2. ASSUME NEW t \in Threads, TakeRun(t) PROVE Pool!PoolNext
    BY <2>2, TakeRunTakes
  <2>3. CASE ~ReadEntry /\ ~\E t \in Threads : TakeRun(t)
    <3>1. UNCHANGED <<node_blocks, grants>>
      BY <2>3 DEF Next, vars, Step, ReadHeader, NextBlock, InitDone, InitFails,
         Call, Lock, CheckTotal, SkipNode, NoNode, Unlock, list_vars, call_vars
    <3> QED
      BY <3>1, PoolUnchanged
  <2> QED
    BY <2>1, <2>2, <2>3
<1> QED
  BY <1>1, <1>2, Invariant, PTL DEF Spec, ImplementsPool, Pool!PoolSpec
=============================================================================
