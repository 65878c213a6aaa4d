---------------------------- MODULE FormatProofs -----------------------------
(***************************************************************************)
(* Proofs about Format.tla, for every file size, every set of block sizes  *)
(* and every width of the count in the free list's entry.                  *)
(***************************************************************************)
EXTENDS Format, Integers, TLAPS

-----------------------------------------------------------------------------
(* The inductive invariant *)

\* mkfs_block_size has found room for the headers and at least one block.
Roomy == HeaderBlocks * bs <= size /\ BlocksOf >= 1

\* What mkfs.spfs knows after the size check.
SizeChecked ==
    pc \in {"super", "list"} => Roomy /\ blocks = BlocksOf /\ exit = "none"

\* The first block is empty or a super block, whose block size is missing only
\* after a short write; the second is empty or a free list that fits the file.
SuperShape(b) == b.kind \in {"zero", "super"} /\ b.n \in {0, bs} /\ (b.kind = "zero" => b.n = 0)
ListShape(b) ==
    /\ b.kind \in {"zero", "list"} /\ (b.kind = "zero" => b.n = 0)
    /\ b.kind = "list" => (HeaderBlocks + b.n) * bs <= size
Shapes ==
    /\ SuperShape(cache[0]) /\ SuperShape(disk[0])
    /\ ListShape(cache[1]) /\ ListShape(disk[1])

\* The page cache is never behind the device: mkfs.spfs writes nothing that is
\* less acceptable than what was there.
CacheAhead ==
    /\ disk[0] = Super(bs) => cache[0] = Super(bs)
    /\ disk[1].kind = "list" => cache[1].kind = "list"

\* What is in the cache on the way to the exit status 0.
Complete ==
    /\ pc = "list" /\ offset => cache[0] = Super(bs)
    /\ pc = "stat" => exit = "none"
    /\ pc \in {"sync", "done"} /\ exit = "ok" =>
          Roomy /\ cache[0] = Super(bs) /\ cache[1] = List(BlocksOf % Word)

IInv == TypeOK /\ SizeChecked /\ Shapes /\ CacheAhead /\ Complete

-----------------------------------------------------------------------------
(* Arithmetic *)

\* Whole blocks of b units fit into a units.
LEMMA DivFits ==
    ASSUME NEW a \in Nat, NEW b \in Nat \ {0}
    PROVE  a \div b \in Nat /\ (a \div b) * b <= a
  OBVIOUS

\* A remainder is no larger than the number, and the number itself below w.
LEMMA ModFacts ==
    ASSUME NEW a \in Nat, NEW w \in Nat \ {0}
    PROVE  a % w \in Nat /\ a % w <= a /\ (a < w => a % w = a)
  OBVIOUS

\* Multiplication by b is monotone.
LEMMA TimesMonotone ==
    ASSUME NEW m \in Nat, NEW n \in Nat, NEW b \in Nat, n <= m
    PROVE  n * b <= m * b
  OBVIOUS

\* The headers and n blocks are 2 * b and n * b units.
LEMMA HeadersAndBlocks ==
    ASSUME NEW n \in Nat, NEW b \in Nat
    PROVE  (2 + n) * b = 2 * b + n * b
  OBVIOUS

\* A file with room for the headers has room for them and any number of blocks
\* up to BlocksOf; the count that is written is such a number.
LEMMA BlocksFit ==
    ASSUME TypeOK, HeaderBlocks * bs <= size
    PROVE  /\ bs \in Nat \ {0} /\ size \in Nat
           /\ BlocksOf \in 0 .. MaxSize
           /\ \A n \in Nat : n <= BlocksOf => (HeaderBlocks + n) * bs <= size
<1>1. bs \in Nat \ {0} /\ size \in Nat /\ size <= MaxSize /\ MaxSize \in Nat
  BY FormatAssumption DEF TypeOK
<1> DEFINE a == size - 2 * bs
<1>2. a \in Nat /\ BlocksOf = a \div bs
  BY <1>1 DEF BlocksOf, HeaderBlocks
<1>3. BlocksOf \in Nat /\ BlocksOf * bs <= a
  BY <1>1, <1>2, DivFits
<1>4. BlocksOf <= BlocksOf * bs
  BY <1>1, <1>3, TimesMonotone
<1>5. ASSUME NEW n \in Nat, n <= BlocksOf
      PROVE  (HeaderBlocks + n) * bs <= size
  <2>1. n * bs <= BlocksOf * bs
    BY <1>1, <1>3, <1>5, TimesMonotone
  <2>2. (2 + n) * bs = 2 * bs + n * bs
    BY <1>1, HeadersAndBlocks
  <2>3. n * bs \in Nat /\ BlocksOf * bs \in Nat /\ 2 * bs \in Nat
    BY <1>1, <1>3
  <2> QED
    BY <1>1, <1>2, <1>3, <2>1, <2>2, <2>3 DEF HeaderBlocks
<1> QED
  BY <1>1, <1>2, <1>3, <1>4, <1>5

-----------------------------------------------------------------------------
(* The initial state and the steps of mkfs.spfs *)

\* An image of zeros satisfies the invariant.
LEMMA InitIInv == Init => IInv
<1> SUFFICES ASSUME Init PROVE IInv
  OBVIOUS
<1>1. TypeOK
  BY FormatAssumption DEF Init, TypeOK, Zero
<1>2. Shapes
  BY DEF Init, Shapes, SuperShape, ListShape, Zero
<1>3. SizeChecked /\ CacheAhead /\ Complete
  BY DEF Init, SizeChecked, CacheAhead, Complete, Zero, Super
<1> QED
  BY <1>1, <1>2, <1>3 DEF IInv

\* A list that fits the file fits a larger one.
LEMMA ListShapeGrows ==
    ASSUME NEW b, b.n \in Nat, ListShape(b), bs' = bs, size \in Nat, size' \in Nat,
           bs \in Nat, size <= size'
    PROVE  ListShape(b)'
<1>1. (HeaderBlocks + b.n) * bs \in Nat
  BY DEF HeaderBlocks
<1> QED
  BY <1>1 DEF ListShape, HeaderBlocks

\* The types of the blocks, from TypeOK.
LEMMA BlockTypes ==
    ASSUME TypeOK
    PROVE  /\ \A b \in {0, 1} : cache[b].n \in Nat /\ disk[b].n \in Nat
           /\ bs \in Nat \ {0} /\ size \in Nat
  BY FormatAssumption DEF TypeOK

\* A new run of mkfs.spfs, on a file that may have grown, keeps the invariant.
LEMMA StartIInv == ASSUME NEW s \in 0 .. MaxSize, IInv, Start(s) PROVE IInv'
<1>1. TypeOK'
  BY FormatAssumption DEF IInv, TypeOK, Start
<1>2. Shapes'
  <2>1. size \in Nat /\ size' \in Nat /\ size <= size' /\ bs' = bs /\ bs \in Nat
    BY BlockTypes, FormatAssumption DEF IInv, Start
  <2>2. ListShape(cache[1])' /\ ListShape(disk[1])'
    BY <2>1, BlockTypes, ListShapeGrows DEF IInv, Shapes, Start
  <2> QED
    BY <2>2 DEF IInv, Shapes, SuperShape, Start
<1>3. SizeChecked' /\ CacheAhead' /\ Complete'
  BY DEF IInv, SizeChecked, CacheAhead, Complete, Start, Super
<1> QED
  BY <1>1, <1>2, <1>3 DEF IInv

\* A step that leaves the blocks, the file and its size alone keeps their shape.
LEMMA ShapesUnchanged ==
    ASSUME Shapes, CacheAhead, UNCHANGED <<bs, size, cache, disk>>
    PROVE  Shapes' /\ CacheAhead'
  BY DEF Shapes, SuperShape, ListShape, CacheAhead, Super

\* The size check keeps it: behind it there is room for a block.
LEMMA StatIInv == ASSUME IInv, Stat PROVE IInv'
<1>0. Shapes' /\ CacheAhead'
  BY ShapesUnchanged DEF IInv, Stat
<1>1. CASE TooSmall
  BY <1>0, <1>1 DEF IInv, Stat, TypeOK, SizeChecked, Complete
<1>2. CASE ~TooSmall
  <2>1. HeaderBlocks * bs <= size /\ BlocksOf # 0
    BY <1>2, BlockTypes DEF TooSmall, BlocksOf, HeaderBlocks, IInv
  <2>2. BlocksOf \in 0 .. MaxSize
    BY <2>1, BlocksFit DEF IInv
  <2>3. Roomy /\ Roomy' /\ blocks' = BlocksOf /\ BlocksOf' = BlocksOf
    BY <1>2, <2>1, <2>2, FormatAssumption DEF Roomy, Stat, BlocksOf, HeaderBlocks
  <2>4. TypeOK'
    BY <1>2, <2>2, <2>3 DEF IInv, TypeOK, Stat
  <2>5. SizeChecked' /\ Complete'
    BY <1>2, <2>3 DEF IInv, SizeChecked, Complete, Stat
  <2> QED
    BY <1>0, <2>4, <2>5 DEF IInv
<1> QED
  BY <1>1, <1>2

\* The super block is a block of the right type: its block size is less than
\* the file.
LEMMA SuperType ==
    ASSUME TypeOK, Roomy
    PROVE  bs \in 0 .. MaxSize
  BY BlockTypes, FormatAssumption DEF TypeOK, Roomy, HeaderBlocks

\* A write of the first block that leaves a super block there or what was there
\* before keeps the shapes and keeps the cache ahead of the device.
LEMMA WriteFirst ==
    ASSUME IInv, Roomy, UNCHANGED <<bs, size, disk>>,
           NEW new \in {cache[0], Short(0, Super(bs)), Super(bs)},
           cache' = [cache EXCEPT ![0] = new]
    PROVE  /\ cache' \in [{0, 1} -> [kind : {"zero", "super", "list"}, n : 0 .. MaxSize]]
           /\ Shapes' /\ CacheAhead'
           /\ cache'[0] = new /\ cache'[1] = cache[1]
<1>1. bs \in 0 .. MaxSize
  BY SuperType DEF IInv
<1>2. cache \in [{0, 1} -> [kind : {"zero", "super", "list"}, n : 0 .. MaxSize]]
  BY DEF IInv, TypeOK
<1>3. Short(0, Super(bs)) = [kind |-> "super", n |-> cache[0].n]
  BY DEF Short, Super
<1>4. new \in [kind : {"zero", "super", "list"}, n : 0 .. MaxSize]
  BY <1>1, <1>2, <1>3 DEF Super
<1>5. cache'[0] = new /\ cache'[1] = cache[1]
  BY <1>2
<1>6. SuperShape(cache[0]) /\ SuperShape(disk[0]) /\ ListShape(cache[1]) /\ ListShape(disk[1])
  BY DEF IInv, Shapes
<1>7. SuperShape(new)
  BY <1>3, <1>6 DEF SuperShape, Super
<1>8. Shapes'
  BY <1>5, <1>6, <1>7 DEF Shapes, SuperShape, ListShape
<1>9. CacheAhead'
  BY <1>3, <1>5 DEF IInv, CacheAhead, Super
<1> QED
  BY <1>2, <1>4, <1>5, <1>8, <1>9

\* Writing the super block keeps the invariant.
LEMMA WriteSuperIInv == ASSUME IInv, WriteSuper PROVE IInv'
<1>1. Roomy /\ blocks = BlocksOf /\ exit = "none"
  BY DEF IInv, SizeChecked, WriteSuper
<1>2. /\ cache' \in [{0, 1} -> [kind : {"zero", "super", "list"}, n : 0 .. MaxSize]]
      /\ Shapes' /\ CacheAhead' /\ cache'[0] = Super(bs)
  BY <1>1, WriteFirst DEF WriteSuper
<1>3. TypeOK'
  BY <1>2 DEF IInv, TypeOK, WriteSuper
<1>4. Roomy' /\ BlocksOf' = BlocksOf /\ Super(bs)' = Super(bs)
  BY <1>1 DEF WriteSuper, Roomy, BlocksOf, HeaderBlocks, Super
<1>5. SizeChecked' /\ Complete'
  BY <1>1, <1>2, <1>4 DEF WriteSuper, SizeChecked, Complete
<1> QED
  BY <1>2, <1>3, <1>5 DEF IInv

\* So does a failed or short write of it.
LEMMA WriteSuperStopsIInv == ASSUME IInv, WriteSuperStops PROVE IInv'
<1>1. Roomy /\ blocks = BlocksOf /\ exit = "none"
  BY DEF IInv, SizeChecked, WriteSuperStops
<1>2. PICK new \in {cache[0], Short(0, Super(bs)), Super(bs)} :
          cache' = [cache EXCEPT ![0] = new]
  BY DEF WriteSuperStops
<1>3. /\ cache' \in [{0, 1} -> [kind : {"zero", "super", "list"}, n : 0 .. MaxSize]]
      /\ Shapes' /\ CacheAhead'
  BY <1>1, <1>2, WriteFirst DEF WriteSuperStops
<1>4. TypeOK'
  BY <1>3 DEF IInv, TypeOK, WriteSuperStops
<1>5. Roomy' /\ BlocksOf' = BlocksOf
  BY <1>1 DEF WriteSuperStops, Roomy, BlocksOf, HeaderBlocks
<1>6. SizeChecked' /\ Complete'
  BY <1>1, <1>5 DEF WriteSuperStops, SizeChecked, Complete
<1> QED
  BY <1>3, <1>4, <1>6 DEF IInv

\* A write of the second block that leaves a list of n blocks there, where n
\* is what is to be written or what was there before, keeps the shapes.
LEMMA WriteSecond ==
    ASSUME IInv, Roomy, UNCHANGED <<bs, size, disk>>,
           NEW n \in {cache[1].n, BlocksOf % Word},
           cache' = [cache EXCEPT ![1] = List(n)]
    PROVE  /\ cache' \in [{0, 1} -> [kind : {"zero", "super", "list"}, n : 0 .. MaxSize]]
           /\ Shapes' /\ CacheAhead'
           /\ cache'[0] = cache[0] /\ cache'[1] = List(n)
<1>1. /\ bs \in Nat \ {0} /\ size \in Nat /\ BlocksOf \in 0 .. MaxSize
      /\ \A m \in Nat : m <= BlocksOf => (HeaderBlocks + m) * bs <= size
  BY BlocksFit DEF IInv, Roomy
<1>2. BlocksOf % Word \in Nat /\ BlocksOf % Word <= BlocksOf
  BY <1>1, ModFacts, FormatAssumption
<1>3. cache \in [{0, 1} -> [kind : {"zero", "super", "list"}, n : 0 .. MaxSize]]
  BY DEF IInv, TypeOK
<1>4. n \in 0 .. MaxSize
  BY <1>1, <1>2, <1>3, FormatAssumption
<1>5. List(n) \in [kind : {"zero", "super", "list"}, n : 0 .. MaxSize]
  BY <1>4 DEF List
<1>6. cache'[0] = cache[0] /\ cache'[1] = List(n)
  BY <1>3
<1>7. SuperShape(cache[0]) /\ SuperShape(disk[0]) /\ ListShape(cache[1]) /\ ListShape(disk[1])
  BY DEF IInv, Shapes
<1>8. (HeaderBlocks + n) * bs <= size
  <2>1. CASE n = BlocksOf % Word
    BY <1>1, <1>2, <2>1
  <2>2. CASE n = cache[1].n /\ cache[1].kind = "list"
    BY <1>7, <2>2 DEF ListShape
  <2>3. CASE n = cache[1].n /\ cache[1].kind = "zero"
    BY <1>1, <1>7, <2>3 DEF ListShape
  <2> QED
    BY <1>7, <2>1, <2>2, <2>3 DEF ListShape
<1>9. Shapes'
  BY <1>6, <1>7, <1>8 DEF Shapes, SuperShape, ListShape, List, HeaderBlocks
<1>10. CacheAhead'
  BY <1>6 DEF IInv, CacheAhead, Super, List
<1> QED
  BY <1>3, <1>5, <1>6, <1>9, <1>10

\* Writing the free list keeps the invariant, and completes the file.
LEMMA WriteListIInv == ASSUME IInv, WriteList PROVE IInv'
<1>1. Roomy /\ blocks = BlocksOf /\ offset
  BY DEF IInv, SizeChecked, WriteList, OffsetOk
<1>2. cache' = [cache EXCEPT ![1] = List(BlocksOf % Word)]
  BY <1>1 DEF WriteList
<1>3. /\ cache' \in [{0, 1} -> [kind : {"zero", "super", "list"}, n : 0 .. MaxSize]]
      /\ Shapes' /\ CacheAhead'
      /\ cache'[0] = cache[0] /\ cache'[1] = List(BlocksOf % Word)
  BY <1>1, <1>2, WriteSecond DEF WriteList
<1>4. TypeOK'
  BY <1>3 DEF IInv, TypeOK, WriteList
<1>5. Roomy' /\ BlocksOf' = BlocksOf /\ cache[0] = Super(bs)
  BY <1>1 DEF IInv, Complete, WriteList, Roomy, BlocksOf, HeaderBlocks
<1>6. SizeChecked' /\ Complete'
  BY <1>3, <1>5 DEF WriteList, SizeChecked, Complete, Super, List
<1> QED
  BY <1>3, <1>4, <1>6 DEF IInv

\* So does a failed or short write of it.
LEMMA WriteListFailsIInv == ASSUME IInv, WriteListFails PROVE IInv'
<1>1. Roomy /\ blocks = BlocksOf
  BY DEF IInv, SizeChecked, WriteListFails
<1>2. SizeChecked' /\ Complete'
  BY DEF WriteListFails, SizeChecked, Complete
<1>3. CASE UNCHANGED cache
  <2>1. Shapes' /\ CacheAhead'
    BY <1>3, ShapesUnchanged DEF IInv, WriteListFails
  <2> QED
    BY <1>2, <1>3, <2>1 DEF IInv, TypeOK, WriteListFails
<1>4. CASE cache' = [cache EXCEPT ![1] = Short(1, List(blocks % Word))]
  <2>0. Short(1, List(blocks % Word)) = List(cache[1].n)
    BY DEF Short, List
  <2>1. cache' = [cache EXCEPT ![1] = List(cache[1].n)]
    BY <1>4, <2>0
  <2>2. /\ cache' \in [{0, 1} -> [kind : {"zero", "super", "list"}, n : 0 .. MaxSize]]
        /\ Shapes' /\ CacheAhead'
    BY <1>1, <2>1, WriteSecond DEF WriteListFails
  <2>3. TypeOK'
    BY <2>2 DEF IInv, TypeOK, WriteListFails
  <2> QED
    BY <1>2, <2>2, <2>3 DEF IInv
<1> QED
  BY <1>3, <1>4 DEF WriteListFails

\* A step that only copies between cache and device, or ends mkfs.spfs, keeps
\* the invariant: both are in shape and the cache is ahead.
LEMMA CopyIInv ==
    ASSUME IInv, UNCHANGED <<bs, size, runs, blocks, offset>>,
           \/ UNCHANGED cache /\ disk' \in {cache, disk}
           \/ UNCHANGED cache /\ \E b \in {0, 1} : disk' = [disk EXCEPT ![b] = cache[b]]
           \/ cache' = disk /\ UNCHANGED disk /\ pc' = "done" /\ exit' = "none",
           \/ UNCHANGED <<pc, exit>>
           \/ pc = "sync" /\ pc' = "done" /\ UNCHANGED exit
           \/ pc' = "done" /\ exit' = "none"
    PROVE  IInv'
<1>1. /\ cache' \in [{0, 1} -> [kind : {"zero", "super", "list"}, n : 0 .. MaxSize]]
      /\ disk' \in [{0, 1} -> [kind : {"zero", "super", "list"}, n : 0 .. MaxSize]]
  BY DEF IInv, TypeOK
<1>2. TypeOK'
  BY <1>1 DEF IInv, TypeOK
<1>3. /\ cache'[0] \in {cache[0], disk[0]} /\ disk'[0] \in {cache[0], disk[0]}
      /\ cache'[1] \in {cache[1], disk[1]} /\ disk'[1] \in {cache[1], disk[1]}
  BY DEF IInv, TypeOK
<1>4. Shapes'
  BY <1>3 DEF IInv, Shapes, SuperShape, ListShape, HeaderBlocks
<1>5. CacheAhead'
  BY DEF IInv, TypeOK, CacheAhead, Super
<1>6. Roomy' <=> Roomy
  BY DEF Roomy, BlocksOf, HeaderBlocks
<1>7. BlocksOf' = BlocksOf /\ Super(bs)' = Super(bs)
  BY DEF BlocksOf, HeaderBlocks, Super
<1>8. SizeChecked'
  BY <1>6, <1>7 DEF IInv, SizeChecked
<1>9. Complete'
  BY <1>6, <1>7 DEF IInv, Complete, List
<1> QED
  BY <1>2, <1>4, <1>5, <1>8, <1>9 DEF IInv

-----------------------------------------------------------------------------
(* The theorems *)

\* Every step of the specification keeps the invariant.
LEMMA NextIInv == IInv /\ [Next]_vars => IInv'
<1> SUFFICES ASSUME IInv, [Next]_vars PROVE IInv'
  OBVIOUS
<1>1. ASSUME NEW s \in 0 .. MaxSize, Start(s) PROVE IInv'
  BY <1>1, StartIInv
<1>2. CASE Sync
  BY <1>2, CopyIInv DEF Sync
<1>3. CASE Kill
  BY <1>3, CopyIInv DEF Kill
<1>4. CASE PowerLoss
  BY <1>4, CopyIInv DEF PowerLoss
<1>5. ASSUME NEW b \in {0, 1}, WriteBack(b) PROVE IInv'
  BY <1>5, CopyIInv DEF WriteBack
<1>6. CASE UNCHANGED vars
  BY <1>6, CopyIInv DEF vars
<1> QED
  BY <1>1, <1>2, <1>3, <1>4, <1>5, <1>6, StatIInv, WriteSuperIInv, WriteSuperStopsIInv,
     WriteListIInv, WriteListFailsIInv DEF Next

\* The invariant holds in every state.
THEOREM Invariant == Spec => []IInv
  BY InitIInv, NextIInv, PTL DEF Spec

\* The counts mkfs.spfs computes by subtraction and division never leave their
\* range, for any file.
THEOREM TypeCorrect == Spec => []TypeOK
<1>1. IInv => TypeOK
  BY DEF IInv
<1> QED
  BY <1>1, Invariant, PTL

\* After exit status 0 the file is one fsck.spfs accepts, with all its blocks
\* on the free list (mkfs.spfs.c 247-302).
THEOREM SuccessIsComplete == Spec => []ExitOkComplete
<1>1. IInv => ExitOkComplete
  <2> SUFFICES ASSUME IInv, pc = "done", exit = "ok"
               PROVE  /\ FsckAccepts(cache) /\ cache[1].n = BlocksOf % Word
                      /\ BlocksOf < Word => cache[1].n >= 1
    BY DEF ExitOkComplete
  <2>1. Roomy /\ cache[0] = Super(bs) /\ cache[1] = List(BlocksOf % Word)
    BY DEF IInv, Complete
  <2>2. bs \in Nat \ {0} /\ BlocksOf \in Nat
    BY <2>1, BlocksFit, FormatAssumption DEF IInv, Roomy
  <2>3. BlocksOf < Word => BlocksOf % Word = BlocksOf
    BY <2>2, ModFacts, FormatAssumption
  <2> QED
    BY <2>1, <2>2, <2>3 DEF FsckAccepts, FsckSuper, FsckList, Super, List, Roomy
<1> QED
  BY <1>1, Invariant, PTL

\* Whatever was cut short, a file that can be mounted offers no sector behind
\* its end.
THEOREM MountableFits == Spec => []AcceptedFits
<1>1. IInv => AcceptedFits
  BY DEF IInv, AcceptedFits, FillSuperAccepts, Shapes, ListShape
<1> QED
  BY <1>1, Invariant, PTL

\* No step of mkfs.spfs, of the kernel or of a loss of power turns a file on
\* the device that can be mounted into one that is refused.
THEOREM NeverUnmountable == Spec => StaysMountable
<1>1. IInv /\ IInv' /\ [Next]_vars =>
          [FillSuperAccepts(disk) => FillSuperAccepts(disk') /\ FsckAccepts(disk')]_vars
  <2> SUFFICES ASSUME IInv, IInv', [Next]_vars, FillSuperAccepts(disk)
               PROVE  FillSuperAccepts(disk') /\ FsckAccepts(disk')
    OBVIOUS
  <2>1. bs \in Nat \ {0} /\ disk \in [{0, 1} -> [kind : {"zero", "super", "list"}, n : 0 .. MaxSize]]
    BY BlockTypes DEF IInv, TypeOK
  <2>2. disk[0].kind = "super" /\ disk[0].n = bs /\ disk[1].kind = "list" /\ bs <= PageSize
    BY <2>1 DEF FillSuperAccepts, IInv, Shapes, SuperShape
  <2>3. disk[0] = Super(bs)
    BY <2>1, <2>2 DEF Super
  <2>4. cache[0] = Super(bs) /\ cache[1].kind = "list"
    BY <2>2, <2>3 DEF IInv, CacheAhead
  <2>5. disk'[0] \in {cache[0], disk[0]} /\ disk'[1] \in {cache[1], disk[1]}
    BY <2>1 DEF Next, vars, Start, Stat, WriteSuper, WriteSuperStops, WriteList, WriteListFails,
              Sync, Kill, PowerLoss, WriteBack
  <2> QED
    BY <2>1, <2>2, <2>3, <2>4, <2>5 DEF FillSuperAccepts, FsckAccepts, FsckSuper, FsckList, Super
<1> QED
  BY <1>1, Invariant, PTL DEF Spec, StaysMountable
=============================================================================
