------------------------------- MODULE Format --------------------------------
(***************************************************************************)
(* mkfs.spfs on an image file, and what fsck.spfs and mount make of the    *)
(* file: after success, after a failed or killed mkfs.spfs, after a loss   *)
(* of power, and after the file has grown and was formatted again.         *)
(*                                                                         *)
(* Sizes are in units of SPOOKY_FS_INITIAL_BLOCK_SIZE (512 bytes).  Only   *)
(* the first two blocks are modelled, the ones mkfs.spfs writes.           *)
(***************************************************************************)
EXTENDS Naturals

CONSTANTS
    BlockSizes,   \* what st_blksize may be
    PageSize,     \* the largest block size sb_set_blocksize accepts
    MaxSize,      \* bound: the largest file
    Word,         \* 2^32: the width of spfs_free_entry.blocks
    MaxRuns       \* bound: how often mkfs.spfs is run

ASSUME FormatAssumption ==
    /\ BlockSizes \subseteq Nat \ {0}
    /\ PageSize \in Nat /\ MaxSize \in Nat /\ Word \in Nat \ {0} /\ MaxRuns \in Nat

Zero == [kind |-> "zero", n |-> 0]
Super(bs) == [kind |-> "super", n |-> bs]
List(blocks) == [kind |-> "list", n |-> blocks]

VARIABLES
    bs,       \* st_blksize of the file
    size,     \* st_size
    cache,    \* blocks 0 and 1 as the page cache has them
    disk,     \* ... and as they are on the device
    runs,     \* how often mkfs.spfs was started
    pc,       \* where mkfs.spfs is
    blocks,   \* super.blocks
    offset,   \* the file offset is where the next block begins
    exit      \* the exit status of the last mkfs.spfs: "ok", "fail" or "none"

vars == <<bs, size, cache, disk, runs, pc, blocks, offset, exit>>

Init ==
    /\ bs \in BlockSizes /\ size \in 0 .. MaxSize
    /\ cache = [b \in {0, 1} |-> Zero] /\ disk = cache
    /\ runs = 0 /\ pc = "done" /\ blocks = 0 /\ offset = TRUE /\ exit = "none"

-----------------------------------------------------------------------------
(* mkfs.spfs *)

\* Somebody runs mkfs.spfs; the file may have grown since the last time.
Start(s) ==
    /\ pc = "done" /\ runs < MaxRuns
    /\ size <= s /\ size' = s
    /\ runs' = runs + 1
    /\ pc' = "stat" /\ offset' = TRUE /\ blocks' = 0 /\ exit' = "none"
    /\ UNCHANGED <<bs, cache, disk>>

HeaderBlocks == 2

\* Mutant of TooSmall: the header blocks are not looked at.
TooSmallForData == size < bs

\* mkfs_block_size refuses a file without room for the headers and one block.
TooSmall == size < HeaderBlocks * bs \/ (size - HeaderBlocks * bs) \div bs = 0

\* Mutant of BlocksOf: the header blocks are counted as free.
BlocksOfAll == size \div bs

BlocksOf == (size - HeaderBlocks * bs) \div bs

Stat ==
    /\ pc = "stat"
    /\ IF TooSmall
       THEN pc' = "sync" /\ exit' = "fail" /\ UNCHANGED blocks
       ELSE pc' = "super" /\ blocks' = BlocksOf /\ UNCHANGED exit
    /\ UNCHANGED <<bs, size, cache, disk, runs, offset>>

\* super_block: the fields, then zeros up to the end of the block.
WriteSuper ==
    /\ pc = "super"
    /\ cache' = [cache EXCEPT ![0] = Super(bs)]
    /\ pc' = "list"
    /\ UNCHANGED <<bs, size, disk, runs, blocks, offset, exit>>

\* Mutant of Short: the block is cleared before it is written.
ShortCleared(b, new) == [new EXCEPT !.n = 0]

\* A block after a short write: its magic number is there, the fields behind it
\* are the ones of before.
Short(b, new) == [new EXCEPT !.n = cache[b].n]

\* A write of super_block fails, before, in or after the fields.  Its result is
\* returned: a result of 0 is taken for success.
WriteSuperStops ==
    /\ pc = "super"
    /\ \E written \in {cache[0], Short(0, Super(bs)), Super(bs)} :
          cache' = [cache EXCEPT ![0] = written]
    /\ \/ pc' = "sync" /\ exit' = "fail" /\ UNCHANGED offset
       \/ pc' = "list" /\ offset' = FALSE /\ UNCHANGED exit
    /\ UNCHANGED <<bs, size, disk, runs, blocks>>

\* Mutant of OffsetOk: the position in the file is not checked.
OffsetOkAlways == TRUE

\* free_list: cur == super->block_size
OffsetOk == offset

\* free_list: the header and its only entry, at the second block.
WriteList ==
    /\ pc = "list" /\ OffsetOk
    /\ cache' = IF offset THEN [cache EXCEPT ![1] = List(blocks % Word)] ELSE cache
    /\ pc' = "sync" /\ exit' = "ok"
    /\ UNCHANGED <<bs, size, disk, runs, blocks, offset>>

\* The offset is wrong, or the write fails or is short.
WriteListFails ==
    /\ pc = "list"
    /\ \/ UNCHANGED cache
       \/ offset /\ cache' = [cache EXCEPT ![1] = Short(1, List(blocks % Word))]
    /\ pc' = "sync" /\ exit' = "fail"
    /\ UNCHANGED <<bs, size, disk, runs, blocks, offset>>

\* fsync, whose result is ignored, close and return.
Sync ==
    /\ pc = "sync"
    /\ disk' \in {cache, disk}
    /\ pc' = "done"
    /\ UNCHANGED <<bs, size, cache, runs, blocks, offset, exit>>

\* mkfs.spfs is killed.
Kill ==
    /\ pc # "done"
    /\ pc' = "done" /\ exit' = "none"
    /\ UNCHANGED <<bs, size, cache, disk, runs, blocks, offset>>

\* The kernel writes a block of the file.
WriteBack(b) ==
    /\ cache[b] # disk[b]
    /\ disk' = [disk EXCEPT ![b] = cache[b]]
    /\ UNCHANGED <<bs, size, cache, runs, pc, blocks, offset, exit>>

PowerLoss ==
    /\ cache' = disk
    /\ pc' = "done" /\ exit' = "none"
    /\ UNCHANGED <<bs, size, disk, runs, blocks, offset>>

Next ==
    \/ \E s \in 0 .. MaxSize : Start(s)
    \/ Stat \/ WriteSuper \/ WriteSuperStops \/ WriteList \/ WriteListFails
    \/ Sync \/ Kill \/ PowerLoss
    \/ \E b \in {0, 1} : WriteBack(b)

Spec == Init /\ [][Next]_vars

-----------------------------------------------------------------------------
(* The readers, of the file's blocks d *)

\* fsck_super_block: the magic number, and a block size that is a multiple of 512.
FsckSuper(b) == b.kind = "super" /\ b.n >= 1

\* fsck_free_list: the magic number of the block the super block names.  On what
\* mkfs.spfs writes its one entry can be read and next is 0.
FsckList(b) == b.kind = "list"

FsckAccepts(d) == FsckSuper(d[0]) /\ FsckList(d[1])

\* spfs_fill_super_block: the super block's magic and block size, a block size
\* sb_set_blocksize supports, and the header of the free list.
FillSuperAccepts(d) ==
    /\ d[0].kind = "super" /\ d[0].n >= 1
    /\ d[0].n <= PageSize
    /\ d[1].kind = "list"

-----------------------------------------------------------------------------
(* Properties *)

\* Every variable has its type; the number of blocks mkfs_block_size computes by
\* subtracting the headers from st_size does not wrap.
TypeOK ==
    /\ bs \in BlockSizes /\ size \in 0 .. MaxSize
    /\ cache \in [{0, 1} -> [kind : {"zero", "super", "list"}, n : 0 .. MaxSize]]
    /\ disk \in [{0, 1} -> [kind : {"zero", "super", "list"}, n : 0 .. MaxSize]]
    /\ runs \in 0 .. MaxRuns /\ blocks \in 0 .. MaxSize
    /\ pc \in {"done", "stat", "super", "list", "sync"}
    /\ offset \in BOOLEAN /\ exit \in {"none", "ok", "fail"}

\* When mkfs.spfs exits with 0, fsck.spfs accepts the file and its free list has
\* all the blocks behind the two headers, at least one unless their number does
\* not fit the entry.
ExitOkComplete ==
    pc = "done" /\ exit = "ok" =>
        /\ FsckAccepts(cache)
        /\ cache[1].n = BlocksOf % Word
        /\ BlocksOf < Word => cache[1].n >= 1

\* A file that can be mounted never offers a sector behind the end of the file,
\* also after a formatting that was cut short by a failure or a loss of power.
AcceptedFits == FillSuperAccepts(cache) => (HeaderBlocks + cache[1].n) * bs <= size

\* A file that can be mounted after a loss of power stays so: mkfs.spfs writes
\* the same super block over the old one, so that no later run of it, failed,
\* killed or written back in part, leaves a file on the device that the kernel
\* or fsck.spfs refuses.
StaysMountable ==
    [][FillSuperAccepts(disk) => FillSuperAccepts(disk') /\ FsckAccepts(disk')]_vars
=============================================================================
