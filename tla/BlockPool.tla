------------------------------ MODULE BlockPool ------------------------------
(***************************************************************************)
(* What the block allocator of spfs promises its callers (the B-tree, the  *)
(* directories and the files): the device is a pool of sectors, runs of    *)
(* sectors are put into the pool while the volume is mounted, and a run    *)
(* that was taken out of the pool is never part of it again.               *)
(* FreeList.tla is shown to implement this specification.                  *)
(***************************************************************************)
EXTENDS Naturals

CONSTANT DeviceBlocks    \* the number of sectors of the device

VARIABLES
    free,    \* the sectors that may still be handed out
    taken    \* the sectors that were handed out

pool_vars == <<free, taken>>

\* The n consecutive sectors that start at sector s.
Run(s, n) == s .. (s + n - 1)

PoolInit ==
    /\ free = {}
    /\ taken = {}

\* A run of the on-disk free list becomes available; it is new to the pool.
PoolFill(s, n) ==
    /\ Run(s, n) \cap (free \cup taken) = {}
    /\ free' = free \cup Run(s, n)
    /\ UNCHANGED taken

\* A caller obtains n consecutive free sectors.
PoolTake(s, n) ==
    /\ Run(s, n) \subseteq free
    /\ free' = free \ Run(s, n)
    /\ taken' = taken \cup Run(s, n)

PoolNext ==
    \E s \in 2 .. DeviceBlocks, n \in 1 .. DeviceBlocks :
        s + n <= DeviceBlocks /\ (PoolFill(s, n) \/ PoolTake(s, n))

PoolSpec == PoolInit /\ [][PoolNext]_pool_vars

=============================================================================
