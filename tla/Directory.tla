------------------------------ MODULE Directory ------------------------------
(***************************************************************************)
(* One directory: the words of its block, the children spfs_add_child      *)
(* writes into it, and readdir streams (spfs_iterate) that list it over    *)
(* several calls, with children added and inodes evicted between them.     *)
(*                                                                         *)
(* The unit is the 32-bit word.  A child is written every second word      *)
(* (sizeof(spfs_ino) is 8), but read from every word: spfs_sb_read_ino     *)
(* moves on by four bytes, and a word that is zero is not counted.         *)
(*                                                                         *)
(* The VFS calls create and iterate with the semaphore of the directory    *)
(* held; it and parent->lock inside are one lock here.  A task that dies   *)
(* keeps it.                                                               *)
(***************************************************************************)
EXTENDS Integers, Sequences, FiniteSets

CONSTANTS
    Tasks,        \* tasks that create files in the directory and list it
    NoTask,       \* a lock nobody holds
    BlockWords,   \* the possible block sizes of a volume, in words
    Full,         \* children of a full directory block (100 in the code)
    MaxChildren,  \* bound: the children created
    Left          \* bound: the numbers an earlier directory has left in blocks

ASSUME DirectoryAssumption ==
    /\ NoTask \notin Tasks
    /\ Full \in Nat \ {0} /\ MaxChildren \in Nat /\ Left \subseteq 1 .. MaxChildren
    /\ BlockWords \subseteq {w \in Nat : w >= 5}

HeaderWords == 3     \* magic, next, children
Magic == MaxChildren + 1
Junk == MaxChildren + 2   \* a word that is the number of no child
Child == 1 .. MaxChildren
Stale == Left \cup {0, Junk}   \* words of a block that was used before

VARIABLES
    words,      \* sbi->block_size
    block,      \* the words of the directory's block; << >>: it has none
    capacity,   \* parent->capacity
    lock,       \* who is inside spfs_create or spfs_iterate
    created,    \* how many children were created
    cached,     \* the children in the inode cache
    pinned,     \* those whose reference is never dropped
    pc,         \* where each task is
    scan,       \* the local variables of its spfs_iterate
    stream,     \* its open directory, over several calls
    listed,     \* observed: the children added to the block, in order
    clean       \* observed: what was between its entries when it was allocated is zero

dir_vars == <<words, block, capacity>>
inode_vars == <<created, cached, pinned>>
ghost_vars == <<listed, clean>>
vars == <<dir_vars, lock, inode_vars, pc, scan, stream, ghost_vars>>

NoScan == [at |-> 0, i |-> 0, children |-> 0, pos |-> 0, got |-> 0]

\* pos: dir_ctx->pos.  Observed: the children it was given, how many could be
\* listed when it was opened, and whether anything went wrong.
Closed == [pos |-> 0, out |-> << >>, first |-> 0, ok |-> TRUE]

\* A new directory, on an object whose capacity may be left from an earlier one.
Init ==
    /\ words \in BlockWords /\ block = << >> /\ capacity \in {0, 1}
    /\ lock = NoTask
    /\ created = 0 /\ cached = {} /\ pinned = {}
    /\ pc = [t \in Tasks |-> "idle"] /\ scan = [t \in Tasks |-> NoScan]
    /\ stream = [t \in Tasks |-> Closed]
    /\ listed = << >> /\ clean = TRUE

Goto(t, label) == pc' = [pc EXCEPT ![t] = label]

-----------------------------------------------------------------------------
(* The block *)

\* spfs_sb_remaining, where pos is not behind the end
Remaining(pos) == words - pos

\* What the allocated sector held before: zeros; the block of an earlier
\* directory, whose numbers may be those of children of today, with what was
\* between them; or other data.
Contents ==
    {[w \in 0 .. (words - 1) |-> IF between = 0 /\ w % 2 # HeaderWords % 2 THEN 0 ELSE u] :
        u \in Stale, between \in {0, 1}}

\* spfs_make_dir_block; next is 0 in every block.
MakeDirBlock(b, n) == [b EXCEPT ![0] = Magic, ![1] = 0, ![2] = n]

\* spfs_parse_dir_block
ChildrenOf(b) == b[2]

\* Mutant of IsFull: never.
IsFullNever(b) == FALSE

\* spfs_dir_is_full
IsFull(b) == b # << >> /\ ChildrenOf(b) = Full

\* Mutant of Entry: the entries begin at the start of the block.
EntryNoHeader(idx) == 2 * idx

\* The offset of spfs_dir_write_child: eight bytes for each child.
Entry(idx) == HeaderWords + 2 * idx

\* spfs_dir_write_child.  Its error is overwritten by the result of
\* spfs_make_dir_block, and the child is counted all the same.
WriteChild(b, child) ==
    LET idx == ChildrenOf(b)
        b1 == IF Remaining(Entry(idx)) < 2 THEN b ELSE [b EXCEPT ![Entry(idx)] = child]
    IN  MakeDirBlock(b1, idx + 1)

-----------------------------------------------------------------------------
(* spfs_add_child, for a child that was just created *)

NewChild == created + 1

\* Mutant of Create: parent->capacity is not increased.
CreateUncounted(t) ==
    /\ pc[t] = "idle" /\ lock = NoTask /\ created < MaxChildren
    /\ created' = NewChild
    /\ cached' = cached \cup {NewChild}
    /\ UNCHANGED <<words, capacity, pinned, scan>>

\* The child has its inode (see Volume), and the directory counts it before
\* anything can fail.
Create(t) ==
    /\ pc[t] = "idle" /\ lock = NoTask /\ created < MaxChildren
    /\ created' = NewChild
    /\ cached' = cached \cup {NewChild}
    /\ capacity' = capacity + 1
    /\ UNCHANGED <<words, pinned, scan>>

\* The block has room, and BUG_ON of spfs_sb_remaining is not hit.
AddToBlock(t) ==
    /\ Create(t)
    /\ block # << >> /\ ~IsFull(block) /\ Entry(ChildrenOf(block)) <= words
    /\ block' = WriteChild(block, NewChild)
    /\ listed' = Append(listed, NewChild)
    /\ UNCHANGED <<lock, pc, stream, clean>>

\* The block is too small: spfs_sb_remaining is asked behind its end.
AddBug(t) ==
    /\ Create(t)
    /\ block # << >> /\ ~IsFull(block) /\ Entry(ChildrenOf(block)) > words
    /\ lock' = t
    /\ Goto(t, "bug")
    /\ UNCHANGED <<block, stream, ghost_vars>>

\* The children of a block are not listed any more; a stream that has begun to
\* read it cannot be right.
StreamsCut ==
    stream' = [t \in Tasks |-> IF block = << >> \/ stream[t].pos = 0 THEN stream[t]
                               ELSE [stream[t] EXCEPT !.ok = FALSE]]

\* There is no block, or it is full and has no successor: a new block takes its
\* place.
AddNewBlock(t) ==
    /\ Create(t)
    /\ block = << >> \/ IsFull(block)
    /\ \E b \in Contents :
          /\ block' = WriteChild(MakeDirBlock(b, 0), NewChild)
          /\ clean' = (b[HeaderWords + 1] = 0)
    /\ listed' = <<NewChild>>
    /\ StreamsCut
    /\ UNCHANGED <<lock, pc>>

\* No block is left or sb_bread fails; spfs_dir_block_alloc returns 0 for the
\* start of the directory.
AddFails(t) ==
    /\ Create(t)
    /\ \/ block # << >> /\ UNCHANGED <<block, listed, stream>>
       \/ /\ block = << >> \/ IsFull(block)
          /\ block' = << >> /\ listed' = << >> /\ StreamsCut
    /\ UNCHANGED <<lock, pc, clean>>

\* The VFS evicts the inode of a child nobody uses.
Evict(c) ==
    /\ c \in cached \ pinned
    /\ cached' = cached \ {c}
    /\ UNCHANGED <<dir_vars, lock, created, pinned, pc, scan, stream, ghost_vars>>

-----------------------------------------------------------------------------
(* spfs_iterate *)

\* What spfs_for_all_children finds in block b after k words: those that are not
\* zero, as many as the header says.  It stops when less than eight bytes are left.
Readable(b) ==
    LET found[k \in 0 .. (words - HeaderWords - 1)] ==
            IF k = 0 THEN << >>
            ELSE LET v == b[HeaderWords + k - 1]
                 IN  IF v = 0 \/ Len(found[k - 1]) = ChildrenOf(b) THEN found[k - 1]
                     ELSE Append(found[k - 1], v)
    IN  IF b = << >> THEN << >> ELSE found[words - HeaderWords - 1]

\* The children that fit into a block, eight bytes each, and those of the
\* children added that do.
Fitting == (words - HeaderWords) \div 2
Visible == IF Len(listed) < Fitting THEN Len(listed) ELSE Fitting

\* getdents: the first call of a stream notes how many children there are.
BeginIterate(t) ==
    /\ pc[t] = "idle" /\ lock = NoTask
    /\ lock' = t
    /\ scan' = [scan EXCEPT ![t] = NoScan]
    /\ stream' = [stream EXCEPT ![t].first = IF stream[t].pos = 0 THEN Visible ELSE @]
    /\ Goto(t, "dots")
    /\ UNCHANGED <<dir_vars, inode_vars, ghost_vars>>

\* The call is over.  The caller takes a call without an entry for the end.
Leave(t) ==
    /\ lock' = NoTask
    /\ scan' = [scan EXCEPT ![t] = NoScan]
    /\ Goto(t, IF scan[t].got = 0 THEN "end" ELSE "idle")

\* dir_emit_dots
EmitDot(t) ==
    /\ pc[t] = "dots" /\ stream[t].pos < 2
    /\ stream' = [stream EXCEPT ![t].pos = @ + 1]
    /\ scan' = [scan EXCEPT ![t].got = @ + 1]
    /\ UNCHANGED <<dir_vars, lock, inode_vars, pc, ghost_vars>>

\* Mutant of AtEnd: the dots are not counted.
AtEndNoDots(t) == stream[t].pos >= capacity

AtEnd(t) == stream[t].pos >= capacity + 2

\* Everything was listed, by the count of children.
IterateDone(t) ==
    /\ pc[t] = "dots" /\ stream[t].pos >= 2 /\ AtEnd(t)
    /\ Leave(t)
    /\ UNCHANGED <<dir_vars, inode_vars, stream, ghost_vars>>

\* spfs_for_all_children: the block is read from its first child.
BeginScan(t) ==
    /\ pc[t] = "dots" /\ stream[t].pos >= 2 /\ ~AtEnd(t)
    /\ scan' = [scan EXCEPT ![t].at = HeaderWords, ![t].pos = 2,
                            ![t].children = IF block = << >> THEN 0 ELSE ChildrenOf(block)]
    /\ Goto(t, "scan")
    /\ UNCHANGED <<dir_vars, lock, inode_vars, stream, ghost_vars>>

\* sb_bread fails; spfs_iterate does not look at the result and returns 0.
ScanFails(t) ==
    /\ pc[t] = "dots" /\ stream[t].pos >= 2 /\ ~AtEnd(t) /\ block # << >>
    /\ stream' = [stream EXCEPT ![t].ok = FALSE]
    /\ Leave(t)
    /\ UNCHANGED <<dir_vars, inode_vars, ghost_vars>>

\* spfs_sb_read_ino can read: eight bytes are left.
Reading(t) == pc[t] = "scan" /\ scan[t].i < scan[t].children /\ Remaining(scan[t].at) >= 2
Word(t) == block[scan[t].at]

\* Mutant of SkipWord: the position in the block stays.
SkipWordStays(t) ==
    /\ Reading(t) /\ Word(t) = 0
    /\ UNCHANGED vars

\* cur_ino is 0: no child, not counted.
SkipWord(t) ==
    /\ Reading(t) /\ Word(t) = 0
    /\ scan' = [scan EXCEPT ![t].at = @ + 1]
    /\ UNCHANGED <<dir_vars, lock, inode_vars, pc, stream, ghost_vars>>

\* spfs_inode_by_id finds the child in the inode cache and takes a reference
\* that is never dropped; spfs_iterate_cb counts it.
Visit(t) ==
    /\ Reading(t) /\ Word(t) \in cached
    /\ pinned' = pinned \cup {Word(t)}
    /\ UNCHANGED <<dir_vars, created, cached, ghost_vars>>

\* Mutant of PassChild: the children before it are not counted.
PassChildUncounted(t) ==
    /\ Visit(t) /\ scan[t].pos # stream[t].pos
    /\ scan' = [scan EXCEPT ![t].at = @ + 1, ![t].i = @ + 1]
    /\ UNCHANGED <<lock, pc, stream>>

\* It is not the child the stream is at.
PassChild(t) ==
    /\ Visit(t) /\ scan[t].pos # stream[t].pos
    /\ scan' = [scan EXCEPT ![t].at = @ + 1, ![t].i = @ + 1, ![t].pos = @ + 1]
    /\ UNCHANGED <<lock, pc, stream>>

\* Mutant of EmitChild: dir_ctx->pos stays.
EmitChildStays(t) ==
    /\ Visit(t) /\ scan[t].pos = stream[t].pos
    /\ scan' = [scan EXCEPT ![t].at = @ + 1, ![t].i = @ + 1, ![t].pos = @ + 1,
                            ![t].got = @ + 1]
    /\ stream' = [stream EXCEPT ![t].out = Append(@, Word(t))]
    /\ UNCHANGED <<lock, pc>>

\* It is, and dir_emit has room for it.
EmitChild(t) ==
    /\ Visit(t) /\ scan[t].pos = stream[t].pos
    /\ scan' = [scan EXCEPT ![t].at = @ + 1, ![t].i = @ + 1, ![t].pos = @ + 1,
                            ![t].got = @ + 1]
    /\ stream' = [stream EXCEPT ![t].pos = @ + 1, ![t].out = Append(@, Word(t))]
    /\ UNCHANGED <<lock, pc>>

\* dir_emit finds the caller's buffer full, which holds one entry at least.
EmitDotFull(t) ==
    /\ pc[t] = "dots" /\ stream[t].pos < 2 /\ scan[t].got > 0
    /\ Leave(t)
    /\ UNCHANGED <<dir_vars, inode_vars, stream, ghost_vars>>

EmitChildFull(t) ==
    /\ Visit(t) /\ scan[t].pos = stream[t].pos /\ scan[t].got > 0
    /\ Leave(t)
    /\ UNCHANGED stream

\* iget_locked has no memory: the child is passed over, and neither counted nor
\* reported.
PassNoMemory(t) ==
    /\ Reading(t) /\ Word(t) \notin cached \cup {0}
    /\ scan' = [scan EXCEPT ![t].at = @ + 1, ![t].i = @ + 1]
    /\ stream' = [stream EXCEPT ![t].ok = FALSE]
    /\ UNCHANGED <<dir_vars, lock, inode_vars, pc, ghost_vars>>

\* The number is not in the cache, and the tree does not have it either:
\* spfs_iterate_cb is called with a null pointer.
VisitGone(t) ==
    /\ Reading(t) /\ Word(t) \notin cached \cup {0}
    /\ Goto(t, "dead")
    /\ UNCHANGED <<dir_vars, lock, inode_vars, scan, stream, ghost_vars>>

\* All children are visited, or the end of the block comes first (-EINVAL,
\* which spfs_iterate does not return).
ScanDone(t) ==
    /\ pc[t] = "scan" /\ ~Reading(t)
    /\ Leave(t)
    /\ UNCHANGED <<dir_vars, inode_vars, stream, ghost_vars>>

\* The caller has seen the end and closes the directory.
CloseDir(t) ==
    /\ pc[t] = "end"
    /\ stream' = [stream EXCEPT ![t] = Closed]
    /\ Goto(t, "idle")
    /\ UNCHANGED <<dir_vars, lock, inode_vars, scan, ghost_vars>>

-----------------------------------------------------------------------------

Add(t) == AddToBlock(t) \/ AddBug(t) \/ AddNewBlock(t) \/ AddFails(t)

\* What a task does inside spfs_iterate; faults are apart.
Step(t) ==
    \/ EmitDot(t) \/ EmitDotFull(t) \/ IterateDone(t) \/ BeginScan(t)
    \/ SkipWord(t) \/ PassChild(t) \/ EmitChild(t) \/ EmitChildFull(t)
    \/ ScanDone(t) \/ CloseDir(t)

Fault(t) == ScanFails(t) \/ PassNoMemory(t) \/ VisitGone(t)

Next ==
    \/ \E t \in Tasks : Add(t) \/ BeginIterate(t) \/ Step(t) \/ Fault(t)
    \/ \E c \in Child : Evict(c)

Spec == Init /\ [][Next]_vars

\* A task inside spfs is scheduled again; one that meets a child that is not in
\* the cache goes on one way or the other.
Fairness == \A t \in Tasks : WF_vars(Step(t)) /\ WF_vars(PassNoMemory(t) \/ VisitGone(t))

FairSpec == Spec /\ Fairness

-----------------------------------------------------------------------------
(* Properties *)

Entries == Child \cup {Junk}
Labels == {"idle", "dots", "scan", "end", "dead", "bug"}
ScanFields == [at : 0 .. words, i : Nat, children : Nat, pos : Nat, got : Nat]
StreamFields == [pos : 0 .. (capacity + 2), out : Seq(Entries), first : Nat, ok : BOOLEAN]

\* Every variable has its type: no scan leaves the block, and no stream is
\* behind the number of children that were ever counted.
TypeOK ==
    /\ words \in BlockWords
    /\ block \in {<< >>} \cup [0 .. (words - 1) -> Nat]
    /\ capacity \in 0 .. (MaxChildren + 1)
    /\ lock \in Tasks \cup {NoTask}
    /\ created \in 0 .. MaxChildren /\ cached \subseteq Child /\ pinned \subseteq cached
    /\ pc \in [Tasks -> Labels]
    /\ scan \in [Tasks -> ScanFields] /\ stream \in [Tasks -> StreamFields]
    /\ listed \in Seq(Child) /\ clean \in BOOLEAN

\* The reader takes every word and the writer every second: on a block with
\* zeros between the entries, though the entries of an earlier directory be still
\* there, what spfs_for_all_children finds is what spfs_add_child wrote, in the
\* same order, up to the size of the block.
BlockListsChildren ==
    clean => Readable(block) = SubSeq(listed, 1, Visible)

\* Over all calls of a stream, whatever is created between them and wherever
\* the buffer was full, spfs_iterate_cb gives the children in the order in which
\* spfs_add_child wrote them, each once and none left out in between.
StreamInOrder ==
    \A t \in Tasks : clean /\ stream[t].ok =>
        LET n == Len(stream[t].out)
        IN  n <= Visible /\ stream[t].out = SubSeq(listed, 1, n)

\* A stream that has come to its end without a fault has given every child that
\* was listed when it was opened.
StreamComplete ==
    \A t \in Tasks : pc[t] = "end" /\ clean /\ stream[t].ok =>
        Len(stream[t].out) >= stream[t].first

\* spfs_dir_is_full stops before the end of the block: where a block is large
\* enough for Full children, spfs_dir_write_child finds room for every child
\* that is counted, and BUG_ON(pos > bh->b_size) is never hit.
LargeBlockHoldsAll ==
    words >= HeaderWords + 2 * Full =>
        Len(listed) <= Fitting /\ \A t \in Tasks : pc[t] # "bug"

\* spfs_iterate returns, unless the task dies in it.
IterateReturns ==
    \A t \in Tasks : pc[t] \in {"dots", "scan"} ~> pc[t] \in {"idle", "end", "dead"}

-----------------------------------------------------------------------------
(* The directory implements the list of Listing.tla.  A stream that has not    *)
(* begun is as good as new; one that reads a block without the zeros is not.   *)

Sound(t) == stream[t].pos = 0 \/ (stream[t].ok /\ (clean \/ listed = << >>))

Shown == SubSeq(listed, 1, Visible)
GivenTo == [t \in Tasks |-> IF Sound(t) THEN stream[t].out ELSE << >>]
DueTo == [t \in Tasks |-> IF Sound(t) THEN stream[t].first ELSE 0]
SoundFor == [t \in Tasks |-> Sound(t)]

List == INSTANCE Listing WITH
    Streams <- Tasks, entries <- Shown, given <- GivenTo, due <- DueTo, sound <- SoundFor

\* Children are only added behind the others, whether or not they fit into the
\* block; every call of spfs_iterate gives the next children or none, and a
\* stream ends only when it has them all, however calls, creations, evictions
\* and failures are mixed.
ImplementsListing == List!ListSpec
=============================================================================
