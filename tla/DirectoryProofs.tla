--------------------------- MODULE DirectoryProofs ---------------------------
(***************************************************************************)
(* Proofs about Directory.tla, for every number of tasks, every block      *)
(* size, every limit of a block and every number of children.              *)
(***************************************************************************)
EXTENDS Directory, Induction, TLAPS

-----------------------------------------------------------------------------
(* The inductive invariant *)

\* A task inside spfs_iterate has the directory to itself.
Locked == \A t \in Tasks : pc[t] \in {"dots", "scan"} => lock = t

\* The header of the block counts the children that were added to it, which are
\* neither more than the limit of a block nor than the directory's capacity.
Counts ==
    /\ \/ block = << >> /\ listed = << >>
       \/ /\ block # << >> /\ block \in [0 .. (words - 1) -> Nat]
          /\ ChildrenOf(block) = Len(listed)
    /\ Len(listed) <= Full /\ Len(listed) <= capacity /\ capacity <= created + 1

\* BUG_ON of spfs_sb_remaining is out of reach on a large block.
NoBug == words >= HeaderWords + 2 * Full => \A t \in Tasks : pc[t] # "bug"

\* The words of a block that had zeros between its entries: a child in every
\* second word, as long as there is room for eight bytes, and zero between them.
\* Behind the last child there may be entries of an earlier directory.
Layout ==
    clean /\ block # << >> => \A k \in Nat :
        /\ k < Len(listed) /\ Entry(k) <= words - 2 => block[Entry(k)] = listed[k + 1]
        /\ Entry(k) <= words - 3 => block[Entry(k) + 1] = 0

\* Where a stream and its scan are.
Positions == \A t \in Tasks :
    /\ Len(stream[t].out) = IF stream[t].pos < 2 THEN 0 ELSE stream[t].pos - 2
    /\ pc[t] = "dots" => scan[t].i = 0
    /\ pc[t] = "scan" =>
          /\ stream[t].pos >= 2 /\ scan[t].pos <= stream[t].pos
          /\ scan[t].i <= scan[t].children /\ scan[t].children = Len(listed)
          /\ scan[t].pos <= scan[t].i + 2

\* Nothing went wrong with a stream, and there are zeros between the entries.
Exact(t) == stream[t].ok /\ (clean \/ listed = << >>)

\* What a stream has given is what was written first, and a scan is at the word
\* of its next child or at the zero before it.
InOrder == \A t \in Tasks :
    /\ stream[t].ok => stream[t].first <= Len(listed) /\ stream[t].first <= Fitting
    /\ Exact(t) =>
          /\ Len(stream[t].out) <= Len(listed) /\ Len(stream[t].out) <= Fitting
          /\ \A k \in 1 .. Len(stream[t].out) : stream[t].out[k] = listed[k]
          /\ pc[t] = "scan" =>
                /\ scan[t].pos = scan[t].i + 2
                /\ \/ scan[t].at = Entry(scan[t].i)
                   \/ scan[t].i >= 1 /\ scan[t].at = Entry(scan[t].i) - 1
          /\ pc[t] = "end" => Len(stream[t].out) >= stream[t].first

\* A stream that has not given its first dot is new, and the caller of one that
\* is at its end has both dots.
Begun == \A t \in Tasks :
    /\ stream[t].pos = 0 /\ pc[t] # "dots" => stream[t].first = 0
    /\ pc[t] = "dots" /\ stream[t].pos = 0 => scan[t].got = 0
    /\ pc[t] = "end" => stream[t].pos >= 2

IInv == TypeOK /\ Locked /\ Counts /\ NoBug /\ Layout /\ Positions /\ InOrder /\ Begun

-----------------------------------------------------------------------------
(* Types *)

\* What the assumption and the types say about the numbers.
LEMMA Sizes ==
    ASSUME TypeOK
    PROVE  /\ words \in Nat /\ words >= 5 /\ Full \in Nat /\ Full >= 1 /\ MaxChildren \in Nat
           /\ capacity \in Nat /\ created \in Nat /\ Len(listed) \in Nat /\ Fitting \in Nat
           /\ NoTask \notin Tasks
<1>1. words \in Nat /\ words >= 5 /\ Full \in Nat /\ Full >= 1 /\ MaxChildren \in Nat
  BY DirectoryAssumption DEF TypeOK
<1>2. capacity \in Nat /\ created \in Nat /\ Len(listed) \in Nat
  BY <1>1 DEF TypeOK
<1>3. Fitting \in Nat
  BY <1>1 DEF Fitting, HeaderWords
<1> QED
  BY <1>1, <1>2, <1>3, DirectoryAssumption

\* The scan and the stream of a task.
LEMMA Fields ==
    ASSUME TypeOK, NEW t \in Tasks
    PROVE  /\ pc[t] \in Labels
           /\ scan[t] \in ScanFields
           /\ scan[t].at \in Nat /\ scan[t].at <= words /\ scan[t].i \in Nat
           /\ scan[t].children \in Nat /\ scan[t].pos \in Nat /\ scan[t].got \in Nat
           /\ stream[t] \in StreamFields
           /\ stream[t].pos \in Nat /\ stream[t].pos <= capacity + 2
           /\ stream[t].out \in Seq(Entries) /\ stream[t].first \in Nat
<1>1. pc[t] \in Labels /\ scan[t] \in ScanFields /\ stream[t] \in StreamFields
  BY DEF TypeOK
<1>2. capacity \in Nat /\ words \in Nat
  BY Sizes
<1>3. \A x \in ScanFields : /\ x.at \in Nat /\ x.at <= words /\ x.i \in Nat /\ x.children \in Nat
                            /\ x.pos \in Nat /\ x.got \in Nat
  BY <1>2 DEF ScanFields
<1>4. \A x \in StreamFields : /\ x.pos \in Nat /\ x.pos <= capacity + 2
                              /\ x.out \in Seq(Entries) /\ x.first \in Nat
  BY <1>2 DEF StreamFields
<1> QED
  BY <1>1, <1>3, <1>4

\* A block with words is not the one that is missing.
LEMMA NotMissing ==
    ASSUME TypeOK, NEW b \in [0 .. (words - 1) -> Nat]
    PROVE  b # << >> /\ 0 \in DOMAIN b
<1>1. 0 \in DOMAIN b
  BY Sizes
<1>2. DOMAIN << >> = {}
  OBVIOUS
<1> QED
  BY <1>1, <1>2

\* A child fits into the block when eight bytes are left.
LEMMA Fits ==
    ASSUME TypeOK, NEW k \in Nat
    PROVE  /\ Entry(k) \in Nat /\ Entry(k) = 3 + 2 * k
           /\ k < Fitting <=> Entry(k) <= words - 2
<1>1. words \in Nat
  BY Sizes
<1> QED
  BY <1>1 DEF Entry, HeaderWords, Fitting

\* spfs_make_dir_block writes the header and nothing else.
LEMMA Header ==
    ASSUME TypeOK, NEW b \in [0 .. (words - 1) -> Nat], NEW n \in Nat
    PROVE  /\ MakeDirBlock(b, n) \in [0 .. (words - 1) -> Nat]
           /\ ChildrenOf(MakeDirBlock(b, n)) = n
           /\ \A w \in 3 .. (words - 1) : MakeDirBlock(b, n)[w] = b[w]
<1> DEFINE c1 == [b EXCEPT ![0] = Magic]
           c2 == [c1 EXCEPT ![1] = 0]
           c3 == [c2 EXCEPT ![2] = n]
<1>0. words \in Nat /\ words >= 5 /\ Magic \in Nat
  BY Sizes DEF Magic
<1>1. MakeDirBlock(b, n) = c3
  BY Zenon DEF MakeDirBlock
<1>2. c3 \in [0 .. (words - 1) -> Nat] /\ c3[2] = n /\ \A w \in 3 .. (words - 1) : c3[w] = b[w]
  BY <1>0
<1> HIDE DEF c3
<1> QED
  BY <1>1, <1>2 DEF ChildrenOf

\* What spfs_dir_write_child does to a block.
LEMMA Written ==
    ASSUME TypeOK, NEW b \in [0 .. (words - 1) -> Nat], NEW c \in Nat
    PROVE  /\ WriteChild(b, c) \in [0 .. (words - 1) -> Nat]
           /\ ChildrenOf(WriteChild(b, c)) = ChildrenOf(b) + 1
           /\ \A w \in 3 .. (words - 1) :
                 WriteChild(b, c)[w] =
                    IF w = Entry(ChildrenOf(b)) /\ w <= words - 2 THEN c ELSE b[w]
<1> DEFINE idx == ChildrenOf(b)
           b1 == IF Remaining(Entry(idx)) < 2 THEN b ELSE [b EXCEPT ![Entry(idx)] = c]
<1>0. words \in Nat /\ words >= 5 /\ MaxChildren \in Nat
  BY Sizes
<1>1. idx \in Nat /\ Entry(idx) \in Nat /\ Entry(idx) >= 3
  <2>1. idx \in Nat
    BY <1>0 DEF ChildrenOf
  <2> QED
    BY <2>1 DEF Entry, HeaderWords
<1>2. b1 \in [0 .. (words - 1) -> Nat]
  BY <1>0, <1>1
<1>3. \A w \in 3 .. (words - 1) : b1[w] = IF w = Entry(idx) /\ w <= words - 2 THEN c ELSE b[w]
  BY <1>0, <1>1 DEF Remaining
<1>4. WriteChild(b, c) = MakeDirBlock(b1, idx + 1)
  BY DEF WriteChild
<1> HIDE DEF b1, idx
<1>n. idx + 1 \in Nat
  BY <1>1
<1>5. /\ MakeDirBlock(b1, idx + 1) \in [0 .. (words - 1) -> Nat]
      /\ ChildrenOf(MakeDirBlock(b1, idx + 1)) = idx + 1
      /\ \A w \in 3 .. (words - 1) : MakeDirBlock(b1, idx + 1)[w] = b1[w]
  BY <1>2, <1>n, Header
<1> QED
  BY <1>3, <1>4, <1>5 DEF idx

-----------------------------------------------------------------------------
(* The steps of spfs_add_child *)

\* Every stream is marked that has begun.
Marked == \A u \in Tasks : ~stream'[u].ok \/ (stream[u].pos = 0 /\ stream'[u] = stream[u])

\* What spfs_add_child does to the block and to what is observed of it.
AddEffect(t) ==
    \/ /\ UNCHANGED <<block, listed, clean, stream>>
    \/ /\ UNCHANGED <<clean, stream>> /\ block # << >> /\ ~IsFull(block)
       /\ block' = WriteChild(block, NewChild) /\ listed' = Append(listed, NewChild)
    \/ /\ \E b \in Contents : /\ block' = WriteChild(MakeDirBlock(b, 0), NewChild)
                              /\ clean' = (b[HeaderWords + 1] = 0)
       /\ listed' = <<NewChild>>
       /\ (block = << >> /\ UNCHANGED stream) \/ Marked
    \/ /\ block' = << >> /\ listed' = << >> /\ UNCHANGED clean /\ Marked

\* The fields of the streams that spfs_add_child leaves alone.
StreamsKept ==
    /\ stream' \in [Tasks -> StreamFields']
    /\ \A u \in Tasks : /\ stream'[u].pos = stream[u].pos /\ stream'[u].out = stream[u].out
                        /\ stream'[u].first = stream[u].first

\* A child is counted and cached; the directory was not locked.
LEMMA CreateStep ==
    ASSUME IInv, NEW t \in Tasks, Create(t)
    PROVE  /\ pc[t] = "idle" /\ lock = NoTask /\ words' = words /\ scan' = scan /\ pinned' = pinned
           /\ capacity' = capacity + 1 /\ created' = created + 1 /\ created' \in 0 .. MaxChildren
           /\ cached' = cached \cup {NewChild} /\ NewChild \in Child /\ NewChild \in Nat
<1>1. TypeOK
  BY DEF IInv
<1> QED
  BY <1>1, Sizes DEF Create, NewChild, Child

\* Streams keep their type when the capacity grows.
LEMMA StreamsGrow ==
    ASSUME IInv, capacity' = capacity + 1, UNCHANGED stream \/ StreamsCut
    PROVE  /\ StreamsKept
           /\ StreamsCut => (block = << >> /\ UNCHANGED stream) \/ Marked
<1>0. capacity \in Nat /\ stream \in [Tasks -> StreamFields]
  BY Sizes DEF IInv, TypeOK
<1>1. \A x \in StreamFields : x \in StreamFields'
  BY <1>0 DEF StreamFields
<1>2. \A x \in StreamFields : /\ [x EXCEPT !.ok = FALSE] \in StreamFields
                              /\ [x EXCEPT !.ok = FALSE].pos = x.pos
                              /\ [x EXCEPT !.ok = FALSE].out = x.out
                              /\ [x EXCEPT !.ok = FALSE].first = x.first
                              /\ [x EXCEPT !.ok = FALSE].ok = FALSE
  BY Zenon DEF StreamFields
<1>3. ASSUME UNCHANGED stream PROVE StreamsKept
  <2>1. stream \in [Tasks -> StreamFields']
    BY <1>0, <1>1
  <2> QED
    BY <1>3, <2>1 DEF StreamsKept
<1>4. ASSUME StreamsCut, block = << >>
      PROVE  UNCHANGED stream
  BY <1>0, <1>4 DEF StreamsCut
<1>5. ASSUME StreamsCut, block # << >>
      PROVE  StreamsKept /\ Marked
  <2>1. \A u \in Tasks : \/ stream[u].pos = 0 /\ stream'[u] = stream[u]
                         \/ stream'[u] = [stream[u] EXCEPT !.ok = FALSE]
    BY <1>5, Zenon DEF StreamsCut
  <2>2. \A u \in Tasks : stream'[u] \in StreamFields'
    BY <1>0, <1>1, <1>2, <2>1
  <2>3. stream' \in [Tasks -> StreamFields']
    BY <1>5, <2>2 DEF StreamsCut
  <2>4. \A u \in Tasks : stream[u] \in StreamFields
    BY <1>0
  <2>5. Marked
    BY <1>2, <2>1, <2>4, Zenon DEF Marked
  <2> QED
    BY <1>2, <2>1, <2>3, <2>4, <2>5 DEF StreamsKept
<1> QED
  BY <1>3, <1>4, <1>5

\* The step of spfs_add_child in parts.
LEMMA AddStep ==
    ASSUME IInv, NEW t \in Tasks, Add(t)
    PROVE  /\ Create(t) /\ AddEffect(t) /\ StreamsKept
           /\ \/ pc' = pc /\ lock' = lock
              \/ AddBug(t) /\ lock' = t /\ pc' = [pc EXCEPT ![t] = "bug"]
<1>0. ASSUME Create(t) PROVE capacity' = capacity + 1
  BY <1>0, CreateStep
<1>1. CASE AddToBlock(t)
  <2>1. Create(t) /\ AddEffect(t) /\ UNCHANGED <<lock, pc, stream>>
    BY <1>1, Zenon DEF AddToBlock, AddEffect
  <2> QED
    BY <1>0, <2>1, StreamsGrow
<1>2. CASE AddBug(t)
  <2>1. Create(t) /\ AddEffect(t) /\ UNCHANGED stream
    BY <1>2, Zenon DEF AddBug, AddEffect, ghost_vars
  <2> QED
    BY <1>0, <1>2, <2>1, StreamsGrow DEF AddBug, Goto
<1>3. CASE AddNewBlock(t)
  <2>1. Create(t) /\ UNCHANGED <<lock, pc>>
    BY <1>3 DEF AddNewBlock
  <2>2. StreamsCut
    BY <1>3, Zenon DEF AddNewBlock
  <2>3. StreamsKept /\ ((block = << >> /\ UNCHANGED stream) \/ Marked)
    BY <1>0, <2>1, <2>2, StreamsGrow
  <2> QED
    BY <1>3, <2>1, <2>3, Zenon DEF AddNewBlock, AddEffect
<1>4. CASE AddFails(t)
  <2>1. Create(t) /\ UNCHANGED <<lock, pc, clean>>
    BY <1>4 DEF AddFails
  <2>2. CASE UNCHANGED <<block, listed, stream>>
    BY <1>0, <2>1, <2>2, StreamsGrow DEF AddEffect
  <2>3. CASE /\ block' = << >> /\ listed' = << >> /\ StreamsCut
    <3>1. StreamsKept /\ ((block = << >> /\ UNCHANGED stream) \/ Marked)
      BY <1>0, <2>1, <2>3, StreamsGrow
    <3>2. CASE block = << >> /\ UNCHANGED stream
      <4>1. UNCHANGED <<block, listed>>
        BY <2>3, <3>2 DEF IInv, Counts
      <4> QED
        BY <2>1, <3>1, <3>2, <4>1 DEF AddEffect
    <3>3. CASE Marked
      BY <2>1, <2>3, <3>1, <3>3 DEF AddEffect
    <3> QED
      BY <3>1, <3>2, <3>3
  <2> QED
    BY <1>4, <2>2, <2>3, Zenon DEF AddFails
<1> QED
  BY <1>1, <1>2, <1>3, <1>4 DEF Add

-----------------------------------------------------------------------------
(* The steps of spfs_iterate *)

\* The scan of task t after the step, and its stream.
Scanned(t, at, i, children, pos, got) ==
    /\ scan' \in [Tasks -> ScanFields] /\ \A u \in Tasks \ {t} : scan'[u] = scan[u]
    /\ scan'[t].at = at /\ scan'[t].i = i /\ scan'[t].children = children
    /\ scan'[t].pos = pos /\ scan'[t].got = got

Streamed(t, pos, out, first) ==
    /\ stream' \in [Tasks -> StreamFields] /\ \A u \in Tasks \ {t} : stream'[u] = stream[u]
    /\ stream'[t].pos = pos /\ stream'[t].out = out /\ stream'[t].first = first

\* Nothing goes wrong in the step.
Fine(t) == stream'[t].ok = stream[t].ok

\* One call of getdents: it begins, gives the dots, ends, ...
Outer(t) ==
    LET s == scan[t] d == stream[t]
    IN  \/ /\ pc[t] = "idle" /\ pc'[t] = "dots" /\ lock = NoTask /\ lock' = t
           /\ Scanned(t, 0, 0, 0, 0, 0) /\ Fine(t)
           /\ Streamed(t, d.pos, d.out, IF d.pos = 0 THEN Visible ELSE d.first)
        \/ /\ pc[t] = "dots" /\ pc'[t] = "dots" /\ lock' = lock /\ d.pos < 2
           /\ Scanned(t, s.at, s.i, s.children, s.pos, s.got + 1)
           /\ Streamed(t, d.pos + 1, d.out, d.first) /\ Fine(t)
        \/ /\ pc[t] \in {"dots", "scan"} /\ pc'[t] \in {"idle", "end"} /\ lock' = NoTask
           /\ Scanned(t, 0, 0, 0, 0, 0) /\ Streamed(t, d.pos, d.out, d.first)
           /\ Fine(t) \/ ~stream'[t].ok
           /\ d.pos >= 2 \/ (s.got > 0 /\ pc'[t] = "idle")
           /\ pc'[t] = "end" => \/ ~stream'[t].ok
                                \/ pc[t] = "dots" /\ d.pos >= capacity + 2
                                \/ pc[t] = "scan" /\ (s.i >= s.children \/ s.at > words - 2)
        \/ /\ pc[t] = "end" /\ pc'[t] = "idle" /\ lock' = lock
           /\ Scanned(t, s.at, s.i, s.children, s.pos, s.got) /\ Streamed(t, 0, << >>, 0)

\* ... and in between reads the words of the block.
Inner(t) ==
    LET s == scan[t] d == stream[t]
    IN  \/ /\ pc[t] = "dots" /\ pc'[t] = "scan" /\ lock' = lock /\ d.pos >= 2
           /\ Scanned(t, HeaderWords, s.i, Len(listed), 2, s.got)
           /\ Streamed(t, d.pos, d.out, d.first) /\ Fine(t)
        \/ /\ Reading(t) /\ pc'[t] = "scan" /\ lock' = lock
           /\ \/ /\ Word(t) = 0 /\ Scanned(t, s.at + 1, s.i, s.children, s.pos, s.got)
                 /\ Streamed(t, d.pos, d.out, d.first) /\ Fine(t)
              \/ /\ Word(t) \in Child /\ s.pos # d.pos
                 /\ Scanned(t, s.at + 1, s.i + 1, s.children, s.pos + 1, s.got)
                 /\ Streamed(t, d.pos, d.out, d.first) /\ Fine(t)
              \/ /\ Word(t) \in Child /\ s.pos = d.pos
                 /\ Scanned(t, s.at + 1, s.i + 1, s.children, s.pos + 1, s.got + 1)
                 /\ Streamed(t, d.pos + 1, Append(d.out, Word(t)), d.first) /\ Fine(t)
              \/ /\ Scanned(t, s.at + 1, s.i + 1, s.children, s.pos, s.got)
                 /\ Streamed(t, d.pos, d.out, d.first) /\ ~stream'[t].ok
        \/ /\ pc[t] = "scan" /\ pc'[t] = "dead" /\ lock' = lock
           /\ Scanned(t, s.at, s.i, s.children, s.pos, s.got)
           /\ Streamed(t, d.pos, d.out, d.first) /\ Fine(t)

\* An update of the scan of one task.
LEMMA ScanUpdate ==
    ASSUME TypeOK, NEW t \in Tasks, NEW r \in ScanFields, scan' = [scan EXCEPT ![t] = r]
    PROVE  Scanned(t, r.at, r.i, r.children, r.pos, r.got)
BY DEF TypeOK, Scanned

\* A call begins and ends with the same values of its local variables.
LEMMA ScanReset ==
    ASSUME TypeOK, NEW t \in Tasks, scan' = [scan EXCEPT ![t] = NoScan]
    PROVE  Scanned(t, 0, 0, 0, 0, 0)
<1>1. NoScan \in ScanFields
  BY Sizes DEF NoScan, ScanFields
<1>2. NoScan.at = 0 /\ NoScan.i = 0 /\ NoScan.children = 0 /\ NoScan.pos = 0 /\ NoScan.got = 0
  BY DEF NoScan
<1> QED
  BY <1>1, <1>2, ScanUpdate

\* A scan that stays.
LEMMA ScanSame ==
    ASSUME TypeOK, NEW t \in Tasks, scan' = scan
    PROVE  Scanned(t, scan[t].at, scan[t].i, scan[t].children, scan[t].pos, scan[t].got)
BY DEF TypeOK, Scanned

\* An update of the stream of one task.
LEMMA StreamUpdate ==
    ASSUME TypeOK, NEW t \in Tasks, NEW q \in StreamFields, stream' = [stream EXCEPT ![t] = q]
    PROVE  Streamed(t, q.pos, q.out, q.first) /\ stream'[t].ok = q.ok
BY DEF TypeOK, Streamed

\* A stream that stays.
LEMMA StreamSame ==
    ASSUME TypeOK, NEW t \in Tasks, stream' = stream
    PROVE  Streamed(t, stream[t].pos, stream[t].out, stream[t].first) /\ Fine(t)
BY DEF TypeOK, Streamed, Fine

\* A stream with which something went wrong.
LEMMA StreamMarked ==
    ASSUME TypeOK, NEW t \in Tasks, stream' = [stream EXCEPT ![t].ok = FALSE]
    PROVE  Streamed(t, stream[t].pos, stream[t].out, stream[t].first) /\ ~stream'[t].ok
<1> DEFINE q == [stream[t] EXCEPT !.ok = FALSE]
<1>1. stream' = [stream EXCEPT ![t] = q]
  BY Zenon
<1>2. stream[t] \in StreamFields
  BY Fields
<1>3. /\ q \in StreamFields /\ q.pos = stream[t].pos /\ q.out = stream[t].out
      /\ q.first = stream[t].first /\ ~q.ok
  BY <1>2, Zenon DEF StreamFields
<1> HIDE DEF q
<1> QED
  BY <1>1, <1>3, StreamUpdate

\* What spfs_iterate leaves alone.
Frame(t) ==
    /\ UNCHANGED <<dir_vars, created, cached, ghost_vars>> /\ pinned' \subseteq cached
    /\ pc' \in [Tasks -> Labels] /\ \A u \in Tasks \ {t} : pc'[u] = pc[u]

\* Every step of spfs_iterate leaves the directory and the other tasks alone.
LEMMA FrameStep ==
    ASSUME IInv, NEW t \in Tasks, BeginIterate(t) \/ Step(t) \/ Fault(t)
    PROVE  Frame(t)
<1>0. pc \in [Tasks -> Labels] /\ pinned \subseteq cached
  BY DEF IInv, TypeOK
<1>1. UNCHANGED <<dir_vars, created, cached, ghost_vars>>
  BY Zenon
  DEF Step, Fault, BeginIterate, EmitDot, EmitDotFull, IterateDone, BeginScan, SkipWord, PassChild,
      EmitChild, EmitChildFull, ScanDone, CloseDir, ScanFails, PassNoMemory, VisitGone, Visit,
      inode_vars
<1>2. pinned' \subseteq cached
  <2>1. pinned' = pinned \/ (Word(t) \in cached /\ pinned' = pinned \cup {Word(t)})
    BY Zenon
    DEF Step, Fault, BeginIterate, EmitDot, EmitDotFull, IterateDone, BeginScan, SkipWord, PassChild,
        EmitChild, EmitChildFull, ScanDone, CloseDir, ScanFails, PassNoMemory, VisitGone, Visit,
        inode_vars
  <2> QED
    BY <1>0, <2>1
<1>3. pc' = pc \/ \E l \in Labels : pc' = [pc EXCEPT ![t] = l]
  <2>1. pc' = pc \/ \E l \in {"dots", "scan", "dead", "idle", "end"} : pc' = [pc EXCEPT ![t] = l]
    <3>1. CASE BeginIterate(t) \/ BeginScan(t) \/ VisitGone(t) \/ CloseDir(t)
      BY <3>1 DEF BeginIterate, BeginScan, VisitGone, CloseDir, Goto
    <3>2. CASE EmitDot(t) \/ SkipWord(t) \/ PassChild(t) \/ EmitChild(t) \/ PassNoMemory(t)
      BY <3>2 DEF EmitDot, SkipWord, PassChild, EmitChild, PassNoMemory
    <3>3. CASE IterateDone(t) \/ ScanFails(t) \/ ScanDone(t) \/ EmitDotFull(t) \/ EmitChildFull(t)
      BY <3>3 DEF IterateDone, ScanFails, ScanDone, EmitDotFull, EmitChildFull, Leave, Goto
    <3> QED
      BY <3>1, <3>2, <3>3 DEF Step, Fault
  <2> QED
    BY <2>1 DEF Labels
<1> QED
  BY <1>0, <1>1, <1>2, <1>3 DEF Frame

\* The steps of a call of getdents outside of the block.
LEMMA OuterStep ==
    ASSUME IInv, NEW t \in Tasks,
           \/ BeginIterate(t) \/ EmitDot(t) \/ CloseDir(t) \/ IterateDone(t) \/ EmitDotFull(t)
           \/ EmitChildFull(t) \/ ScanFails(t) \/ ScanDone(t)
    PROVE  Outer(t)
<1>0. TypeOK /\ pc \in [Tasks -> Labels] /\ Visible \in Nat
  BY Sizes DEF IInv, TypeOK, Visible
<1>s. scan[t] \in ScanFields /\ scan[t].got \in Nat /\ stream[t] \in StreamFields
      /\ stream[t].pos \in Nat /\ capacity \in Nat /\ words \in Nat /\ scan[t].at \in Nat
      /\ scan[t].i \in Nat /\ scan[t].children \in Nat
  BY <1>0, Fields, Sizes
<1>1. CASE BeginIterate(t)
  <2> DEFINE n == IF stream[t].pos = 0 THEN Visible ELSE stream[t].first
             q == [stream[t] EXCEPT !.first = n]
  <2>1. stream' = [stream EXCEPT ![t] = q]
    BY <1>1, Zenon DEF BeginIterate
  <2>2. n \in Nat
    BY <1>0, Fields
  <2>3. /\ q \in StreamFields /\ q.pos = stream[t].pos /\ q.out = stream[t].out /\ q.first = n
        /\ q.ok = stream[t].ok
    <3> HIDE DEF n
    <3> QED
      BY <1>s, <2>2, Zenon DEF StreamFields
  <2> HIDE DEF q
  <2>4. Streamed(t, stream[t].pos, stream[t].out, n) /\ Fine(t)
    BY <1>0, <2>1, <2>3, StreamUpdate DEF Fine
  <2>5. Scanned(t, 0, 0, 0, 0, 0)
    BY <1>0, <1>1, ScanReset DEF BeginIterate
  <2>6. pc[t] = "idle" /\ pc'[t] = "dots" /\ lock = NoTask /\ lock' = t
    BY <1>0, <1>1 DEF BeginIterate, Goto
  <2> QED
    BY <2>4, <2>5, <2>6 DEF Outer
<1>2. CASE EmitDot(t)
  <2> DEFINE q == [stream[t] EXCEPT !.pos = @ + 1]
             r == [scan[t] EXCEPT !.got = @ + 1]
  <2>1. stream' = [stream EXCEPT ![t] = q] /\ scan' = [scan EXCEPT ![t] = r]
    BY <1>2, Zenon DEF EmitDot
  <2>2. stream[t].pos + 1 \in 0 .. (capacity + 2) /\ scan[t].got + 1 \in Nat
    BY <1>2, <1>s DEF EmitDot
  <2>3. /\ q \in StreamFields /\ q.pos = stream[t].pos + 1 /\ q.out = stream[t].out
        /\ q.first = stream[t].first /\ q.ok = stream[t].ok
    BY <1>s, <2>2, Zenon DEF StreamFields
  <2>4. /\ r \in ScanFields /\ r.at = scan[t].at /\ r.i = scan[t].i
        /\ r.children = scan[t].children /\ r.pos = scan[t].pos /\ r.got = scan[t].got + 1
    BY <1>s, <2>2, Zenon DEF ScanFields
  <2> HIDE DEF q, r
  <2>5. Streamed(t, stream[t].pos + 1, stream[t].out, stream[t].first) /\ Fine(t)
    BY <1>0, <2>1, <2>3, StreamUpdate DEF Fine
  <2>6. Scanned(t, scan[t].at, scan[t].i, scan[t].children, scan[t].pos, scan[t].got + 1)
    BY <1>0, <2>1, <2>4, ScanUpdate
  <2> QED
    BY <1>2, <2>5, <2>6 DEF EmitDot, Outer
<1>3. CASE CloseDir(t)
  <2>1. Closed \in StreamFields
    <3>1. 0 \in 0 .. (capacity + 2) /\ << >> \in Seq(Entries) /\ 0 \in Nat
      BY <1>s
    <3> QED
      BY <3>1, Zenon DEF Closed, StreamFields
  <2>2. Closed.pos = 0 /\ Closed.out = << >> /\ Closed.first = 0
    BY DEF Closed
  <2>3. Streamed(t, 0, << >>, 0)
    BY <1>0, <1>3, <2>1, <2>2, StreamUpdate DEF CloseDir
  <2>4. Scanned(t, scan[t].at, scan[t].i, scan[t].children, scan[t].pos, scan[t].got)
    BY <1>0, <1>3, ScanSame DEF CloseDir
  <2>5. pc[t] = "end" /\ pc'[t] = "idle" /\ lock' = lock
    BY <1>0, <1>3 DEF CloseDir, Goto
  <2> QED
    BY <2>3, <2>4, <2>5 DEF Outer
<1>4. ASSUME Leave(t)
      PROVE  /\ Scanned(t, 0, 0, 0, 0, 0) /\ lock' = NoTask /\ pc'[t] \in {"idle", "end"}
             /\ pc'[t] = "end" => scan[t].got = 0
  <2>1. Scanned(t, 0, 0, 0, 0, 0)
    BY <1>0, <1>4, ScanReset DEF Leave
  <2> QED
    BY <1>0, <1>4, <2>1 DEF Leave, Goto
<1>5. CASE IterateDone(t)
  <2>1. /\ Leave(t) /\ Streamed(t, stream[t].pos, stream[t].out, stream[t].first) /\ Fine(t)
        /\ pc[t] = "dots" /\ stream[t].pos >= capacity + 2 /\ stream[t].pos >= 2
    BY <1>0, <1>5, StreamSame DEF IterateDone, AtEnd
  <2> QED
    BY <1>4, <2>1 DEF Outer
<1>6. CASE EmitDotFull(t) \/ EmitChildFull(t)
  <2>1. /\ Leave(t) /\ Streamed(t, stream[t].pos, stream[t].out, stream[t].first) /\ Fine(t)
        /\ pc[t] \in {"dots", "scan"} /\ scan[t].got > 0
    BY <1>0, <1>6, StreamSame DEF EmitDotFull, EmitChildFull, Visit, Reading
  <2> QED
    BY <1>4, <1>s, <2>1 DEF Outer
<1>7. CASE ScanFails(t)
  <2>1. /\ Leave(t) /\ Streamed(t, stream[t].pos, stream[t].out, stream[t].first)
        /\ pc[t] = "dots" /\ ~stream'[t].ok /\ stream[t].pos >= 2
    BY <1>0, <1>7, StreamMarked DEF ScanFails
  <2> QED
    BY <1>4, <2>1 DEF Outer
<1>8. CASE ScanDone(t)
  <2>1. /\ Leave(t) /\ Streamed(t, stream[t].pos, stream[t].out, stream[t].first) /\ Fine(t)
        /\ pc[t] = "scan" /\ ~Reading(t) /\ stream[t].pos >= 2
    BY <1>0, <1>8, StreamSame DEF ScanDone, IInv, Positions
  <2>2. scan[t].i >= scan[t].children \/ scan[t].at > words - 2
    BY <1>s, <2>1 DEF Reading, Remaining
  <2> QED
    BY <1>4, <2>1, <2>2 DEF Outer
<1> QED
  BY <1>1, <1>2, <1>3, <1>5, <1>6, <1>7, <1>8

\* A word that spfs_sb_read_ino reads is one of the block's, and the stream is
\* not behind the children it could have seen.
LEMMA ReadingFacts ==
    ASSUME IInv, NEW t \in Tasks, Reading(t)
    PROVE  /\ pc[t] = "scan" /\ scan[t].at + 1 \in 0 .. words /\ scan[t].at <= words - 2
           /\ scan[t].i < Len(listed) /\ Len(listed) <= capacity /\ block # << >>
           /\ scan[t].i + 1 \in Nat /\ scan[t].pos + 1 \in Nat /\ scan[t].got + 1 \in Nat
           /\ scan[t].pos = stream[t].pos => stream[t].pos + 1 \in 0 .. (capacity + 2)
<1>0. TypeOK
  BY DEF IInv
<1>1. /\ pc[t] = "scan" /\ scan[t].i < scan[t].children /\ words - scan[t].at >= 2
  BY DEF Reading, Remaining
<1>2. /\ scan[t].at \in Nat /\ scan[t].i \in Nat /\ scan[t].children \in Nat /\ scan[t].pos \in Nat
      /\ scan[t].got \in Nat /\ stream[t].pos \in Nat /\ words \in Nat /\ capacity \in Nat
      /\ Len(listed) \in Nat
  BY <1>0, Fields, Sizes
<1>3. scan[t].children = Len(listed) /\ scan[t].pos <= scan[t].i + 2 /\ Len(listed) <= capacity
  BY <1>1 DEF IInv, Positions, Counts
<1>4. block # << >>
  <2>1. listed # << >>
    BY <1>1, <1>2, <1>3
  <2> QED
    BY <2>1 DEF IInv, Counts
<1>5. scan[t].at + 1 \in 0 .. words /\ scan[t].at <= words - 2
  BY <1>1, <1>2
<1>6. scan[t].pos = stream[t].pos => stream[t].pos + 1 \in 0 .. (capacity + 2)
  BY <1>1, <1>2, <1>3
<1>7. scan[t].i + 1 \in Nat /\ scan[t].pos + 1 \in Nat /\ scan[t].got + 1 \in Nat
  BY <1>2
<1> QED
  BY <1>1, <1>3, <1>4, <1>5, <1>6, <1>7

\* The steps of a scan.
LEMMA InnerStep ==
    ASSUME IInv, NEW t \in Tasks,
           \/ BeginScan(t) \/ SkipWord(t) \/ PassChild(t) \/ EmitChild(t) \/ PassNoMemory(t)
           \/ VisitGone(t)
    PROVE  Inner(t)
<1>0. TypeOK /\ pc \in [Tasks -> Labels] /\ cached \subseteq Child
  BY DEF IInv, TypeOK
<1>s. scan[t] \in ScanFields /\ stream[t] \in StreamFields /\ words \in Nat /\ words >= 5
  BY <1>0, Fields, Sizes
<1>1. CASE BeginScan(t)
  <2> DEFINE n == IF block = << >> THEN 0 ELSE ChildrenOf(block)
             r == [scan[t] EXCEPT !.at = HeaderWords, !.pos = 2, !.children = n]
  <2>1. scan' = [scan EXCEPT ![t] = r]
    BY <1>1, Zenon DEF BeginScan
  <2>2. n = Len(listed) /\ n \in Nat /\ 2 \in Nat /\ HeaderWords \in 0 .. words
    <3>1. n = Len(listed)
      BY DEF IInv, Counts
    <3> QED
      BY <1>0, <1>s, <3>1, Sizes DEF HeaderWords
  <2>3. /\ r \in ScanFields /\ r.at = HeaderWords /\ r.i = scan[t].i /\ r.children = n
        /\ r.pos = 2 /\ r.got = scan[t].got
    <3> HIDE DEF n
    <3> QED
      BY <1>s, <2>2, Zenon DEF ScanFields
  <2> HIDE DEF r, n
  <2>4. Scanned(t, HeaderWords, scan[t].i, Len(listed), 2, scan[t].got)
    BY <1>0, <2>1, <2>2, <2>3, ScanUpdate
  <2>5. Streamed(t, stream[t].pos, stream[t].out, stream[t].first) /\ Fine(t)
    BY <1>0, <1>1, StreamSame DEF BeginScan
  <2>6. pc[t] = "dots" /\ pc'[t] = "scan" /\ lock' = lock /\ stream[t].pos >= 2
    BY <1>0, <1>1 DEF BeginScan, Goto
  <2> QED
    BY <2>4, <2>5, <2>6 DEF Inner
<1>2. CASE SkipWord(t)
  <2> DEFINE r == [scan[t] EXCEPT !.at = @ + 1]
  <2>1. scan' = [scan EXCEPT ![t] = r]
    BY <1>2, Zenon DEF SkipWord
  <2>2. /\ Reading(t) /\ Word(t) = 0 /\ scan[t].at + 1 \in 0 .. words /\ pc'[t] = "scan"
        /\ lock' = lock /\ stream' = stream
    BY <1>2, ReadingFacts DEF SkipWord
  <2>3. /\ r \in ScanFields /\ r.at = scan[t].at + 1 /\ r.i = scan[t].i
        /\ r.children = scan[t].children /\ r.pos = scan[t].pos /\ r.got = scan[t].got
    BY <1>s, <2>2, Zenon DEF ScanFields
  <2> HIDE DEF r
  <2>4. Scanned(t, scan[t].at + 1, scan[t].i, scan[t].children, scan[t].pos, scan[t].got)
    BY <1>0, <2>1, <2>3, ScanUpdate
  <2> QED
    BY <1>0, <2>2, <2>4, StreamSame DEF Inner
<1>3. CASE PassChild(t)
  <2> DEFINE r == [scan[t] EXCEPT !.at = @ + 1, !.i = @ + 1, !.pos = @ + 1]
  <2>1. scan' = [scan EXCEPT ![t] = r]
    BY <1>3, Zenon DEF PassChild
  <2>2. Reading(t) /\ Word(t) \in Child /\ scan[t].pos # stream[t].pos
    BY <1>0, <1>3 DEF PassChild, Visit
  <2>3. /\ scan[t].at + 1 \in 0 .. words /\ scan[t].i + 1 \in Nat /\ scan[t].pos + 1 \in Nat
        /\ pc'[t] = "scan" /\ lock' = lock /\ stream' = stream
    BY <1>3, <2>2, ReadingFacts DEF PassChild
  <2>4. /\ r \in ScanFields /\ r.at = scan[t].at + 1 /\ r.i = scan[t].i + 1
        /\ r.children = scan[t].children /\ r.pos = scan[t].pos + 1 /\ r.got = scan[t].got
    BY <1>s, <2>3, Zenon DEF ScanFields
  <2> HIDE DEF r
  <2>5. Scanned(t, scan[t].at + 1, scan[t].i + 1, scan[t].children, scan[t].pos + 1, scan[t].got)
    BY <1>0, <2>1, <2>4, ScanUpdate
  <2> QED
    BY <1>0, <2>2, <2>3, <2>5, StreamSame DEF Inner
<1>4. CASE EmitChild(t)
  <2> DEFINE r == [scan[t] EXCEPT !.at = @ + 1, !.i = @ + 1, !.pos = @ + 1, !.got = @ + 1]
             q == [stream[t] EXCEPT !.pos = @ + 1, !.out = Append(@, Word(t))]
  <2>1. scan' = [scan EXCEPT ![t] = r] /\ stream' = [stream EXCEPT ![t] = q]
    BY <1>4, Zenon DEF EmitChild
  <2>2. Reading(t) /\ Word(t) \in Child /\ scan[t].pos = stream[t].pos
    BY <1>0, <1>4 DEF EmitChild, Visit
  <2>3. /\ scan[t].at + 1 \in 0 .. words /\ scan[t].i + 1 \in Nat /\ scan[t].pos + 1 \in Nat
        /\ scan[t].got + 1 \in Nat /\ stream[t].pos + 1 \in 0 .. (capacity + 2)
        /\ pc'[t] = "scan" /\ lock' = lock
    BY <1>4, <2>2, ReadingFacts DEF EmitChild
  <2>4. Append(stream[t].out, Word(t)) \in Seq(Entries)
    BY <1>0, <2>2, Fields DEF Entries
  <2>5. /\ r \in ScanFields /\ r.at = scan[t].at + 1 /\ r.i = scan[t].i + 1
        /\ r.children = scan[t].children /\ r.pos = scan[t].pos + 1 /\ r.got = scan[t].got + 1
    BY <1>s, <2>3, Zenon DEF ScanFields
  <2>6. /\ q \in StreamFields /\ q.pos = stream[t].pos + 1 /\ q.out = Append(stream[t].out, Word(t))
        /\ q.first = stream[t].first /\ q.ok = stream[t].ok
    BY <1>s, <2>3, <2>4, Zenon DEF StreamFields
  <2> HIDE DEF r, q
  <2>7. Scanned(t, scan[t].at + 1, scan[t].i + 1, scan[t].children, scan[t].pos + 1,
                scan[t].got + 1)
    BY <1>0, <2>1, <2>5, ScanUpdate
  <2>8. /\ Streamed(t, stream[t].pos + 1, Append(stream[t].out, Word(t)), stream[t].first)
        /\ Fine(t)
    BY <1>0, <2>1, <2>6, StreamUpdate DEF Fine
  <2> QED
    BY <2>2, <2>3, <2>7, <2>8 DEF Inner
<1>5. CASE PassNoMemory(t)
  <2> DEFINE r == [scan[t] EXCEPT !.at = @ + 1, !.i = @ + 1]
  <2>1. scan' = [scan EXCEPT ![t] = r]
    BY <1>5, Zenon DEF PassNoMemory
  <2>2. /\ Reading(t) /\ scan[t].at + 1 \in 0 .. words /\ scan[t].i + 1 \in Nat /\ pc'[t] = "scan"
        /\ lock' = lock
    BY <1>5, ReadingFacts DEF PassNoMemory
  <2>3. /\ r \in ScanFields /\ r.at = scan[t].at + 1 /\ r.i = scan[t].i + 1
        /\ r.children = scan[t].children /\ r.pos = scan[t].pos /\ r.got = scan[t].got
    BY <1>s, <2>2, Zenon DEF ScanFields
  <2> HIDE DEF r
  <2>4. Scanned(t, scan[t].at + 1, scan[t].i + 1, scan[t].children, scan[t].pos, scan[t].got)
    BY <1>0, <2>1, <2>3, ScanUpdate
  <2>5. Streamed(t, stream[t].pos, stream[t].out, stream[t].first) /\ ~stream'[t].ok
    BY <1>0, <1>5, StreamMarked DEF PassNoMemory
  <2> QED
    BY <2>2, <2>4, <2>5 DEF Inner
<1>6. CASE VisitGone(t)
  <2>1. pc[t] = "scan" /\ pc'[t] = "dead" /\ lock' = lock /\ scan' = scan /\ stream' = stream
    BY <1>0, <1>6 DEF VisitGone, Goto, Reading
  <2> QED
    BY <1>0, <2>1, ScanSame, StreamSame DEF Inner
<1> QED
  BY <1>1, <1>2, <1>3, <1>4, <1>5, <1>6

\* A step of spfs_iterate in parts.
LEMMA IterateStep ==
    ASSUME IInv, NEW t \in Tasks, BeginIterate(t) \/ Step(t) \/ Fault(t)
    PROVE  Frame(t) /\ (Outer(t) \/ Inner(t))
BY FrameStep, OuterStep, InnerStep DEF Step, Fault

-----------------------------------------------------------------------------
(* The block *)

\* The block that a new directory block is made of.
LEMMA NewBlock ==
    ASSUME TypeOK, NEW b \in Contents
    PROVE  /\ MakeDirBlock(b, 0) \in [0 .. (words - 1) -> Nat]
           /\ ChildrenOf(MakeDirBlock(b, 0)) = 0
           /\ b[HeaderWords + 1] = 0 =>
                 \A k \in Nat : Entry(k) <= words - 3 => MakeDirBlock(b, 0)[Entry(k) + 1] = 0
<1>1. PICK u \in Stale, between \in {0, 1} :
         b = [w \in 0 .. (words - 1) |->
                IF between = 0 /\ w % 2 # HeaderWords % 2 THEN 0 ELSE u]
  BY DEF Contents
<1>2. Stale \subseteq Nat /\ words \in Nat /\ words >= 5
  BY Sizes, DirectoryAssumption DEF Stale, Junk
<1>v. PICK v \in Nat : v = IF between = 0 THEN 0 ELSE u
  BY <1>2
<1>3. b \in [0 .. (words - 1) -> Nat] /\ b[HeaderWords + 1] = v
  BY <1>1, <1>2, <1>v DEF HeaderWords
<1>4. ASSUME NEW k \in Nat, Entry(k) <= words - 3
      PROVE  Entry(k) + 1 \in 3 .. (words - 1) /\ b[Entry(k) + 1] = v
  <2>1. Entry(k) + 1 = 2 * (k + 2) /\ Entry(k) + 1 \in 3 .. (words - 1)
    BY <1>2, <1>4 DEF Entry, HeaderWords
  <2>2. (2 * (k + 2)) % 2 = 0
    OBVIOUS
  <2> QED
    BY <1>1, <1>2, <1>v, <2>1, <2>2 DEF HeaderWords
<1>5. /\ MakeDirBlock(b, 0) \in [0 .. (words - 1) -> Nat] /\ ChildrenOf(MakeDirBlock(b, 0)) = 0
      /\ \A w \in 3 .. (words - 1) : MakeDirBlock(b, 0)[w] = b[w]
  BY <1>3, Header
<1>6. ASSUME b[HeaderWords + 1] = 0, NEW k \in Nat, Entry(k) <= words - 3
      PROVE  MakeDirBlock(b, 0)[Entry(k) + 1] = 0
  BY <1>3, <1>4, <1>5, <1>6
<1> QED
  BY <1>5, <1>6

\* spfs_add_child keeps the type of the block and of what was added to it.
LEMMA AddTypes ==
    ASSUME IInv, NEW t \in Tasks, Add(t)
    PROVE  /\ block' \in {<< >>} \cup [0 .. (words - 1) -> Nat]
           /\ listed' \in Seq(Child) /\ clean' \in BOOLEAN
<1>0. TypeOK /\ AddEffect(t) /\ NewChild \in Child /\ NewChild \in Nat
  BY AddStep, CreateStep DEF IInv
<1>1. block \in {<< >>} \cup [0 .. (words - 1) -> Nat] /\ listed \in Seq(Child)
  BY <1>0 DEF TypeOK
<1>2. block' \in {<< >>} \cup [0 .. (words - 1) -> Nat]
  <2>1. CASE block' = WriteChild(block, NewChild) /\ block # << >>
    BY <1>0, <1>1, <2>1, Written
  <2>2. CASE \E b \in Contents : block' = WriteChild(MakeDirBlock(b, 0), NewChild)
    BY <1>0, <2>2, NewBlock, Written
  <2> QED
    BY <1>0, <1>1, <2>1, <2>2 DEF AddEffect
<1>3. listed' \in Seq(Child)
  <2>1. \/ listed' = listed \/ listed' = Append(listed, NewChild) \/ listed' = <<NewChild>>
        \/ listed' = << >>
    BY <1>0, Zenon DEF AddEffect
  <2>2. \A q \in Seq(Child), c \in Child : Append(q, c) \in Seq(Child) /\ <<c>> \in Seq(Child)
    OBVIOUS
  <2>3. << >> \in Seq(Child)
    OBVIOUS
  <2> QED
    BY <1>0, <1>1, <2>1, <2>2, <2>3, Zenon
<1>4. clean' \in BOOLEAN
  <2>1. clean \in BOOLEAN
    BY <1>0, Zenon DEF TypeOK
  <2>2. clean' = clean \/ \E b \in Contents : clean' = (b[HeaderWords + 1] = 0)
    BY <1>0, Zenon DEF AddEffect
  <2> QED
    BY <2>1, <2>2, Zenon
<1> QED
  BY <1>2, <1>3, <1>4

\* spfs_add_child counts what it lists, and stops at the limit of a block.
LEMMA AddCounts ==
    ASSUME IInv, NEW t \in Tasks, Add(t)
    PROVE  Counts'
<1>0. /\ TypeOK /\ Counts /\ AddEffect(t) /\ NewChild \in Child /\ NewChild \in Nat
      /\ words' = words /\ capacity' = capacity + 1 /\ created' = created + 1
  BY AddStep, CreateStep DEF IInv
<1>1. /\ words \in Nat /\ Full \in Nat /\ Full >= 1 /\ capacity \in Nat /\ created \in Nat
      /\ Len(listed) \in Nat /\ listed \in Seq(Child)
  BY <1>0, Sizes DEF TypeOK
<1>2. CASE block' = block /\ listed' = listed
  BY <1>0, <1>1, <1>2 DEF Counts
<1>3. CASE /\ block # << >> /\ ~IsFull(block)
           /\ block' = WriteChild(block, NewChild) /\ listed' = Append(listed, NewChild)
  <2>1. block \in [0 .. (words - 1) -> Nat] /\ ChildrenOf(block) = Len(listed)
    BY <1>0, <1>3 DEF Counts
  <2>2. Len(listed) # Full
    BY <1>3, <2>1 DEF IsFull
  <2>3. Len(listed') = Len(listed) + 1
    BY <1>0, <1>1, <1>3
  <2>4. block' \in [0 .. (words - 1) -> Nat] /\ ChildrenOf(block)' = Len(listed')
    BY <1>0, <1>3, <2>1, <2>3, Written DEF ChildrenOf
  <2>5. block' # << >>
    BY <1>0, <2>4, NotMissing
  <2> QED
    BY <1>0, <1>1, <2>2, <2>3, <2>4, <2>5 DEF Counts
<1>4. CASE /\ \E b \in Contents : block' = WriteChild(MakeDirBlock(b, 0), NewChild)
           /\ listed' = <<NewChild>>
  <2>1. Len(listed') = 1
    BY <1>4
  <2>2. block' \in [0 .. (words - 1) -> Nat] /\ ChildrenOf(block)' = Len(listed')
    BY <1>0, <1>4, <2>1, NewBlock, Written DEF ChildrenOf
  <2>3. block' # << >>
    BY <1>0, <2>2, NotMissing
  <2> QED
    BY <1>0, <1>1, <2>1, <2>2, <2>3 DEF Counts
<1>5. CASE block' = << >> /\ listed' = << >>
  BY <1>0, <1>1, <1>5 DEF Counts
<1> QED
  BY <1>0, <1>2, <1>3, <1>4, <1>5 DEF AddEffect

\* spfs_dir_write_child writes behind the children that are there.
LEMMA AddLayout ==
    ASSUME IInv, NEW t \in Tasks, Add(t)
    PROVE  Layout'
<1>0. /\ TypeOK /\ Counts /\ Layout /\ AddEffect(t) /\ NewChild \in Nat /\ words' = words
  BY AddStep, CreateStep DEF IInv
<1>1. words \in Nat /\ words >= 5 /\ Len(listed) \in Nat /\ listed \in Seq(Child)
  BY <1>0, Sizes DEF TypeOK
<1>w. \A k \in Nat : Entry(k)' = Entry(k) /\ Entry(k) = 3 + 2 * k
  BY DEF Entry, HeaderWords
<1>2. CASE UNCHANGED <<block, listed, clean>>
  BY <1>0, <1>2, <1>w DEF Layout
<1>3. CASE /\ block # << >> /\ clean' = clean
           /\ block' = WriteChild(block, NewChild) /\ listed' = Append(listed, NewChild)
  <2> SUFFICES ASSUME clean', NEW k \in Nat
               PROVE  /\ k < Len(listed') /\ Entry(k) <= words - 2 =>
                            block'[Entry(k)] = listed'[k + 1]
                      /\ Entry(k) <= words - 3 => block'[Entry(k) + 1] = 0
    BY <1>0, <1>w DEF Layout
  <2>0. block \in [0 .. (words - 1) -> Nat] /\ ChildrenOf(block) = Len(listed) /\ clean
    BY <1>0, <1>3 DEF Counts
  <2>1. \A w \in 3 .. (words - 1) :
           block'[w] = IF w = Entry(Len(listed)) /\ w <= words - 2 THEN NewChild ELSE block[w]
    BY <1>0, <1>3, <2>0, Written
  <2>2. /\ k < Len(listed) /\ Entry(k) <= words - 2 => block[Entry(k)] = listed[k + 1]
        /\ Entry(k) <= words - 3 => block[Entry(k) + 1] = 0
    BY <1>0, <1>3, <2>0 DEF Layout
  <2>3. /\ Len(listed') = Len(listed) + 1 /\ listed'[Len(listed) + 1] = NewChild
        /\ k < Len(listed) => listed'[k + 1] = listed[k + 1]
    BY <1>1, <1>3
  <2>4. Entry(k) = 3 + 2 * k /\ Entry(Len(listed)) = 3 + 2 * Len(listed)
    BY <1>1, <1>w
  <2>5. ASSUME k < Len(listed'), Entry(k) <= words - 2
        PROVE  block'[Entry(k)] = listed'[k + 1]
    <3>1. Entry(k) \in 3 .. (words - 1)
      BY <1>1, <2>4, <2>5
    <3>2. CASE k = Len(listed)
      BY <1>1, <2>1, <2>3, <2>5, <3>1, <3>2
    <3>3. CASE k # Len(listed)
      <4>1. Entry(k) # Entry(Len(listed))
        BY <1>1, <2>4, <3>3
      <4> QED
        BY <1>1, <2>1, <2>2, <2>3, <2>5, <3>1, <3>3, <4>1
    <3> QED
      BY <3>2, <3>3
  <2>6. ASSUME Entry(k) <= words - 3
        PROVE  block'[Entry(k) + 1] = 0
    <3>1. Entry(k) + 1 \in 3 .. (words - 1) /\ Entry(k) + 1 # Entry(Len(listed))
      BY <1>1, <2>4, <2>6
    <3> QED
      BY <2>1, <2>2, <2>6, <3>1
  <2> QED
    BY <2>5, <2>6
<1>4. CASE /\ \E b \in Contents : /\ block' = WriteChild(MakeDirBlock(b, 0), NewChild)
                                  /\ clean' = (b[HeaderWords + 1] = 0)
           /\ listed' = <<NewChild>>
  <2>0. PICK b \in Contents : /\ block' = WriteChild(MakeDirBlock(b, 0), NewChild)
                              /\ clean' = (b[HeaderWords + 1] = 0)
    BY <1>4
  <2> SUFFICES ASSUME clean', NEW k \in Nat
               PROVE  /\ k < Len(listed') /\ Entry(k) <= words - 2 =>
                            block'[Entry(k)] = listed'[k + 1]
                      /\ Entry(k) <= words - 3 => block'[Entry(k) + 1] = 0
    BY <1>0, <1>w DEF Layout
  <2> DEFINE m == MakeDirBlock(b, 0)
  <2>1. /\ m \in [0 .. (words - 1) -> Nat] /\ ChildrenOf(m) = 0
        /\ \A j \in Nat : Entry(j) <= words - 3 => m[Entry(j) + 1] = 0
    BY <1>0, <2>0, NewBlock
  <2> HIDE DEF m
  <2>2. \A w \in 3 .. (words - 1) :
           block'[w] = IF w = Entry(0) /\ w <= words - 2 THEN NewChild ELSE m[w]
    BY <1>0, <2>0, <2>1, Written DEF m
  <2>3. Len(listed') = 1 /\ listed'[1] = NewChild
    BY <1>4
  <2>4. Entry(k) = 3 + 2 * k /\ Entry(0) = 3
    BY <1>w
  <2>5. ASSUME k < Len(listed'), Entry(k) <= words - 2
        PROVE  block'[Entry(k)] = listed'[k + 1]
    BY <1>1, <2>2, <2>3, <2>4, <2>5
  <2>6. ASSUME Entry(k) <= words - 3
        PROVE  block'[Entry(k) + 1] = 0
    <3>1. Entry(k) + 1 \in 3 .. (words - 1) /\ Entry(k) + 1 # Entry(0)
      BY <1>1, <2>4, <2>6
    <3> QED
      BY <2>1, <2>2, <2>6, <3>1
  <2> QED
    BY <2>5, <2>6
<1>5. CASE block' = << >>
  BY <1>5 DEF Layout
<1> QED
  BY <1>0, <1>2, <1>3, <1>4, <1>5 DEF AddEffect

-----------------------------------------------------------------------------
(* Every step keeps the invariant *)

\* Every step is one of spfs_add_child, one of spfs_iterate or an eviction.
LEMMA NextSplit ==
    Next <=> \/ \E t \in Tasks : Add(t)
             \/ \E t \in Tasks : BeginIterate(t) \/ Step(t) \/ Fault(t)
             \/ \E c \in Child : Evict(c)
BY Zenon DEF Next

\* Everything but the inode cache stays.
Quiet == UNCHANGED <<dir_vars, lock, created, pc, scan, stream, ghost_vars>>

\* An eviction does not touch what a stream sees.
LEMMA QuietStep ==
    ASSUME (\E c \in Child : Evict(c)) \/ UNCHANGED vars
    PROVE  Quiet
BY Zenon DEF Evict, Quiet, vars, inode_vars

\* Every step keeps the types.
LEMMA NextType ==
    ASSUME IInv, [Next]_vars
    PROVE  TypeOK'
<1>0. TypeOK
  BY DEF IInv
<1>1. ASSUME NEW t \in Tasks, Add(t)
      PROVE  TypeOK'
  <2>1. Create(t) /\ StreamsKept
    BY <1>1, AddStep
  <2>2. /\ words' = words /\ scan' = scan /\ pinned' = pinned
        /\ capacity' = capacity + 1 /\ created' = created + 1 /\ created' \in 0 .. MaxChildren
        /\ cached' = cached \cup {NewChild} /\ NewChild \in Child
    BY <2>1, CreateStep
  <2>3. /\ block' \in {<< >>} \cup [0 .. (words' - 1) -> Nat]
        /\ listed' \in Seq(Child) /\ clean' \in BOOLEAN
    BY <1>1, <2>2, AddTypes
  <2>4. pc' \in [Tasks -> Labels] /\ lock' \in Tasks \cup {NoTask}
    BY <1>0, <1>1, AddStep DEF TypeOK, Labels
  <2>5. capacity' \in 0 .. (MaxChildren + 1)
    <3>1. capacity <= created + 1 /\ capacity \in Nat /\ created \in Nat /\ MaxChildren \in Nat
      BY <1>0, Sizes DEF IInv, Counts
    <3> QED
      BY <2>2, <3>1
  <2>6. ScanFields' = ScanFields
    BY <2>2 DEF ScanFields
  <2>7. scan' \in [Tasks -> ScanFields'] /\ stream' \in [Tasks -> StreamFields']
    BY <1>0, <2>1, <2>2, <2>6 DEF TypeOK, StreamsKept
  <2>8. words' \in BlockWords /\ cached' \subseteq Child /\ pinned' \subseteq cached'
    BY <1>0, <2>2 DEF TypeOK
  <2> QED
    BY <2>2, <2>3, <2>4, <2>5, <2>7, <2>8 DEF TypeOK
<1>2. ASSUME NEW t \in Tasks, BeginIterate(t) \/ Step(t) \/ Fault(t)
      PROVE  TypeOK'
  <2>1. Frame(t) /\ (Outer(t) \/ Inner(t))
    BY <1>2, IterateStep
  <2>2. scan' \in [Tasks -> ScanFields] /\ stream' \in [Tasks -> StreamFields]
        /\ lock' \in Tasks \cup {NoTask}
    BY <1>0, <2>1 DEF Outer, Inner, Scanned, Streamed, TypeOK
  <2>3. UNCHANGED <<words, block, capacity, created, cached, listed, clean>>
    BY <2>1 DEF Frame, dir_vars, ghost_vars
  <2>4. ScanFields' = ScanFields /\ StreamFields' = StreamFields
    BY <2>3 DEF ScanFields, StreamFields
  <2>5. clean' \in BOOLEAN
    BY <1>0, <2>3, Zenon DEF TypeOK
  <2> QED
    BY <1>0, <2>1, <2>2, <2>3, <2>4, <2>5 DEF Frame, TypeOK
<1>3. CASE (\E c \in Child : Evict(c)) \/ UNCHANGED vars
  <2>1. UNCHANGED <<words, block, capacity, lock, created, pc, scan, stream, listed, clean>>
    BY <1>3, QuietStep DEF Quiet, dir_vars, ghost_vars
  <2>2. cached' \subseteq Child /\ pinned' \subseteq cached'
    BY <1>0, <1>3 DEF Evict, vars, inode_vars, TypeOK
  <2>3. ScanFields' = ScanFields /\ StreamFields' = StreamFields
    BY <2>1 DEF ScanFields, StreamFields
  <2>4. clean' \in BOOLEAN
    BY <1>0, <2>1, Zenon DEF TypeOK
  <2> QED
    BY <1>0, <2>1, <2>2, <2>3, <2>4 DEF TypeOK
<1> QED
  BY <1>1, <1>2, <1>3, NextSplit

\* The directory's lock has one holder.
LEMMA NextLocked ==
    ASSUME IInv, [Next]_vars
    PROVE  Locked'
<1>0. Locked /\ NoTask \notin Tasks
  BY Sizes DEF IInv
<1>1. ASSUME NEW t \in Tasks, Add(t)
      PROVE  Locked'
  <2>1. lock = NoTask /\ \A u \in Tasks : pc'[u] = pc[u] \/ pc'[u] = "bug"
    BY <1>1, AddStep, CreateStep DEF IInv, TypeOK
  <2> QED
    BY <1>0, <2>1 DEF Locked
<1>2. ASSUME NEW t \in Tasks, BeginIterate(t) \/ Step(t) \/ Fault(t)
      PROVE  Locked'
  <2>1. Frame(t) /\ (Outer(t) \/ Inner(t))
    BY <1>2, IterateStep
  <2>2. \A u \in Tasks \ {t} : pc'[u] = pc[u]
    BY <2>1 DEF Frame
  <2>3. \/ lock = NoTask /\ lock' = t
        \/ lock = t /\ lock' = NoTask /\ pc'[t] \notin {"dots", "scan"}
        \/ lock' = lock /\ (pc'[t] \in {"dots", "scan"} => lock = t)
    BY <1>0, <2>1 DEF Outer, Inner, Reading, Locked
  <2> QED
    BY <1>0, <2>2, <2>3 DEF Locked
<1>3. CASE Quiet
  BY <1>0, <1>3 DEF Quiet, Locked
<1> QED
  BY <1>1, <1>2, <1>3, NextSplit, QuietStep

\* The block counts its children, no child is written behind the end of a large
\* block, and the words stay where the reader finds them.
LEMMA NextBlock ==
    ASSUME IInv, [Next]_vars
    PROVE  Counts' /\ NoBug' /\ Layout'
<1>0. TypeOK /\ Counts /\ NoBug /\ Layout
  BY DEF IInv
<1>1. ASSUME NEW t \in Tasks, Add(t)
      PROVE  Counts' /\ NoBug' /\ Layout'
  <2>1. NoBug'
    <3>0. words' = words
      BY <1>1, AddStep, CreateStep
    <3>1. CASE pc' = pc
      BY <1>0, <3>0, <3>1 DEF NoBug
    <3>2. CASE AddBug(t)
      <4>1. block # << >> /\ Entry(ChildrenOf(block)) > words
        BY <3>2 DEF AddBug
      <4>2. ChildrenOf(block) = Len(listed) /\ Len(listed) <= Full
        BY <1>0, <4>1 DEF Counts
      <4>3. HeaderWords + 2 * Len(listed) > words
        BY <4>1, <4>2 DEF Entry
      <4>4. Len(listed) \in Nat /\ Full \in Nat /\ words \in Nat
        BY <1>0, Sizes
      <4>5. ~(words >= HeaderWords + 2 * Full)
        BY <4>2, <4>3, <4>4 DEF HeaderWords
      <4> QED
        BY <3>0, <4>5 DEF NoBug
    <3> QED
      BY <1>1, <3>1, <3>2, AddStep
  <2> QED
    BY <1>1, <2>1, AddCounts, AddLayout
<1>2. ASSUME NEW t \in Tasks, BeginIterate(t) \/ Step(t) \/ Fault(t)
      PROVE  Counts' /\ NoBug' /\ Layout'
  <2>1. Frame(t) /\ (Outer(t) \/ Inner(t))
    BY <1>2, IterateStep
  <2>2. UNCHANGED <<words, block, capacity, created, listed, clean>>
        /\ \A u \in Tasks \ {t} : pc'[u] = pc[u]
    BY <2>1 DEF Frame, dir_vars, ghost_vars
  <2>3. pc'[t] # "bug"
    BY <2>1 DEF Outer, Inner
  <2>4. Counts' /\ Layout'
    BY <1>0, <2>2 DEF Counts, ChildrenOf, Layout, Entry, HeaderWords
  <2>5. NoBug'
    BY <1>0, <2>2, <2>3 DEF NoBug
  <2> QED
    BY <2>4, <2>5
<1>3. CASE Quiet
  <2>1. UNCHANGED <<words, block, capacity, created, listed, clean, pc>>
    BY <1>3 DEF Quiet, dir_vars, ghost_vars
  <2> QED
    BY <1>0, <2>1 DEF Counts, ChildrenOf, NoBug, Layout, Entry, HeaderWords
<1> QED
  BY <1>1, <1>2, <1>3, NextSplit, QuietStep

-----------------------------------------------------------------------------
(* Streams *)

\* Nobody is inside spfs_iterate while a child is added.
LEMMA NobodyScans ==
    ASSUME IInv, NEW t \in Tasks, Add(t), NEW u \in Tasks
    PROVE  pc[u] \notin {"dots", "scan"} /\ (pc'[u] = pc[u] \/ pc'[u] = "bug")
<1>1. lock = NoTask /\ NoTask \notin Tasks
  BY AddStep, CreateStep, Sizes DEF IInv
<1>2. pc[u] \notin {"dots", "scan"}
  BY <1>1 DEF IInv, Locked
<1>3. pc'[u] = pc[u] \/ pc'[u] = "bug"
  BY AddStep DEF IInv, TypeOK
<1> QED
  BY <1>2, <1>3

\* A stream is as far as it has given children, and a scan is not ahead of it.
LEMMA NextPositions ==
    ASSUME IInv, [Next]_vars
    PROVE  Positions'
<1>0. TypeOK /\ Positions
  BY DEF IInv
<1>1. ASSUME NEW t \in Tasks, Add(t)
      PROVE  Positions'
  <2>1. ASSUME NEW u \in Tasks
        PROVE  /\ stream'[u].pos = stream[u].pos /\ stream'[u].out = stream[u].out
               /\ pc'[u] \notin {"dots", "scan"}
    BY <1>1, <2>1, AddStep, NobodyScans DEF StreamsKept
  <2> QED
    BY <1>0, <2>1 DEF Positions
<1>2. ASSUME NEW t \in Tasks, BeginIterate(t) \/ Step(t) \/ Fault(t)
      PROVE  Positions'
  <2>1. Frame(t) /\ (Outer(t) \/ Inner(t))
    BY <1>2, IterateStep
  <2>2. listed' = listed /\ \A u \in Tasks \ {t} : pc'[u] = pc[u] /\ scan'[u] = scan[u]
                                                   /\ stream'[u] = stream[u]
    BY <2>1 DEF Frame, ghost_vars, Outer, Inner, Scanned, Streamed
  <2> DEFINE At(u) ==
        /\ Len(stream[u].out) = IF stream[u].pos < 2 THEN 0 ELSE stream[u].pos - 2
        /\ pc[u] = "dots" => scan[u].i = 0
        /\ pc[u] = "scan" =>
              /\ stream[u].pos >= 2 /\ scan[u].pos <= stream[u].pos
              /\ scan[u].i <= scan[u].children /\ scan[u].children = Len(listed)
              /\ scan[u].pos <= scan[u].i + 2
  <2>3. ASSUME NEW u \in Tasks \ {t}
        PROVE  At(u)'
    <3>1. At(u)
      BY <1>0 DEF Positions
    <3> QED
      BY <2>2, <3>1
  <2>4. At(t) /\ (Reading(t) => pc[t] = "scan" /\ scan[t].i < scan[t].children)
    BY <1>0 DEF Positions, Reading
  <2>5. /\ scan[t].i \in Nat /\ scan[t].children \in Nat /\ scan[t].pos \in Nat
        /\ stream[t].pos \in Nat /\ stream[t].out \in Seq(Entries) /\ Len(listed) \in Nat
    BY <1>0, Fields, Sizes
  <2>6. At(t)'
    <3>1. CASE Outer(t)
      <4>1. pc'[t] # "scan" /\ (pc'[t] = "dots" => scan'[t].i = 0)
        BY <2>4, <3>1 DEF Outer, Scanned
      <4>2. \/ stream'[t].pos = stream[t].pos /\ stream'[t].out = stream[t].out
            \/ stream[t].pos < 2 /\ stream'[t].pos = stream[t].pos + 1 /\ stream'[t].out = stream[t].out
            \/ stream'[t].pos = 0 /\ stream'[t].out = << >>
        BY <3>1 DEF Outer, Streamed
      <4>3. Len(stream'[t].out) = IF stream'[t].pos < 2 THEN 0 ELSE stream'[t].pos - 2
        BY <2>4, <2>5, <4>2
      <4> QED
        BY <4>1, <4>3
    <3>2. CASE Inner(t)
      <4>1. pc'[t] # "dots"
        BY <3>2 DEF Inner
      <4>2. CASE /\ pc[t] = "dots" /\ stream[t].pos >= 2
                 /\ Scanned(t, HeaderWords, scan[t].i, Len(listed), 2, scan[t].got)
                 /\ Streamed(t, stream[t].pos, stream[t].out, stream[t].first)
        BY <2>2, <2>4, <2>5, <4>1, <4>2 DEF Scanned, Streamed
      <4>3. CASE /\ Reading(t)
                 /\ scan'[t].children = scan[t].children
                 /\ \/ scan'[t].i = scan[t].i /\ scan'[t].pos = scan[t].pos
                    \/ /\ scan'[t].i = scan[t].i + 1
                       /\ scan'[t].pos = scan[t].pos \/ scan'[t].pos = scan[t].pos + 1
                 /\ \/ /\ stream'[t].pos = stream[t].pos /\ stream'[t].out = stream[t].out
                       /\ scan'[t].pos # scan[t].pos => scan[t].pos # stream[t].pos
                    \/ /\ stream'[t].pos = stream[t].pos + 1
                       /\ stream'[t].out = Append(stream[t].out, Word(t)) /\ Word(t) \in Child
        <5>1. /\ stream[t].pos >= 2 /\ scan[t].pos <= stream[t].pos
              /\ scan[t].children = Len(listed) /\ scan[t].pos <= scan[t].i + 2
              /\ scan[t].i < scan[t].children
              /\ Len(stream[t].out) = stream[t].pos - 2
          BY <2>4, <2>5, <4>3
        <5>a. /\ scan'[t].i <= scan'[t].children /\ scan'[t].children = Len(listed')
              /\ scan'[t].pos <= scan'[t].i + 2
          <6>1. scan'[t].children = Len(listed')
            BY <2>2, <4>3, <5>1
          <6>2. CASE scan'[t].i = scan[t].i /\ scan'[t].pos = scan[t].pos
            BY <2>5, <4>3, <5>1, <6>1, <6>2
          <6>3. CASE /\ scan'[t].i = scan[t].i + 1
                     /\ scan'[t].pos = scan[t].pos \/ scan'[t].pos = scan[t].pos + 1
            BY <2>5, <4>3, <5>1, <6>1, <6>3
          <6> QED
            BY <4>3, <6>2, <6>3
        <5>2. CASE /\ stream'[t].pos = stream[t].pos /\ stream'[t].out = stream[t].out
                   /\ scan'[t].pos # scan[t].pos => scan[t].pos # stream[t].pos
          <6>1. scan'[t].pos <= stream'[t].pos /\ stream'[t].pos >= 2
            BY <2>5, <4>3, <5>1, <5>2
          <6>2. Len(stream'[t].out) = IF stream'[t].pos < 2 THEN 0 ELSE stream'[t].pos - 2
            BY <2>5, <5>1, <5>2
          <6> QED
            BY <4>1, <5>a, <6>1, <6>2
        <5>3. CASE /\ stream'[t].pos = stream[t].pos + 1
                   /\ stream'[t].out = Append(stream[t].out, Word(t)) /\ Word(t) \in Child
          <6>1. Len(stream'[t].out) = Len(stream[t].out) + 1
            BY <2>5, <5>3 DEF Entries
          <6>2. scan'[t].pos <= stream'[t].pos /\ stream'[t].pos >= 2
            <7>1. scan'[t].pos = scan[t].pos \/ scan'[t].pos = scan[t].pos + 1
              BY <4>3, Zenon
            <7>2. stream'[t].pos = stream[t].pos + 1
              BY <5>3
            <7> QED
              BY <2>5, <5>1, <7>1, <7>2
          <6>3. Len(stream'[t].out) = IF stream'[t].pos < 2 THEN 0 ELSE stream'[t].pos - 2
            BY <2>5, <5>1, <5>3, <6>1
          <6> QED
            BY <4>1, <5>a, <6>2, <6>3
        <5> QED
          BY <4>3, <5>2, <5>3
      <4>4. CASE /\ pc'[t] = "dead" /\ stream'[t].pos = stream[t].pos
                 /\ stream'[t].out = stream[t].out
        BY <2>4, <4>4
      <4> QED
        BY <2>5, <3>2, <4>2, <4>3, <4>4 DEF Inner, Scanned, Streamed
    <3> QED
      BY <2>1, <3>1, <3>2
  <2> QED
    BY <2>3, <2>6 DEF Positions
<1>3. CASE Quiet
  <2>1. UNCHANGED <<pc, scan, stream, listed>>
    BY <1>3 DEF Quiet, ghost_vars
  <2> QED
    BY <1>0, <2>1 DEF Positions
<1> QED
  BY <1>1, <1>2, <1>3, NextSplit, QuietStep

\* A stream begins with its first dot.
LEMMA NextBegun ==
    ASSUME IInv, [Next]_vars
    PROVE  Begun'
<1>0. TypeOK /\ Positions /\ Begun
  BY DEF IInv
<1> DEFINE At(u) ==
      /\ stream[u].pos = 0 /\ pc[u] # "dots" => stream[u].first = 0
      /\ pc[u] = "dots" /\ stream[u].pos = 0 => scan[u].got = 0
      /\ pc[u] = "end" => stream[u].pos >= 2
<1>1. ASSUME NEW t \in Tasks, Add(t)
      PROVE  Begun'
  <2>1. ASSUME NEW u \in Tasks
        PROVE  At(u)'
    <3>1. At(u) /\ pc[u] # "dots"
      BY <1>0, <1>1, NobodyScans DEF Begun
    <3>2. /\ stream'[u].pos = stream[u].pos /\ stream'[u].first = stream[u].first
          /\ pc'[u] = pc[u] \/ pc'[u] = "bug"
      BY <1>1, AddStep, NobodyScans DEF StreamsKept
    <3> QED
      BY <3>1, <3>2
  <2> QED
    BY <2>1 DEF Begun
<1>2. ASSUME NEW t \in Tasks, BeginIterate(t) \/ Step(t) \/ Fault(t)
      PROVE  Begun'
  <2>1. Frame(t) /\ (Outer(t) \/ Inner(t))
    BY <1>2, IterateStep
  <2>2. ASSUME NEW u \in Tasks \ {t}
        PROVE  At(u)'
    <3>1. pc'[u] = pc[u] /\ scan'[u] = scan[u] /\ stream'[u] = stream[u]
      BY <2>1 DEF Frame, Outer, Inner, Scanned, Streamed
    <3> QED
      BY <1>0, <3>1 DEF Begun
  <2>3. At(t) /\ stream[t].pos \in Nat /\ scan[t].got \in Nat
        /\ (pc[t] = "scan" => stream[t].pos >= 2)
    BY <1>0, Fields DEF Begun, Positions
  <2>4. At(t)'
    <3>1. CASE Outer(t)
      BY <2>3, <3>1 DEF Outer, Scanned, Streamed
    <3>2. CASE Inner(t)
      <4>1. stream'[t].pos >= 2 /\ pc'[t] \in {"scan", "dead"}
        BY <2>3, <3>2 DEF Inner, Scanned, Streamed, Reading
      <4> QED
        BY <4>1
    <3> QED
      BY <2>1, <3>1, <3>2
  <2> QED
    BY <2>2, <2>4 DEF Begun
<1>3. CASE UNCHANGED <<pc, scan, stream>>
  BY <1>0, <1>3 DEF Begun
<1>4. ASSUME (\E c \in Child : Evict(c)) \/ UNCHANGED vars
      PROVE  UNCHANGED <<pc, scan, stream>>
  BY <1>4, Zenon DEF Evict, vars
<1> QED
  BY <1>1, <1>2, <1>3, <1>4, NextSplit

\* The word that a scan reads: the next child, or the zero between two.
LEMMA NextWord ==
    ASSUME IInv, NEW t \in Tasks, Reading(t), Exact(t)
    PROVE  /\ Word(t) = 0 => scan[t].at + 1 = Entry(scan[t].i)
           /\ Word(t) # 0 =>
                 /\ scan[t].at = Entry(scan[t].i) /\ Word(t) = listed[scan[t].i + 1]
                 /\ scan[t].i < Fitting /\ scan[t].i < Len(listed)
<1>0. TypeOK
  BY DEF IInv
<1>1. /\ pc[t] = "scan" /\ scan[t].at <= words - 2 /\ scan[t].i < Len(listed) /\ block # << >>
  BY ReadingFacts
<1>2. scan[t].at \in Nat /\ scan[t].i \in Nat /\ words \in Nat /\ Len(listed) \in Nat
  BY <1>0, Fields, Sizes
<1>3. clean
  <2>1. listed # << >>
    BY <1>1, <1>2
  <2> QED
    BY <2>1 DEF Exact
<1>4. \/ scan[t].at = Entry(scan[t].i)
      \/ scan[t].i >= 1 /\ scan[t].at = Entry(scan[t].i) - 1
  BY <1>1 DEF IInv, InOrder
<1>5. CASE scan[t].at = Entry(scan[t].i)
  <2>1. Word(t) = listed[scan[t].i + 1]
    BY <1>1, <1>2, <1>3, <1>5 DEF IInv, Layout, Word
  <2>2. listed[scan[t].i + 1] \in Child
    BY <1>0, <1>1, <1>2 DEF TypeOK
  <2>3. Word(t) # 0
    BY <1>0, <2>1, <2>2, Sizes DEF Child
  <2>4. scan[t].i < Fitting
    BY <1>0, <1>1, <1>2, <1>5, Fits
  <2> QED
    BY <1>1, <1>5, <2>1, <2>3, <2>4
<1>6. CASE scan[t].i >= 1 /\ scan[t].at = Entry(scan[t].i) - 1
  <2>1. PICK k \in Nat : k + 1 = scan[t].i
    BY <1>2, <1>6
  <2>2. Entry(k) + 1 = scan[t].at /\ Entry(k) <= words - 3 /\ scan[t].at + 1 = Entry(scan[t].i)
    BY <1>1, <1>2, <1>6, <2>1 DEF Entry, HeaderWords
  <2>3. Word(t) = 0
    BY <1>1, <1>3, <2>1, <2>2 DEF IInv, Layout, Word
  <2> QED
    BY <2>2, <2>3
<1> QED
  BY <1>4, <1>5, <1>6

\* What InOrder says of one task.
Given(t) ==
    /\ stream[t].ok => stream[t].first <= Len(listed) /\ stream[t].first <= Fitting
    /\ Exact(t) =>
          /\ Len(stream[t].out) <= Len(listed) /\ Len(stream[t].out) <= Fitting
          /\ \A k \in 1 .. Len(stream[t].out) : stream[t].out[k] = listed[k]
          /\ pc[t] = "scan" =>
                /\ scan[t].pos = scan[t].i + 2
                /\ \/ scan[t].at = Entry(scan[t].i)
                   \/ scan[t].i >= 1 /\ scan[t].at = Entry(scan[t].i) - 1
          /\ pc[t] = "end" => Len(stream[t].out) >= stream[t].first

\* A child that is added comes behind what any stream has given; a block that is
\* replaced marks the streams.
LEMMA AddGiven ==
    ASSUME IInv, NEW t \in Tasks, Add(t), NEW u \in Tasks
    PROVE  Given(u)'
<1>0. TypeOK /\ Given(u) /\ AddEffect(t) /\ NewChild \in Child /\ words' = words
  BY AddStep, CreateStep DEF IInv, InOrder, Given
<1>1. /\ Len(listed) \in Nat /\ listed \in Seq(Child) /\ stream[u].first \in Nat
      /\ stream[u].out \in Seq(Entries) /\ Fitting \in Nat
  BY <1>0, Sizes, Fields DEF TypeOK
<1>2. /\ pc'[u] # "scan"
      /\ pc'[u] = "end" => pc[u] = "end"
  BY NobodyScans
<1>3. Fitting' = Fitting
  BY <1>0 DEF Fitting, HeaderWords
<1>4. CASE UNCHANGED <<block, listed, clean, stream>>
  BY <1>0, <1>2, <1>3, <1>4 DEF Given, Exact
<1>5. CASE /\ UNCHANGED <<clean, stream>> /\ listed' = Append(listed, NewChild)
  <2>1. /\ Len(listed') = Len(listed) + 1 /\ listed' # << >>
        /\ \A k \in 1 .. Len(listed) : listed'[k] = listed[k]
    BY <1>0, <1>1, <1>5
  <2>2. Exact(u)' => Exact(u)
    BY <1>5, <2>1 DEF Exact
  <2>3. stream'[u].ok => stream'[u].first <= Len(listed') /\ stream'[u].first <= Fitting'
    BY <1>0, <1>1, <1>3, <1>5, <2>1 DEF Given
  <2>4. Exact(u)' => /\ Len(stream'[u].out) <= Len(listed') /\ Len(stream'[u].out) <= Fitting'
                     /\ \A k \in 1 .. Len(stream'[u].out) : stream'[u].out[k] = listed'[k]
                     /\ pc'[u] = "end" => Len(stream'[u].out) >= stream'[u].first
    BY <1>0, <1>1, <1>2, <1>3, <1>5, <2>1, <2>2 DEF Given
  <2> QED
    BY <1>2, <2>3, <2>4 DEF Given
<1>6. CASE listed' = <<NewChild>> /\ block = << >> /\ UNCHANGED stream
  <2>1. listed = << >> /\ Len(listed') = 1 /\ Len(listed) = 0
    BY <1>6 DEF IInv, Counts
  <2>2. Exact(u)' => Exact(u)
    BY <1>6, <2>1 DEF Exact
  <2>3. Exact(u) => Len(stream[u].out) = 0
    BY <1>0, <1>1, <2>1 DEF Given
  <2>4. stream'[u].ok => stream'[u].first <= Len(listed') /\ stream'[u].first <= Fitting'
    BY <1>0, <1>1, <1>3, <1>6, <2>1 DEF Given
  <2>5. Exact(u)' => /\ Len(stream'[u].out) <= Len(listed') /\ Len(stream'[u].out) <= Fitting'
                     /\ \A k \in 1 .. Len(stream'[u].out) : stream'[u].out[k] = listed'[k]
                     /\ pc'[u] = "end" => Len(stream'[u].out) >= stream'[u].first
    BY <1>0, <1>1, <1>2, <1>3, <1>6, <2>1, <2>2, <2>3 DEF Given
  <2> QED
    BY <1>2, <2>4, <2>5 DEF Given
<1>7. CASE Marked
  <2>1. CASE ~stream'[u].ok
    BY <2>1 DEF Given, Exact
  <2>2. CASE stream[u].pos = 0 /\ stream'[u] = stream[u]
    <3>1. Len(stream[u].out) = 0 /\ stream[u].first = 0 /\ pc[u] # "end"
      BY <2>2, NobodyScans DEF IInv, Positions, Begun
    <3>2. Len(listed') \in Nat
      <4>1. listed' = listed \/ listed' = Append(listed, NewChild) \/ listed' = <<NewChild>>
               \/ listed' = << >>
        BY <1>0, Zenon DEF AddEffect
      <4> QED
        BY <1>0, <1>1, <4>1
    <3> QED
      BY <1>1, <1>2, <1>3, <2>2, <3>1, <3>2 DEF Given
  <2> QED
    BY <1>7, <2>1, <2>2 DEF Marked
<1> QED
  BY <1>0, <1>4, <1>5, <1>6, <1>7 DEF AddEffect

\* A call of spfs_iterate gives the next children, and comes to its end only
\* when it has given all.
LEMMA IterateGiven ==
    ASSUME IInv, NEW t \in Tasks, BeginIterate(t) \/ Step(t) \/ Fault(t), NEW u \in Tasks
    PROVE  Given(u)'
<1>0. TypeOK /\ Given(u) /\ Given(t) /\ Frame(t) /\ (Outer(t) \/ Inner(t))
  BY IterateStep DEF IInv, InOrder, Given
<1>1. UNCHANGED <<words, block, capacity, listed, clean>>
  BY <1>0 DEF Frame, dir_vars, ghost_vars
<1>2. Fitting' = Fitting /\ Visible' = Visible /\ \A k \in Nat : Entry(k)' = Entry(k)
  BY <1>1 DEF Fitting, HeaderWords, Visible, Entry
<1>3. /\ Len(listed) \in Nat /\ Fitting \in Nat /\ words \in Nat /\ capacity \in Nat
      /\ stream[t].first \in Nat /\ stream[t].out \in Seq(Entries) /\ stream[t].pos \in Nat
      /\ scan[t].i \in Nat /\ scan[t].at \in Nat /\ scan[t].pos \in Nat
  BY <1>0, Sizes, Fields
<1>4. CASE u # t
  <2>1. pc'[u] = pc[u] /\ scan'[u] = scan[u] /\ stream'[u] = stream[u]
    BY <1>0, <1>4 DEF Frame, Outer, Inner, Scanned, Streamed
  <2>2. scan[u].i \in Nat
    BY <1>0, Fields
  <2>3. Exact(u)' => Exact(u)
    BY <1>1, <2>1 DEF Exact
  <2> QED
    BY <1>0, <1>1, <1>2, <2>1, <2>2, <2>3 DEF Given
<1>5. ASSUME Streamed(t, stream[t].pos, stream[t].out, stream[t].first), Fine(t) \/ ~stream'[t].ok,
             pc'[t] # "scan", pc'[t] = "end" /\ Exact(t)' => Len(stream[t].out) >= stream[t].first
      PROVE  Given(t)'
  <2>1. Exact(t)' => Exact(t)
    BY <1>1, <1>5 DEF Exact, Fine
  <2>2. stream'[t].ok => stream[t].ok
    BY <1>5 DEF Fine
  <2>3. stream'[t].out = stream[t].out /\ stream'[t].first = stream[t].first
    BY <1>5 DEF Streamed
  <2> QED
    BY <1>0, <1>1, <1>2, <1>5, <2>1, <2>2, <2>3 DEF Given
<1>6. ASSUME Outer(t) PROVE Given(t)'
  <2>1. CASE /\ pc'[t] = "dots" /\ Fine(t)
             /\ Streamed(t, stream[t].pos, stream[t].out,
                         IF stream[t].pos = 0 THEN Visible ELSE stream[t].first)
    <3>1. Exact(t)' => Exact(t)
      BY <1>1, <2>1 DEF Exact, Fine
    <3>2. Visible <= Len(listed) /\ Visible <= Fitting
      BY <1>3 DEF Visible
    <3>3. stream'[t].ok => stream'[t].first <= Len(listed') /\ stream'[t].first <= Fitting'
      BY <1>0, <1>1, <1>2, <2>1, <3>2 DEF Given, Fine, Streamed
    <3>4. stream'[t].out = stream[t].out
      BY <2>1 DEF Streamed
    <3> QED
      BY <1>0, <1>1, <1>2, <2>1, <3>1, <3>3, <3>4 DEF Given
  <2>2. CASE /\ pc'[t] = "dots" /\ Fine(t)
             /\ Streamed(t, stream[t].pos + 1, stream[t].out, stream[t].first)
    <3>1. Exact(t)' => Exact(t)
      BY <1>1, <2>2 DEF Exact, Fine
    <3>2. stream'[t].out = stream[t].out /\ stream'[t].first = stream[t].first
          /\ stream'[t].ok = stream[t].ok
      BY <2>2 DEF Streamed, Fine
    <3> QED
      BY <1>0, <1>1, <1>2, <2>2, <3>1, <3>2 DEF Given
  <2>3. CASE /\ pc[t] \in {"dots", "scan"} /\ pc'[t] \in {"idle", "end"}
             /\ Streamed(t, stream[t].pos, stream[t].out, stream[t].first)
             /\ Fine(t) \/ ~stream'[t].ok
             /\ pc'[t] = "end" =>
                   \/ ~stream'[t].ok
                   \/ pc[t] = "dots" /\ stream[t].pos >= capacity + 2
                   \/ /\ pc[t] = "scan"
                      /\ scan[t].i >= scan[t].children \/ scan[t].at > words - 2
    <3>1. ASSUME pc'[t] = "end", Exact(t)'
          PROVE  Len(stream[t].out) >= stream[t].first
      <4>1. Exact(t) /\ stream'[t].ok /\ stream[t].ok
        BY <1>1, <2>3, <3>1 DEF Exact, Fine
      <4>2. stream[t].first <= Len(listed) /\ stream[t].first <= Fitting
        BY <1>0, <4>1 DEF Given
      <4>3. CASE pc[t] = "dots" /\ stream[t].pos >= capacity + 2
        <5>1. Len(stream[t].out) = stream[t].pos - 2 /\ Len(listed) <= capacity
          BY <1>3, <4>3 DEF IInv, Positions, Counts
        <5> QED
          BY <1>3, <4>2, <4>3, <5>1
      <4>4. CASE pc[t] = "scan"
        <5>1. /\ Len(stream[t].out) = stream[t].pos - 2 /\ scan[t].pos <= stream[t].pos
              /\ scan[t].children = Len(listed)
          BY <1>3, <4>4 DEF IInv, Positions
        <5>2. scan[t].pos = scan[t].i + 2
          BY <1>0, <4>1, <4>4 DEF Given
        <5>3. Len(stream[t].out) >= scan[t].i
          BY <1>3, <5>1, <5>2
        <5>4. CASE scan[t].i >= scan[t].children
          BY <1>3, <4>2, <5>1, <5>3, <5>4
        <5>5. CASE scan[t].at > words - 2
          <6>1. scan[t].at = Entry(scan[t].i) \/ scan[t].at = Entry(scan[t].i) - 1
            BY <1>0, <4>1, <4>4 DEF Given
          <6>2. /\ Entry(scan[t].i) \in Nat
                /\ scan[t].i < Fitting <=> Entry(scan[t].i) <= words - 2
            BY <1>0, <1>3, Fits
          <6>3. scan[t].i >= Fitting
            BY <1>3, <5>5, <6>1, <6>2
          <6> QED
            BY <1>3, <4>2, <5>3, <6>3
        <5> QED
          BY <2>3, <3>1, <4>1, <4>4, <5>4, <5>5
      <4> QED
        BY <2>3, <3>1, <4>1, <4>3, <4>4
    <3> QED
      BY <1>5, <2>3, <3>1
  <2>4. CASE pc'[t] = "idle" /\ Streamed(t, 0, << >>, 0)
    <3>1. stream'[t].out = << >> /\ stream'[t].first = 0
      BY <2>4 DEF Streamed
    <3> QED
      BY <1>1, <1>2, <1>3, <2>4, <3>1 DEF Given
  <2> QED
    BY <1>6, <2>1, <2>2, <2>3, <2>4 DEF Outer
<1>7. ASSUME Inner(t) PROVE Given(t)'
  <2>1. CASE /\ pc[t] = "dots" /\ pc'[t] = "scan" /\ Fine(t)
             /\ Scanned(t, HeaderWords, scan[t].i, Len(listed), 2, scan[t].got)
             /\ Streamed(t, stream[t].pos, stream[t].out, stream[t].first)
    <3>1. Exact(t)' => Exact(t)
      BY <1>1, <2>1 DEF Exact, Fine
    <3>2. /\ stream'[t].out = stream[t].out /\ stream'[t].first = stream[t].first
          /\ stream'[t].ok = stream[t].ok
      BY <2>1 DEF Streamed, Fine
    <3>3. scan[t].i = 0
      BY <2>1 DEF IInv, Positions
    <3>4. scan'[t].pos = scan'[t].i + 2 /\ scan'[t].at = Entry(scan'[t].i)
      BY <2>1, <3>3 DEF Scanned, Entry, HeaderWords
    <3>5. scan'[t].at = Entry(scan[t].i)'
      BY <3>4 DEF Entry, HeaderWords
    <3> QED
      BY <1>0, <1>1, <1>2, <2>1, <3>1, <3>2, <3>4, <3>5 DEF Given
  <2>2. CASE /\ Reading(t) /\ pc'[t] = "scan"
             /\ Scanned(t, scan[t].at + 1, scan'[t].i, scan[t].children, scan'[t].pos, scan'[t].got)
             /\ \/ /\ Word(t) = 0 /\ scan'[t].i = scan[t].i /\ scan'[t].pos = scan[t].pos
                   /\ Streamed(t, stream[t].pos, stream[t].out, stream[t].first)
                \/ /\ Word(t) \in Child /\ scan'[t].i = scan[t].i + 1
                   /\ scan'[t].pos = scan[t].pos + 1
                   /\ \/ Streamed(t, stream[t].pos, stream[t].out, stream[t].first)
                      \/ /\ scan[t].pos = stream[t].pos
                         /\ Streamed(t, stream[t].pos + 1, Append(stream[t].out, Word(t)),
                                     stream[t].first)
             /\ Fine(t)
    <3>0. pc[t] = "scan" /\ scan'[t].at = scan[t].at + 1
      BY <2>2 DEF Reading, Scanned
    <3>1. Exact(t)' => Exact(t)
      BY <1>1, <2>2 DEF Exact, Fine
    <3>2. stream'[t].first = stream[t].first /\ stream'[t].ok = stream[t].ok
      BY <2>2 DEF Streamed, Fine
    <3>3. ASSUME Exact(t)
          PROVE  /\ Len(stream'[t].out) <= Len(listed) /\ Len(stream'[t].out) <= Fitting
                 /\ \A k \in 1 .. Len(stream'[t].out) : stream'[t].out[k] = listed[k]
                 /\ scan'[t].pos = scan'[t].i + 2
                 /\ \/ scan'[t].at = Entry(scan'[t].i)
                    \/ scan'[t].i >= 1 /\ scan'[t].at = Entry(scan'[t].i) - 1
      <4>1. /\ Word(t) = 0 => scan[t].at + 1 = Entry(scan[t].i)
            /\ Word(t) # 0 =>
                  /\ scan[t].at = Entry(scan[t].i) /\ Word(t) = listed[scan[t].i + 1]
                  /\ scan[t].i < Fitting /\ scan[t].i < Len(listed)
        BY <2>2, <3>3, NextWord
      <4>2. /\ Len(stream[t].out) <= Len(listed) /\ Len(stream[t].out) <= Fitting
            /\ \A k \in 1 .. Len(stream[t].out) : stream[t].out[k] = listed[k]
            /\ scan[t].pos = scan[t].i + 2
        BY <1>0, <3>0, <3>3 DEF Given
      <4>3. CASE /\ Word(t) = 0 /\ scan'[t].i = scan[t].i /\ scan'[t].pos = scan[t].pos
                 /\ Streamed(t, stream[t].pos, stream[t].out, stream[t].first)
        BY <3>0, <4>1, <4>2, <4>3 DEF Streamed
      <4>4. CASE Word(t) \in Child /\ scan'[t].i = scan[t].i + 1 /\ scan'[t].pos = scan[t].pos + 1
        <5>1. Word(t) # 0
          BY <1>0, <4>4, Sizes DEF Child
        <5>2. scan'[t].i >= 1 /\ scan'[t].at = Entry(scan'[t].i) - 1
          <6>1. scan[t].at = 3 + 2 * scan[t].i
            BY <4>1, <5>1 DEF Entry, HeaderWords
          <6>2. Entry(scan'[t].i) = 3 + 2 * (scan[t].i + 1)
            BY <4>4 DEF Entry, HeaderWords
          <6>3. /\ scan[t].i \in Nat /\ scan'[t].i = scan[t].i + 1
                /\ scan'[t].at = scan[t].at + 1
            BY <1>3, <3>0, <4>4
          <6> QED
            BY <6>1, <6>2, <6>3
        <5>3. scan'[t].pos = scan'[t].i + 2
          BY <1>3, <4>2, <4>4
        <5>4. CASE Streamed(t, stream[t].pos, stream[t].out, stream[t].first)
          BY <4>2, <5>2, <5>3, <5>4 DEF Streamed
        <5>5. CASE /\ scan[t].pos = stream[t].pos
                   /\ Streamed(t, stream[t].pos + 1, Append(stream[t].out, Word(t)),
                               stream[t].first)
          <6>1. Len(stream[t].out) = scan[t].i
            <7>1. Len(stream[t].out) = stream[t].pos - 2
              BY <1>3, <3>0 DEF IInv, Positions
            <7> QED
              BY <1>3, <4>2, <5>5, <7>1
          <6>2. stream'[t].out = Append(stream[t].out, Word(t)) /\ Word(t) \in Entries
            BY <4>4, <5>5 DEF Streamed, Entries
          <6>3. /\ Len(stream'[t].out) = scan[t].i + 1
                /\ stream'[t].out[scan[t].i + 1] = listed[scan[t].i + 1]
                /\ \A k \in 1 .. scan[t].i : stream'[t].out[k] = stream[t].out[k]
            BY <1>3, <4>1, <5>1, <6>1, <6>2
          <6>4. \A k \in 1 .. Len(stream'[t].out) : stream'[t].out[k] = listed[k]
            <7>1. \A k \in 1 .. (scan[t].i + 1) : k = scan[t].i + 1 \/ k \in 1 .. scan[t].i
              BY <1>3
            <7>2. \A k \in 1 .. scan[t].i : stream'[t].out[k] = listed[k]
              BY <4>2, <6>1, <6>3
            <7> QED
              BY <6>3, <7>1, <7>2
          <6>5. Len(stream'[t].out) <= Len(listed) /\ Len(stream'[t].out) <= Fitting
            BY <1>3, <4>1, <5>1, <6>3
          <6> QED
            BY <5>2, <5>3, <6>4, <6>5
        <5> QED
          BY <2>2, <4>4, <5>1, <5>4, <5>5
      <4> QED
        BY <2>2, <4>3, <4>4
    <3>4. Entry(scan[t].i)' = Entry(scan'[t].i)
      BY DEF Entry, HeaderWords
    <3> QED
      BY <1>0, <1>1, <1>2, <2>2, <3>1, <3>2, <3>3, <3>4 DEF Given
  <2>3. CASE ~stream'[t].ok /\ Streamed(t, stream[t].pos, stream[t].out, stream[t].first)
    BY <2>3 DEF Given, Exact
  <2>4. CASE /\ pc'[t] = "dead" /\ Fine(t)
             /\ Streamed(t, stream[t].pos, stream[t].out, stream[t].first)
    BY <1>5, <2>4
  <2> QED
    BY <1>7, <2>1, <2>2, <2>3, <2>4 DEF Inner, Scanned
<1> QED
  BY <1>0, <1>4, <1>6, <1>7

\* Every step keeps what the streams have given in order.
LEMMA NextInOrder ==
    ASSUME IInv, [Next]_vars
    PROVE  InOrder'
<1>1. ASSUME NEW t \in Tasks, Add(t)
      PROVE  InOrder'
  <2>1. \A u \in Tasks : Given(u)'
    BY <1>1, AddGiven
  <2> QED
    BY <2>1 DEF InOrder, Given
<1>2. ASSUME NEW t \in Tasks, BeginIterate(t) \/ Step(t) \/ Fault(t)
      PROVE  InOrder'
  <2>1. \A u \in Tasks : Given(u)'
    BY <1>2, IterateGiven
  <2> QED
    BY <2>1 DEF InOrder, Given
<1>3. CASE Quiet
  <2>1. UNCHANGED <<words, listed, clean, pc, scan, stream>>
    BY <1>3 DEF Quiet, dir_vars, ghost_vars
  <2> QED
    BY <2>1 DEF IInv, InOrder, Exact, Fitting, Entry, HeaderWords
<1> QED
  BY <1>1, <1>2, <1>3, NextSplit, QuietStep

\* A new directory.
LEMMA InitInvariant == Init => IInv
<1> SUFFICES ASSUME Init PROVE IInv
  OBVIOUS
<1>0. /\ words \in Nat /\ words >= 5 /\ Full \in Nat /\ MaxChildren \in Nat /\ capacity \in {0, 1}
      /\ Full >= 1
  BY DirectoryAssumption DEF Init
<1>1. \A t \in Tasks : pc[t] = "idle" /\ scan[t] = NoScan /\ stream[t] = Closed
  BY DEF Init
<1>2. NoScan \in ScanFields
  BY <1>0 DEF NoScan, ScanFields
<1>3. Closed \in StreamFields
  <2>1. 0 \in 0 .. (capacity + 2) /\ << >> \in Seq(Entries) /\ 0 \in Nat
    BY <1>0
  <2> QED
    BY <2>1, Zenon DEF Closed, StreamFields
<1>4. TypeOK
  <2>1. clean \in BOOLEAN
    BY Zenon DEF Init
  <2>2. /\ words \in BlockWords /\ block \in {<< >>} \cup [0 .. (words - 1) -> Nat]
        /\ capacity \in 0 .. (MaxChildren + 1) /\ lock \in Tasks \cup {NoTask}
        /\ created \in 0 .. MaxChildren /\ cached \subseteq Child /\ pinned \subseteq cached
        /\ pc \in [Tasks -> Labels] /\ listed \in Seq(Child)
    BY <1>0 DEF Init, Labels
  <2>3. scan \in [Tasks -> ScanFields] /\ stream \in [Tasks -> StreamFields]
    BY <1>2, <1>3 DEF Init
  <2> QED
    BY <2>1, <2>2, <2>3 DEF TypeOK
<1>5. Locked /\ NoBug
  BY <1>1 DEF Locked, NoBug
<1>6. Counts /\ Layout
  BY <1>0 DEF Init, Counts, Layout
<1>7. Closed.out = << >> /\ Closed.pos = 0 /\ Closed.first = 0 /\ Fitting \in Nat
  BY <1>4, Sizes DEF Closed
<1>8. Positions
  BY <1>1, <1>7 DEF Positions
<1>9. InOrder
  BY <1>1, <1>7 DEF Init, InOrder
<1>10. Begun
  BY <1>1, <1>7 DEF Begun
<1> QED
  BY <1>4, <1>5, <1>6, <1>8, <1>9, <1>10 DEF IInv

\* The inductive invariant holds in every reachable state.
THEOREM Invariant == Spec => []IInv
<1>1. IInv /\ [Next]_vars => IInv'
  BY NextType, NextLocked, NextBlock, NextPositions, NextBegun, NextInOrder DEF IInv
<1> QED
  BY InitInvariant, <1>1, PTL DEF Spec

\* Types hold in every reachable state, with any number of tasks and block
\* sizes: no scan leaves the block, and dir_ctx->pos stays within the capacity.
THEOREM TypeCorrect == Spec => []TypeOK
<1>1. IInv => TypeOK
  BY DEF IInv
<1> QED
  BY Invariant, <1>1, PTL

\* On a block that is large enough for Full children, spfs_dir_write_child has
\* room for every child that is counted, and BUG_ON(pos > bh->b_size) of
\* spfs_sb_remaining is not hit, however many children are created.
THEOREM RoomForEveryChild == Spec => []LargeBlockHoldsAll
<1>1. ASSUME IInv PROVE LargeBlockHoldsAll
  <2> SUFFICES ASSUME words >= HeaderWords + 2 * Full
               PROVE  Len(listed) <= Fitting /\ \A t \in Tasks : pc[t] # "bug"
    BY DEF LargeBlockHoldsAll
  <2>1. \A t \in Tasks : pc[t] # "bug"
    BY <1>1 DEF IInv, NoBug
  <2>2. Full <= Fitting /\ Len(listed) <= Full
    BY <1>1, Sizes DEF IInv, Counts, Fitting, HeaderWords
  <2> QED
    BY <1>1, <2>1, <2>2, Sizes DEF IInv
<1> QED
  BY Invariant, <1>1, PTL

\* A stream of getdents calls gives the children of a directory in the order in
\* which spfs_add_child wrote them, each once: for any number of tasks that list
\* and create, any sizes of the caller's buffer and any evictions in between.
THEOREM StreamsInOrder == Spec => []StreamInOrder
<1>1. ASSUME IInv PROVE StreamInOrder
  <2> SUFFICES ASSUME NEW t \in Tasks, clean, stream[t].ok
               PROVE  /\ Len(stream[t].out) <= Visible
                      /\ stream[t].out = SubSeq(listed, 1, Len(stream[t].out))
    BY DEF StreamInOrder
  <2>1. /\ Len(stream[t].out) <= Len(listed) /\ Len(stream[t].out) <= Fitting
        /\ \A k \in 1 .. Len(stream[t].out) : stream[t].out[k] = listed[k]
    BY <1>1 DEF IInv, InOrder, Exact
  <2>2. stream[t].out \in Seq(Entries) /\ listed \in Seq(Child) /\ Len(stream[t].out) \in Nat
        /\ Len(listed) \in Nat
    BY <1>1, Fields DEF IInv, TypeOK
  <2>3. stream[t].out = SubSeq(listed, 1, Len(stream[t].out))
    BY <2>1, <2>2
  <2> QED
    BY <2>1, <2>3 DEF Visible
<1> QED
  BY Invariant, <1>1, PTL

\* A stream whose last call found nothing has given every child that was listed
\* when it was opened, unless a read failed: capacity never ends spfs_iterate
\* too early, and no position is lost between two calls.
THEOREM StreamsComplete == Spec => []StreamComplete
<1>1. IInv => StreamComplete
  BY DEF IInv, InOrder, Exact, StreamComplete
<1> QED
  BY Invariant, <1>1, PTL

\* The writer's eight bytes and the reader's four agree, word by word: on a block
\* that had zeros between its entries, the first words of the entries are the
\* children in the order of spfs_add_child as far as the block reaches, and every
\* other word is still the zero that spfs_for_all_children skips.
THEOREM WrittenWhereRead == Spec => []Layout
<1>1. IInv => Layout
  BY DEF IInv
<1> QED
  BY Invariant, <1>1, PTL

-----------------------------------------------------------------------------
(* What spfs_for_all_children finds, by induction over the words of the block *)

\* found[k] is what the reader has after k words of block b.
IsFound(found, b) ==
    found = [k \in 0 .. (words - HeaderWords - 1) |->
                IF k = 0 THEN << >>
                ELSE LET v == b[HeaderWords + k - 1]
                     IN  IF v = 0 \/ Len(found[k - 1]) = ChildrenOf(b) THEN found[k - 1]
                         ELSE Append(found[k - 1], v)]

\* There is only one such function.
LEMMA FoundUnique ==
    ASSUME TypeOK, NEW b, NEW f, NEW g, IsFound(f, b), IsFound(g, b)
    PROVE  \A k \in 0 .. (words - HeaderWords - 1) : f[k] = g[k]
<1> DEFINE n == words - HeaderWords - 1
           P == {k \in 0 .. n : f[k] = g[k]}
<1>0. n \in Nat
  BY Sizes DEF HeaderWords
<1>1. 0 \in P
  <2>1. 0 \in 0 .. n
    BY <1>0
  <2>2. f[0] = << >> /\ g[0] = << >>
    BY <2>1, Zenon DEF IsFound
  <2> QED
    BY <2>1, <2>2, Zenon
<1>2. ASSUME NEW k \in 0 .. (n - 1), k \in P
      PROVE  k + 1 \in P
  <2>1. k + 1 \in 0 .. n /\ k + 1 # 0 /\ (k + 1) - 1 = k /\ f[k] = g[k]
    BY <1>0, <1>2
  <2> DEFINE j == k + 1
             v == b[HeaderWords + j - 1]
  <2>2. /\ f[j] = IF v = 0 \/ Len(f[j - 1]) = ChildrenOf(b) THEN f[j - 1] ELSE Append(f[j - 1], v)
        /\ g[j] = IF v = 0 \/ Len(g[j - 1]) = ChildrenOf(b) THEN g[j - 1] ELSE Append(g[j - 1], v)
    BY <2>1, Zenon DEF IsFound
  <2>3. f[j] = g[j]
    BY <2>1, <2>2
  <2> QED
    BY <2>1, <2>3
<1> HIDE DEF n, P
<1>3. \A k \in 0 .. n : k \in P
  BY <1>0, <1>1, <1>2, UpTo
<1> QED
  BY <1>3 DEF P, n

\* The children that the first k words of a block hold.
Within(k) == IF Len(listed) < (k + 1) \div 2 THEN Len(listed) ELSE (k + 1) \div 2

\* With zeros between the entries, the reader has the first of the children.
LEMMA FoundIs ==
    ASSUME IInv, clean, block # << >>
    PROVE  IsFound([k \in 0 .. (words - HeaderWords - 1) |-> SubSeq(listed, 1, Within(k))], block)
<1> DEFINE D == 0 .. (words - HeaderWords - 1)
           f == [k \in D |-> SubSeq(listed, 1, Within(k))]
           step(k) == LET v == block[HeaderWords + k - 1]
                      IN  IF v = 0 \/ Len(f[k - 1]) = ChildrenOf(block) THEN f[k - 1]
                          ELSE Append(f[k - 1], v)
<1>0. TypeOK /\ words \in Nat /\ words >= 5 /\ listed \in Seq(Child) /\ Len(listed) \in Nat
      /\ ChildrenOf(block) = Len(listed) /\ HeaderWords = 3 /\ D = 0 .. (words - 4)
  BY Sizes DEF IInv, TypeOK, Counts, HeaderWords
<1>1. \A k \in D : Within(k) \in 0 .. Len(listed) /\ f[k] = SubSeq(listed, 1, Within(k))
  <2>1. \A k \in Nat : Within(k) \in 0 .. Len(listed)
    BY <1>0 DEF Within
  <2> QED
    BY <1>0, <2>1
<1>2. \A m \in 0 .. Len(listed) : /\ SubSeq(listed, 1, m) \in Seq(Child) /\ Len(SubSeq(listed, 1, m)) = m
  BY <1>0
<1>3. f[0] = << >>
  <2>1. Within(0) = 0
    BY <1>0 DEF Within
  <2>2. 0 \in D
    BY <1>0
  <2> QED
    BY <1>0, <1>1, <2>1, <2>2
<1>4. ASSUME NEW k \in D, k # 0
      PROVE  f[k] = step(k)
  <2>0. k \in Nat /\ k >= 1 /\ k <= words - 4 /\ k - 1 \in D
    BY <1>0, <1>4
  <2> DEFINE v == block[HeaderWords + k - 1]
  <2>1. Len(f[k - 1]) = Within(k - 1)
    BY <1>1, <1>2, <2>0
  <2>2. CASE \E i \in Nat : k = 2 * i + 1
    <3>1. PICK i \in Nat : k = 2 * i + 1
      BY <2>2
    <3>2. HeaderWords + k - 1 = Entry(i) /\ Entry(i) <= words - 2
      BY <1>0, <2>0, <3>1 DEF Entry
    <3>3. i < Len(listed) => v = listed[i + 1]
      BY <3>2 DEF IInv, Layout
    <3>4. Within(k) = (IF Len(listed) < i + 1 THEN Len(listed) ELSE i + 1)
          /\ Within(k - 1) = (IF Len(listed) < i THEN Len(listed) ELSE i)
      <4>1. (k + 1) \div 2 = i + 1 /\ ((k - 1) + 1) \div 2 = i
        BY <3>1
      <4> QED
        BY <4>1 DEF Within
    <3>5. CASE i < Len(listed)
      <4>1. Within(k) = i + 1 /\ Within(k - 1) = i /\ v = listed[i + 1] /\ Len(f[k - 1]) = i
        BY <1>0, <2>1, <3>3, <3>4, <3>5
      <4>2. v # 0 /\ i # Len(listed)
        <5>1. v \in Child
          BY <1>0, <3>5, <4>1
        <5> QED
          BY <1>0, <3>5, <5>1, Sizes DEF Child
      <4>3. step(k) = Append(f[k - 1], v)
        BY <1>0, <4>1, <4>2
      <4>4. f[k] = SubSeq(listed, 1, i + 1) /\ f[k - 1] = SubSeq(listed, 1, i)
        BY <1>1, <2>0, <4>1
      <4>5. Append(SubSeq(listed, 1, i), listed[i + 1]) = SubSeq(listed, 1, i + 1)
        BY <1>0, <3>1, <3>5
      <4> QED
        BY <4>1, <4>3, <4>4, <4>5
    <3>6. CASE ~(i < Len(listed))
      <4>1. Within(k) = Within(k - 1) /\ Len(f[k - 1]) = ChildrenOf(block)
        BY <1>0, <2>1, <3>4, <3>6
      <4> QED
        BY <1>1, <2>0, <4>1
    <3> QED
      BY <3>5, <3>6
  <2>3. CASE \E i \in Nat : k = 2 * i + 2
    <3>1. PICK i \in Nat : k = 2 * i + 2
      BY <2>3
    <3>2. HeaderWords + k - 1 = Entry(i) + 1 /\ Entry(i) <= words - 3
      BY <1>0, <2>0, <3>1 DEF Entry
    <3>3. v = 0
      BY <3>2 DEF IInv, Layout
    <3>4. (k + 1) \div 2 = i + 1 /\ ((k - 1) + 1) \div 2 = i + 1
      BY <3>1
    <3>5. Within(k) = Within(k - 1)
      BY <3>4 DEF Within
    <3> QED
      BY <1>1, <2>0, <3>3, <3>5
  <2>4. \E i \in Nat : k = 2 * i + 1 \/ k = 2 * i + 2
    <3>1. (k - 1) \div 2 \in Nat /\ ( k = 2 * ((k - 1) \div 2) + 1 \/ k = 2 * ((k - 1) \div 2) + 2)
      BY <2>0
    <3> QED
      BY <3>1
  <2> QED
    BY <2>2, <2>3, <2>4
<1>5. f = [k \in D |-> IF k = 0 THEN << >> ELSE step(k)]
  <2>1. \A k \in D : f[k] = IF k = 0 THEN << >> ELSE step(k)
    BY <1>3, <1>4
  <2> HIDE DEF D
  <2> QED
    BY <2>1
<1> QED
  BY <1>5, Zenon DEF IsFound

\* What spfs_for_all_children finds in a block with zeros between its entries is
\* what spfs_add_child has written into it, in the same order, whatever children
\* of an earlier directory stand behind it.
THEOREM ReaderFindsChildren == Spec => []BlockListsChildren
<1>1. ASSUME IInv, clean
      PROVE  Readable(block) = SubSeq(listed, 1, Visible)
  <2>0. TypeOK /\ words \in Nat /\ words >= 5 /\ listed \in Seq(Child) /\ Len(listed) \in Nat
    BY <1>1, Sizes DEF IInv, TypeOK
  <2>1. CASE block = << >>
    <3>1. listed = << >> /\ Visible = 0
      <4>1. listed = << >>
        BY <1>1, <2>1 DEF IInv, Counts
      <4> QED
        BY <2>0, <4>1, Sizes DEF Visible
    <3>2. Readable(block) = << >>
      BY <2>1, Zenon DEF Readable
    <3> QED
      BY <3>1, <3>2
  <2>2. CASE block # << >>
    <3> DEFINE n == words - HeaderWords - 1
               f == [k \in 0 .. n |-> SubSeq(listed, 1, Within(k))]
               c == CHOOSE g : IsFound(g, block)
    <3>1. IsFound(f, block)
      BY <1>1, <2>2, FoundIs
    <3>2. IsFound(c, block)
      <4> HIDE DEF f
      <4> QED
        BY <3>1, Zenon
    <3>3. Readable(block) = c[n]
      BY <2>2 DEF Readable, IsFound
    <3> HIDE DEF c
    <3>4. n \in Nat /\ n = words - 4
      BY <2>0 DEF HeaderWords
    <3>5. c[n] = f[n]
      <4> HIDE DEF f
      <4> QED
        BY <2>0, <3>1, <3>2, <3>4, FoundUnique
    <3>6. f[n] = SubSeq(listed, 1, Within(n))
      <4>1. n \in 0 .. n
        BY <3>4
      <4> HIDE DEF n
      <4> QED
        BY <4>1, Zenon
    <3>7. Within(n) = Visible
      BY <2>0, <3>4 DEF Within, Visible, Fitting, HeaderWords
    <3> QED
      BY <3>3, <3>5, <3>6, <3>7
  <2> QED
    BY <2>1, <2>2
<1>2. IInv => BlockListsChildren
  BY <1>1 DEF BlockListsChildren
<1> QED
  BY Invariant, <1>2, PTL

-----------------------------------------------------------------------------
(* The directory implements Listing.tla *)

\* A block has a child, and no child has the number of the next one.
Numbered ==
    /\ block # << >> => listed # << >>
    /\ \A k \in 1 .. Len(listed) : listed[k] <= created

\* Every step keeps the numbers.
LEMMA NextNumbered ==
    ASSUME IInv, Numbered, [Next]_vars
    PROVE  Numbered'
<1>0. TypeOK /\ listed \in Seq(Child) /\ Len(listed) \in Nat /\ created \in Nat /\ MaxChildren \in Nat
  BY Sizes DEF IInv, TypeOK
<1>k. \A k \in 1 .. Len(listed) : listed[k] \in Nat
  BY <1>0 DEF Child
<1>1. ASSUME NEW t \in Tasks, Add(t)
      PROVE  Numbered'
  <2>1. /\ AddEffect(t) /\ NewChild \in Child /\ NewChild \in Nat
        /\ created' = created + 1 /\ NewChild = created'
    BY <1>1, AddStep, CreateStep DEF NewChild
  <2>2. CASE block' = block /\ listed' = listed
    BY <1>0, <1>k, <2>1, <2>2 DEF Numbered
  <2>3. CASE listed' = Append(listed, NewChild)
    <3>1. /\ Len(listed') = Len(listed) + 1 /\ listed' # << >>
          /\ listed'[Len(listed) + 1] = NewChild
          /\ \A k \in 1 .. Len(listed) : listed'[k] = listed[k]
      BY <1>0, <2>1, <2>3
    <3> QED
      BY <1>0, <1>k, <2>1, <3>1 DEF Numbered
  <2>4. CASE listed' = <<NewChild>>
    BY <1>0, <2>1, <2>4 DEF Numbered
  <2>5. CASE block' = << >> /\ listed' = << >>
    BY <2>5 DEF Numbered
  <2> QED
    BY <2>1, <2>2, <2>3, <2>4, <2>5 DEF AddEffect
<1>2. CASE UNCHANGED <<block, listed, created>>
  BY <1>2 DEF Numbered
<1>3. ASSUME NEW t \in Tasks, BeginIterate(t) \/ Step(t) \/ Fault(t)
      PROVE  UNCHANGED <<block, listed, created>>
  BY <1>3, FrameStep DEF Frame, dir_vars, ghost_vars
<1>4. Quiet => UNCHANGED <<block, listed, created>>
  BY DEF Quiet, dir_vars, ghost_vars
<1> QED
  BY <1>1, <1>2, <1>3, <1>4, NextSplit, QuietStep

\* The list that a directory shows: the first of the children that were added.
LEMMA ShownIs ==
    ASSUME TypeOK
    PROVE  /\ Shown \in Seq(Child) /\ Len(Shown) = Visible /\ Visible \in 0 .. Len(listed)
           /\ Visible <= Fitting
           /\ \A k \in 1 .. Visible : Shown[k] = listed[k]
<1>1. listed \in Seq(Child) /\ Len(listed) \in Nat /\ Fitting \in Nat
  BY Sizes DEF TypeOK
<1>2. Visible \in 0 .. Len(listed) /\ Visible <= Fitting
  BY <1>1 DEF Visible
<1> QED
  BY <1>1, <1>2 DEF Shown

\* A stream that is sound has not begun or is exact.
LEMMA SoundIs ==
    ASSUME IInv, NEW t \in Tasks, Sound(t)
    PROVE  /\ stream[t].pos # 0 => Exact(t)
           /\ stream[t].pos = 0 => stream[t].out = << >>
<1>1. stream[t].pos \in Nat /\ stream[t].out \in Seq(Entries)
  BY Fields DEF IInv
<1>2. stream[t].pos = 0 => Len(stream[t].out) = 0
  BY <1>1 DEF IInv, Positions
<1> QED
  BY <1>1, <1>2 DEF Sound, Exact

\* Steps that leave alone what is seen of every stream.
LEMMA StreamsUnaffected ==
    ASSUME \A u \in Tasks : /\ Sound(u)' <=> Sound(u)
                            /\ stream'[u].out = stream[u].out /\ stream'[u].first = stream[u].first
    PROVE  UNCHANGED <<GivenTo, DueTo, SoundFor>>
<1>1. GivenTo' = GivenTo
  BY Zenon DEF GivenTo
<1>2. DueTo' = DueTo
  BY Zenon DEF DueTo
<1>3. SoundFor' = SoundFor
  <2>1. \A u \in Tasks : Sound(u)' = Sound(u)
    BY Zenon DEF Sound
  <2> QED
    BY <2>1, Zenon DEF SoundFor
<1> QED
  BY <1>1, <1>2, <1>3

\* The children are lost: every stream that has begun sees it.
LEMMA LostStep ==
    ASSUME IInv, NEW t \in Tasks, Add(t),
           \A u \in Tasks : IF stream[u].pos = 0 THEN Sound(u)' ELSE ~Sound(u)'
    PROVE  List!Replace(Shown', {u \in Tasks : stream[u].pos # 0})
<1> DEFINE S == {u \in Tasks : stream[u].pos # 0}
<1>1. ASSUME NEW u \in Tasks, stream[u].pos = 0
      PROVE  /\ Sound(u) /\ Sound(u)' /\ stream[u].out = << >> /\ stream[u].first = 0
             /\ stream'[u].out = << >> /\ stream'[u].first = 0
  <2>1. Sound(u) /\ Sound(u)'
    BY <1>1 DEF Sound
  <2>2. stream[u].out = << >> /\ stream[u].first = 0
    BY <1>1, <2>1, SoundIs, NobodyScans DEF IInv, Begun
  <2> QED
    BY <2>1, <2>2, AddStep DEF StreamsKept
<1>2. \A u \in S : ~Sound(u)'
  OBVIOUS
<1>3. List!Informed \subseteq S
  <2>1. \A u \in Tasks : u \notin S => GivenTo[u] = << >> /\ DueTo[u] = 0
    BY <1>1, Zenon DEF GivenTo, DueTo
  <2> QED
    BY <2>1, Zenon DEF List!Informed
<1>4. GivenTo' = [u \in Tasks |-> IF u \in S THEN << >> ELSE GivenTo[u]]
  <2>1. \A u \in Tasks : (IF Sound(u) THEN stream[u].out ELSE << >>)'
                           = IF u \in S THEN << >> ELSE GivenTo[u]
    BY <1>1, <1>2, Zenon DEF GivenTo
  <2> QED
    BY <2>1, Zenon DEF GivenTo
<1>5. DueTo' = [u \in Tasks |-> IF u \in S THEN 0 ELSE DueTo[u]]
  <2>1. \A u \in Tasks : (IF Sound(u) THEN stream[u].first ELSE 0)'
                           = IF u \in S THEN 0 ELSE DueTo[u]
    BY <1>1, <1>2, Zenon DEF DueTo
  <2> QED
    BY <2>1, Zenon DEF DueTo
<1>6. SoundFor' = [u \in Tasks |-> IF u \in S THEN FALSE ELSE SoundFor[u]]
  <2>1. \A u \in Tasks : Sound(u)' = IF u \in S THEN FALSE ELSE SoundFor[u]
    <3>1. \A u \in Tasks : SoundFor[u] = Sound(u) /\ Sound(u) \in BOOLEAN /\ Sound(u)' \in BOOLEAN
      BY Zenon DEF SoundFor, Sound
    <3>2. \A u \in Tasks : u \notin S => Sound(u) /\ Sound(u)'
      BY <1>1
    <3> HIDE DEF S
    <3> QED
      BY <1>2, <3>1, <3>2, Zenon
  <2> QED
    BY <2>1, Zenon DEF SoundFor
<1> QED
  BY <1>3, <1>4, <1>5, <1>6 DEF List!Replace

\* A child that is added, seen by those who list the directory.
LEMMA AddLists ==
    ASSUME IInv, Numbered, NEW t \in Tasks, Add(t)
    PROVE  List!ListNext \/ UNCHANGED List!list_vars
<1>0. /\ TypeOK /\ AddEffect(t) /\ StreamsKept /\ NewChild \in Child /\ NewChild = created + 1
      /\ words' = words
  BY AddStep, CreateStep DEF IInv, NewChild
<1>1. /\ listed \in Seq(Child) /\ Len(listed) \in Nat /\ words \in Nat /\ created \in Nat
      /\ Fitting \in Nat /\ Fitting >= 1 /\ Fitting' = Fitting
  BY <1>0, Sizes DEF TypeOK, Fitting, HeaderWords
<1>2. \A u \in Tasks : /\ stream'[u].pos = stream[u].pos /\ stream'[u].out = stream[u].out
                       /\ stream'[u].first = stream[u].first
  BY <1>0 DEF StreamsKept
<1>3. ASSUME \A k \in 1 .. Len(Shown) : Shown[k] # NewChild, Shown' = Append(Shown, NewChild),
             UNCHANGED <<GivenTo, DueTo, SoundFor>>
      PROVE  List!ListNext
  <2>1. List!Insert(NewChild)
    BY <1>3 DEF List!Insert
  <2> QED
    BY <1>0, <2>1, Zenon DEF List!ListNext
<1>4. ASSUME NEW children \in {<< >>} \cup {<<c>> : c \in Child}, Shown' = children,
             \A u \in Tasks : IF stream[u].pos = 0 THEN Sound(u)' ELSE ~Sound(u)'
      PROVE  List!ListNext
  <2>1. List!Replace(children, {u \in Tasks : stream[u].pos # 0})
    BY <1>4, LostStep
  <2>2. {u \in Tasks : stream[u].pos # 0} \in SUBSET Tasks
    OBVIOUS
  <2> QED
    BY <2>1, <2>2, Zenon DEF List!ListNext
<1>5. <<NewChild>> \in {<< >>} \cup {<<c>> : c \in Child} /\ << >> \in {<< >>} \cup {<<c>> : c \in Child}
  BY <1>0
<1>6. Marked => \A u \in Tasks : IF stream[u].pos = 0 THEN Sound(u)' ELSE ~Sound(u)'
  BY <1>2 DEF Marked, Sound
<1>7. ASSUME listed' = <<NewChild>> PROVE Shown' = <<NewChild>>
  <2>1. Visible' = 1
    BY <1>1, <1>7 DEF Visible
  <2>2. SubSeq(<<NewChild>>, 1, 1) = <<NewChild>>
    <3>1. <<NewChild>> \in Seq(Child) /\ Len(<<NewChild>>) = 1
      BY <1>0
    <3>2. \A q \in Seq(Child) : SubSeq(q, 1, Len(q)) = q
      OBVIOUS
    <3> QED
      BY <3>1, <3>2
  <2> QED
    BY <1>7, <2>1, <2>2 DEF Shown
<1>8. CASE UNCHANGED <<block, listed, clean, stream>>
  <2>1. Shown' = Shown
    BY <1>1, <1>8 DEF Shown, Visible
  <2>2. UNCHANGED <<GivenTo, DueTo, SoundFor>>
    BY <1>8, StreamsUnaffected DEF Sound
  <2> QED
    BY <2>1, <2>2 DEF List!list_vars
<1>9. CASE /\ UNCHANGED <<clean, stream>> /\ block # << >> /\ listed' = Append(listed, NewChild)
  <2>1. listed # << >> /\ listed' # << >>
    BY <1>0, <1>1, <1>9 DEF Numbered
  <2>2. UNCHANGED <<GivenTo, DueTo, SoundFor>>
    BY <1>9, <2>1, StreamsUnaffected DEF Sound
  <2>3. CASE Len(listed) < Fitting
    <3>1. Shown = listed
      BY <1>1, <2>3 DEF Shown, Visible
    <3>2. Shown' = listed'
      <4>1. Visible' = Len(listed') /\ listed' \in Seq(Child)
        BY <1>0, <1>1, <1>9, <2>3 DEF Visible
      <4> QED
        BY <4>1 DEF Shown
    <3>3. \A k \in 1 .. Len(Shown) : Shown[k] # NewChild
      <4>1. \A k \in 1 .. Len(listed) : listed[k] \in Nat
        BY <1>0, <1>1, Sizes DEF Child
      <4> QED
        BY <1>0, <1>1, <3>1, <4>1 DEF Numbered
    <3> QED
      BY <1>3, <1>9, <2>2, <3>1, <3>2, <3>3
  <2>4. CASE ~(Len(listed) < Fitting)
    <3>1. Visible = Fitting /\ Visible' = Fitting
      <4>1. Len(listed') = Len(listed) + 1
        BY <1>0, <1>1, <1>9
      <4> QED
        BY <1>1, <2>4, <4>1 DEF Visible
    <3>2. SubSeq(Append(listed, NewChild), 1, Fitting) = SubSeq(listed, 1, Fitting)
      BY <1>0, <1>1, <2>4
    <3> QED
      BY <1>9, <2>2, <3>1, <3>2 DEF Shown, List!list_vars
  <2> QED
    BY <2>3, <2>4
<1>10. CASE listed' = <<NewChild>> /\ Marked
  BY <1>4, <1>5, <1>6, <1>7, <1>10
<1>11. CASE listed' = <<NewChild>> /\ block = << >> /\ UNCHANGED stream
  <2>1. listed = << >> /\ listed' # << >>
    BY <1>11 DEF IInv, Counts
  <2>2. CASE clean'
    <3>1. UNCHANGED <<GivenTo, DueTo, SoundFor>>
      BY <1>11, <2>1, <2>2, StreamsUnaffected DEF Sound
    <3>2. Shown = << >>
      BY <1>1, <2>1 DEF Shown, Visible
    <3>3. Shown' = Append(Shown, NewChild)
      BY <1>7, <1>11, <3>2
    <3> QED
      BY <1>3, <3>1, <3>2, <3>3
  <2>3. CASE ~clean'
    <3>1. \A u \in Tasks : IF stream[u].pos = 0 THEN Sound(u)' ELSE ~Sound(u)'
      BY <1>2, <2>1, <2>3 DEF Sound
    <3> QED
      BY <1>4, <1>5, <1>7, <1>11, <3>1
  <2> QED
    BY <2>2, <2>3
<1>12. CASE listed' = << >> /\ Marked
  <2>1. Shown' = << >>
    BY <1>1, <1>12 DEF Shown, Visible
  <2> QED
    BY <1>4, <1>5, <1>6, <1>12, <2>1
<1> QED
  BY <1>0, <1>8, <1>9, <1>10, <1>11, <1>12 DEF AddEffect

\* A step of one stream, on a directory that stays as it is.
LEMMA OneStream ==
    ASSUME NEW t \in Tasks, \A u \in Tasks \ {t} : stream'[u] = stream[u],
           UNCHANGED <<words, listed, clean>>
    PROVE  /\ Shown' = Shown
           /\ GivenTo' = [GivenTo EXCEPT ![t] = (IF Sound(t) THEN stream[t].out ELSE << >>)']
           /\ DueTo' = [DueTo EXCEPT ![t] = (IF Sound(t) THEN stream[t].first ELSE 0)']
           /\ SoundFor' = [SoundFor EXCEPT ![t] = Sound(t)']
<1>1. Shown' = Shown
  BY DEF Shown, Visible, Fitting, HeaderWords
<1>2. \A u \in Tasks \ {t} : Sound(u)' = Sound(u)
  BY Zenon DEF Sound
<1>3. GivenTo' = [GivenTo EXCEPT ![t] = (IF Sound(t) THEN stream[t].out ELSE << >>)']
  BY <1>2, Zenon DEF GivenTo
<1>4. DueTo' = [DueTo EXCEPT ![t] = (IF Sound(t) THEN stream[t].first ELSE 0)']
  BY <1>2, Zenon DEF DueTo
<1>5. SoundFor' = [SoundFor EXCEPT ![t] = Sound(t)']
  BY <1>2, Zenon DEF SoundFor
<1> QED
  BY <1>1, <1>3, <1>4, <1>5

\* A call of spfs_iterate, seen by those who list the directory.
LEMMA IterateLists ==
    ASSUME IInv, NEW t \in Tasks, BeginIterate(t) \/ Step(t) \/ Fault(t)
    PROVE  List!ListNext \/ UNCHANGED List!list_vars
<1> DEFINE out == (IF Sound(t) THEN stream[t].out ELSE << >>)'
           first == (IF Sound(t) THEN stream[t].first ELSE 0)'
<1>0. TypeOK /\ Frame(t) /\ (Outer(t) \/ Inner(t))
  BY IterateStep DEF IInv
<1>1. \A u \in Tasks \ {t} : stream'[u] = stream[u]
  BY <1>0 DEF Outer, Inner, Streamed
<1>2. UNCHANGED <<words, listed, clean>>
  BY <1>0 DEF Frame, dir_vars, ghost_vars
<1>3. /\ Shown' = Shown /\ GivenTo' = [GivenTo EXCEPT ![t] = out]
      /\ DueTo' = [DueTo EXCEPT ![t] = first] /\ SoundFor' = [SoundFor EXCEPT ![t] = Sound(t)']
  BY <1>1, <1>2, OneStream
<1>4. /\ GivenTo[t] = IF Sound(t) THEN stream[t].out ELSE << >>
      /\ DueTo[t] = IF Sound(t) THEN stream[t].first ELSE 0
      /\ SoundFor[t] <=> Sound(t)
  BY Zenon DEF GivenTo, DueTo, SoundFor
<1>5. /\ stream[t].pos \in Nat /\ stream[t].out \in Seq(Entries) /\ Len(stream[t].out) \in Nat
      /\ stream[t].first \in Nat
  BY <1>0, Fields
<1>6. ASSUME Sound(t)' <=> Sound(t), stream'[t].out = stream[t].out, stream'[t].first = stream[t].first
      PROVE  UNCHANGED List!list_vars
  <2>1. UNCHANGED <<GivenTo, DueTo, SoundFor>>
    BY <1>1, <1>2, <1>6, StreamsUnaffected DEF Sound
  <2> QED
    BY <1>3, <2>1 DEF List!list_vars
<1>7. ASSUME ~Sound(t)'
      PROVE  List!ListNext
  <2>1. out = << >> /\ first = 0 /\ Sound(t)' = FALSE
    BY <1>7, Zenon DEF Sound
  <2>2. List!Fail(t)
    BY <1>3, <2>1, Zenon DEF List!Fail
  <2> QED
    BY <2>2, Zenon DEF List!ListNext
<1>8. ASSUME Streamed(t, stream[t].pos, stream[t].out, stream[t].first), Fine(t) \/ ~stream'[t].ok
      PROVE  List!ListNext \/ UNCHANGED List!list_vars
  <2>1. CASE Sound(t)' <=> Sound(t)
    BY <1>6, <1>8, <2>1 DEF Streamed
  <2>2. CASE ~Sound(t)'
    BY <1>7, <2>2
  <2>3. Sound(t)' => Sound(t)
    BY <1>2, <1>8 DEF Sound, Streamed, Fine
  <2> QED
    BY <2>1, <2>2, <2>3
<1>9. ASSUME /\ Fine(t)
             /\ Streamed(t, stream[t].pos, stream[t].out,
                         IF stream[t].pos = 0 THEN Visible ELSE stream[t].first)
      PROVE  List!ListNext \/ UNCHANGED List!list_vars
  <2>1. CASE stream[t].pos # 0
    BY <1>8, <1>9, <2>1
  <2>2. CASE stream[t].pos = 0
    <3>1. Sound(t) /\ Sound(t)' /\ stream[t].out = << >>
      <4>1. Sound(t) /\ Sound(t)'
        BY <1>9, <2>2 DEF Sound, Streamed
      <4> QED
        BY <2>2, <4>1, SoundIs
    <3>2. stream'[t].out = << >> /\ stream'[t].first = Len(Shown)
      BY <1>0, <1>9, <2>2, <3>1, ShownIs DEF Streamed
    <3>3. out = GivenTo[t] /\ first = Len(Shown) /\ (Sound(t)') = SoundFor[t]
      <4>1. Sound(t) = TRUE /\ (Sound(t)') = TRUE
        BY <3>1, Zenon DEF Sound
      <4>2. SoundFor[t] = Sound(t)
        BY Zenon DEF SoundFor
      <4> QED
        BY <1>4, <3>1, <3>2, <4>1, <4>2, Zenon
    <3>4. GivenTo' = GivenTo /\ SoundFor' = SoundFor
      BY <1>3, <3>3, Zenon DEF GivenTo, SoundFor
    <3>5. SoundFor[t] /\ GivenTo[t] = << >>
      BY <1>4, <3>1
    <3>6. List!Open(t)
      BY <1>3, <3>3, <3>4, <3>5, Zenon DEF List!Open
    <3> QED
      BY <3>6, Zenon DEF List!ListNext
  <2> QED
    BY <2>1, <2>2
<1>10. ASSUME Streamed(t, stream[t].pos + 1, stream[t].out, stream[t].first), Fine(t)
       PROVE  List!ListNext \/ UNCHANGED List!list_vars
  <2>1. Sound(t)' => Sound(t)
    BY <1>2, <1>5, <1>10 DEF Sound, Streamed, Fine
  <2>2. CASE Sound(t)'
    BY <1>6, <1>10, <2>1, <2>2 DEF Streamed
  <2> QED
    BY <1>7, <2>2
<1>11. ASSUME Streamed(t, 0, << >>, 0), pc[t] = "end"
       PROVE  List!ListNext
  <2>1. SoundFor[t] => Len(GivenTo[t]) >= DueTo[t]
    <3> SUFFICES ASSUME Sound(t) PROVE Len(stream[t].out) >= stream[t].first
      BY <1>4
    <3>1. stream[t].pos # 0
      BY <1>5, <1>11 DEF IInv, Begun
    <3> QED
      BY <1>11, <3>1, SoundIs DEF IInv, InOrder
  <2>2. out = << >> /\ first = 0 /\ Sound(t)' = TRUE
    <3>1. Sound(t)' = TRUE
      BY <1>11, Zenon DEF Sound, Streamed
    <3> QED
      BY <1>11, <3>1, Zenon DEF Streamed
  <2>3. List!Close(t)
    BY <1>3, <2>1, <2>2, Zenon DEF List!Close
  <2> QED
    BY <2>3, Zenon DEF List!ListNext
<1>12. ASSUME Reading(t), Word(t) \in Child, scan[t].pos = stream[t].pos,
              Streamed(t, stream[t].pos + 1, Append(stream[t].out, Word(t)), stream[t].first), Fine(t)
       PROVE  List!ListNext \/ UNCHANGED List!list_vars
  <2>1. pc[t] = "scan" /\ stream[t].pos >= 2
    BY <1>12 DEF Reading, IInv, Positions
  <2>2. (Sound(t) <=> Exact(t)) /\ (Sound(t)' <=> Exact(t))
    BY <1>2, <1>5, <1>12, <2>1 DEF Sound, Exact, Streamed, Fine
  <2>3. CASE ~Exact(t)
    BY <1>7, <2>2, <2>3
  <2>4. CASE Exact(t)
    <3>1. Len(stream[t].out) = scan[t].i /\ scan[t].i \in Nat
      <4>1. Len(stream[t].out) = stream[t].pos - 2 /\ scan[t].pos = scan[t].i + 2
        BY <2>1, <2>4, <1>5 DEF IInv, Positions, InOrder
      <4>2. scan[t].i \in Nat
        BY <1>0, Fields
      <4> QED
        BY <1>12, <4>1, <4>2
    <3>2. Word(t) # 0
      BY <1>0, <1>12, Sizes DEF Child
    <3>3. Word(t) = listed[scan[t].i + 1] /\ scan[t].i < Fitting /\ scan[t].i < Len(listed)
      BY <1>12, <2>4, <3>2, NextWord
    <3>4. scan[t].i < Len(Shown) /\ Shown[scan[t].i + 1] = Word(t)
      <4>1. scan[t].i < Visible /\ Visible \in Nat
        BY <1>0, <3>3, Sizes DEF Visible
      <4>2. Len(Shown) = Visible /\ \A k \in 1 .. Visible : Shown[k] = listed[k]
        BY <1>0, ShownIs
      <4> QED
        BY <3>1, <3>3, <4>1, <4>2
    <3>5. GivenTo[t] = stream[t].out /\ Len(GivenTo[t]) = scan[t].i
      BY <1>4, <2>2, <2>4, <3>1
    <3>6. out = Append(GivenTo[t], Shown[Len(GivenTo[t]) + 1]) /\ first = DueTo[t]
      <4>1. stream'[t].out = Append(stream[t].out, Word(t)) /\ stream'[t].first = stream[t].first
        BY <1>12 DEF Streamed
      <4> QED
        BY <1>4, <2>2, <2>4, <3>4, <3>5, <4>1
    <3>7. SoundFor[t] /\ Sound(t)' = SoundFor[t]
      <4>1. Sound(t) = TRUE /\ (Sound(t)') = TRUE
        BY <2>2, <2>4, Zenon DEF Sound
      <4>2. SoundFor[t] = Sound(t)
        BY Zenon DEF SoundFor
      <4> QED
        BY <4>1, <4>2, Zenon
    <3>8. DueTo' = DueTo /\ SoundFor' = SoundFor
      BY <1>3, <3>6, <3>7, Zenon DEF DueTo, SoundFor
    <3>9. List!Give(t)
      <4>1. Len(GivenTo[t]) < Len(Shown)
        BY <3>4, <3>5
      <4> HIDE DEF out, first
      <4> QED
        BY <1>3, <3>6, <3>7, <3>8, <4>1, Zenon DEF List!Give
    <3> QED
      BY <3>9, Zenon DEF List!ListNext
  <2> QED
    BY <2>3, <2>4
<1> HIDE DEF out, first
<1>13. CASE Outer(t)
  BY <1>8, <1>9, <1>10, <1>11, <1>13 DEF Outer
<1>14. CASE Inner(t)
  BY <1>8, <1>12, <1>14 DEF Inner
<1> QED
  BY <1>0, <1>13, <1>14

\* The directory of spfs is the list of Listing.tla: whatever is created,
\* listed, evicted or fails, children only come behind the others, every call of
\* spfs_iterate gives a sound stream the next children of the list, and a stream
\* ends only when it has all that were there when it was opened.
THEOREM Refinement == Spec => ImplementsListing
<1>1. Init => List!ListInit /\ Numbered
  <2> SUFFICES ASSUME Init PROVE List!ListInit /\ Numbered
    OBVIOUS
  <2>1. \A t \in Tasks : stream[t].pos = 0 /\ stream[t].out = << >> /\ stream[t].first = 0
    BY DEF Init, Closed
  <2>2. \A t \in Tasks : Sound(t) = TRUE
    BY <2>1, Zenon DEF Sound
  <2>3. Shown = << >>
    BY InitInvariant, Sizes DEF Init, Shown, Visible, IInv
  <2>4. /\ GivenTo = [t \in Tasks |-> << >>] /\ DueTo = [t \in Tasks |-> 0]
        /\ SoundFor = [t \in Tasks |-> TRUE]
    BY <2>1, <2>2, Zenon DEF GivenTo, DueTo, SoundFor
  <2> QED
    BY <2>3, <2>4 DEF List!ListInit, Init, Numbered
<1>2. IInv /\ Numbered /\ [Next]_vars => [List!ListNext]_(List!list_vars)
  <2> SUFFICES ASSUME IInv, Numbered, [Next]_vars
               PROVE  List!ListNext \/ UNCHANGED List!list_vars
    OBVIOUS
  <2>1. CASE Quiet
    <3>1. UNCHANGED <<words, listed, clean, stream>>
      BY <2>1 DEF Quiet, dir_vars, ghost_vars
    <3>2. Shown' = Shown
      BY <3>1 DEF Shown, Visible, Fitting, HeaderWords
    <3>3. UNCHANGED <<GivenTo, DueTo, SoundFor>>
      BY <3>1, StreamsUnaffected DEF Sound
    <3> QED
      BY <3>2, <3>3 DEF List!list_vars
  <2> QED
    BY <2>1, AddLists, IterateLists, NextSplit, QuietStep
<1>3. IInv /\ Numbered /\ [Next]_vars => Numbered'
  BY NextNumbered
<1> QED
  BY Invariant, <1>1, <1>2, <1>3, PTL DEF Spec, ImplementsListing, List!ListSpec

=============================================================================
